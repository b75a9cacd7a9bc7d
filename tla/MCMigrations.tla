---------------------------- MODULE MCMigrations ----------------------------
(* Four files in the manner of V0001, V0002, V0015 and V0005: tables and a    *)
(* seed, a procedure, a table altered, and the procedure made anew.           *)
EXTENDS Migrations

Does(kind, object) == [kind |-> kind, object |-> object]

MCScripts ==
  << <<Does("ensure", "table"), Does("seed", "seed")>>,
     <<Does("drop", "procedure"), Does("create", "procedure")>>,
     <<Does("ensure", "sessions"), Does("alter", "column")>>,
     <<Does("drop", "procedure"), Does("create", "procedure")>> >>
MCObjects == {"table", "sessions", "seed", "procedure", "column"}
=============================================================================
