-------------------------- MODULE MCPaperRequests --------------------------
(***************************************************************************)
(* PaperRequests on small instances.                                       *)
(***************************************************************************)
EXTENDS PaperRequests

(* A loss that meets the floor at zero, a close at the entry price, a gain. *)
MCGrossPnls == {-2, 0, 1}
=============================================================================
