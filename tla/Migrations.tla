----------------------------- MODULE Migrations -----------------------------
(* The migration runner (database/migration_runner.py) over MySQL: every run *)
(* discovers the files, reads schema_migrations, and applies what has no row *)
(* in version order, in one session.  MySQL commits whatever is open before  *)
(* each DDL statement and the statement by itself, so the session's commit   *)
(* only covers what follows the last DDL statement.                          *)
EXTENDS Integers, Sequences, FiniteSetsExt

CONSTANTS Runners,
          Scripts,       \* the shipped files: sequences of [kind, object]
          Objects,
          MaxEdits,      \* bound: files changed after they were shipped, once each
          MaxCrashes     \* bound: crashes

Statements == [kind : {"ensure", "alter", "drop", "create", "seed"}, object : Objects]
ASSUME ScriptsAreStatements == Scripts \in Seq(Seq(Statements))

\* The shipped files make an object for good with one statement among all of
\* them; only procedures are dropped, and made anew by the next statement.
ASSUME MadeOnce ==
  \A v, w \in DOMAIN Scripts : \A i \in DOMAIN Scripts[v], j \in DOMAIN Scripts[w] :
    Scripts[v][i].object = Scripts[w][j].object =>
      \/ {Scripts[v][i].kind, Scripts[w][j].kind} \subseteq {"drop", "create"}
      \/ v = w /\ i = j
ASSUME MadeAnew ==
  \A v \in DOMAIN Scripts : \A i \in DOMAIN Scripts[v] :
    Scripts[v][i].kind = "drop" =>
      /\ i + 1 \in DOMAIN Scripts[v]
      /\ Scripts[v][i + 1] = [Scripts[v][i] EXCEPT !.kind = "create"]

VARIABLES shipped,     \* the revision of each file in the directory
          schema,      \* the version each object is defined by, 0 when absent
          rows,        \* schema_migrations: the revision applied, 0 without a row
          runs,        \* the runner processes
          crashes,
          overlapped   \* observer: two runs have been active at a time

vars == <<shipped, schema, rows, runs, crashes, overlapped>>

Versions == DOMAIN Scripts
Active == {"discovered", "applying"}

\* What a run holds: the files it discovered, the versions it still has to
\* apply, in their order, the next statement, and the uncommitted rows and
\* seeds.  How a run that is not active ended is not kept: nothing reads it.
Run(pc, files, plan, next, txn) ==
  [pc |-> pc, files |-> files, plan |-> plan, next |-> next, txn |-> txn]
NoRun == Run("idle", <<>>, {}, 1, {})

Init ==
  /\ shipped = <<>>
  /\ schema = [o \in Objects |-> 0]
  /\ rows = [v \in Versions |-> 0]
  /\ runs = [r \in Runners |-> NoRun]
  /\ crashes = 0
  /\ overlapped = FALSE

\* The next version is shipped, or a file is changed after it was.
Ship ==
  /\ Len(shipped) < Len(Scripts)
  /\ shipped' = Append(shipped, 1)
  /\ UNCHANGED <<schema, rows, runs, crashes, overlapped>>

Edit(v) ==
  /\ v \in DOMAIN shipped /\ shipped[v] = 1
  /\ Cardinality({w \in DOMAIN shipped : shipped[w] = 2}) < MaxEdits
  /\ shipped' = [shipped EXCEPT ![v] = 2]
  /\ UNCHANGED <<schema, rows, runs, crashes, overlapped>>

Discover(r) ==
  /\ runs[r].pc \notin Active
  /\ runs' = [runs EXCEPT ![r] = Run("discovered", shipped, {}, 1, {})]
  /\ overlapped' = (overlapped \/ \E q \in Runners \ {r} : runs[q].pc \in Active)
  /\ UNCHANGED <<shipped, schema, rows, crashes>>

\* Mutant: a changed file is applied again.
PendingChanged(files) == {v \in DOMAIN files : rows[v] # files[v]}
\* build_migration_plan.
Pending(files) == {v \in DOMAIN files : rows[v] = 0}
Mismatched(files) == \E v \in DOMAIN files : rows[v] \notin {0, files[v]}

MakePlan(r, allowMismatch) ==
  /\ runs[r].pc = "discovered"
  /\ LET files == runs[r].files IN
     runs' = [runs EXCEPT ![r] =
       IF Mismatched(files) /\ ~allowMismatch THEN NoRun
       ELSE Run("applying", files, Pending(files), 1, {})]
  /\ UNCHANGED <<shipped, schema, rows, crashes, overlapped>>

Applying(r) == runs[r].pc = "applying" /\ runs[r].plan # {}
Version(r) == Min(runs[r].plan)
Statement(r) == Scripts[Version(r)][runs[r].next]

\* Mutant: the row is written when the last statement is still to come.
AtLastStatement(r) == runs[r].next >= Len(Scripts[Version(r)])
AtEnd(r) == runs[r].next > Len(Scripts[Version(r)])

\* What a transaction holds uncommitted, as rows and as seeds.
RowOf(v, revision) == [row |-> TRUE, key |-> v, value |-> revision]
SeedOf(o, v) == [row |-> FALSE, key |-> o, value |-> v]
HasRow(txn, v) == \E e \in txn : e.row /\ e.key = v
Value(txn, row, key) == (CHOOSE e \in txn : e.row = row /\ e.key = key).value

RowsAfter(txn) ==
  [v \in Versions |-> IF HasRow(txn, v) THEN Value(txn, TRUE, v) ELSE rows[v]]
SchemaAfter(txn) ==
  [o \in Objects |-> IF \E e \in txn : ~e.row /\ e.key = o
                     THEN Value(txn, FALSE, o) ELSE schema[o]]

\* The InnoDB lock another run's uncommitted write holds on the key.
Locked(r, row, key) ==
  \E q \in Runners \ {r} : \E e \in runs[q].txn : e.row = row /\ e.key = key

\* Mutant: a procedure that is not there cannot be dropped.
RefusesDrop(s) ==
  \/ s.kind \in {"alter", "create"} /\ schema[s.object] # 0
  \/ s.kind = "drop" /\ schema[s.object] = 0
\* ALTER ... ADD and CREATE PROCEDURE fail when the object is there; the other
\* statements of the shipped files do not.
Refuses(s) == s.kind \in {"alter", "create"} /\ schema[s.object] # 0

Defined(s, v) ==
  CASE s.kind = "drop" -> 0
    [] s.kind = "ensure" /\ schema[s.object] # 0 -> schema[s.object]
    [] OTHER -> v

\* The run behind the statement it executed.
Behind(run, txn) == Run("applying", run.files, run.plan, run.next + 1, txn)

(* A DDL statement commits what the session held, also when it then fails;    *)
(* the failure rolls back nothing more and ends the run.                      *)
ExecuteDDL(r) ==
  /\ Applying(r) /\ ~AtEnd(r)
  /\ LET s == Statement(r)
         flushed == SchemaAfter(runs[r].txn)
     IN /\ s.kind # "seed"
        /\ rows' = RowsAfter(runs[r].txn)
        /\ IF Refuses(s)
           THEN schema' = flushed /\ runs' = [runs EXCEPT ![r] = NoRun]
           ELSE /\ schema' = [flushed EXCEPT ![s.object] = Defined(s, Version(r))]
                /\ runs' = [runs EXCEPT ![r] = Behind(@, {})]
  /\ UNCHANGED <<shipped, crashes, overlapped>>

ExecuteSeed(r) ==
  /\ Applying(r) /\ ~AtEnd(r)
  /\ Statement(r).kind = "seed"
  /\ ~Locked(r, FALSE, Statement(r).object)
  /\ runs' = [runs EXCEPT ![r] =
       Behind(@, @.txn \cup {SeedOf(Statement(r).object, Version(r))})]
  /\ UNCHANGED <<shipped, schema, rows, crashes, overlapped>>

\* record_applied_migration: the primary key refuses a second row.
Record(r) ==
  /\ Applying(r) /\ AtEnd(r)
  /\ ~Locked(r, TRUE, Version(r))
  /\ runs' = [runs EXCEPT ![r] =
       IF rows[Version(r)] # 0 THEN NoRun
       ELSE Run("applying", @.files, @.plan \ {Version(r)}, 1,
                @.txn \cup {RowOf(Version(r), @.files[Version(r)])})]
  /\ UNCHANGED <<shipped, schema, rows, crashes, overlapped>>

\* The commit of AqosDatabase.session.
Finish(r) ==
  /\ runs[r].pc = "applying" /\ runs[r].plan = {}
  /\ rows' = RowsAfter(runs[r].txn)
  /\ schema' = SchemaAfter(runs[r].txn)
  /\ runs' = [runs EXCEPT ![r] = NoRun]
  /\ UNCHANGED <<shipped, crashes, overlapped>>

\* A run is killed, or its connection lost: the server rolls back.
Crash(r) ==
  /\ runs[r].pc \in Active /\ crashes < MaxCrashes
  /\ crashes' = crashes + 1
  /\ runs' = [runs EXCEPT ![r] = NoRun]
  /\ UNCHANGED <<shipped, schema, rows, overlapped>>

Step(r) ==
  \/ Discover(r)
  \/ \E allowMismatch \in BOOLEAN : MakePlan(r, allowMismatch)
  \/ ExecuteDDL(r) \/ ExecuteSeed(r) \/ Record(r) \/ Finish(r)

Next ==
  \/ Ship
  \/ \E v \in Versions : Edit(v)
  \/ \E r \in Runners : Step(r) \/ Crash(r)

Spec == Init /\ [][Next]_vars

(* Somebody runs the migrations again after a run ended, and a run goes on    *)
(* unless it crashes.                                                         *)
FairSpec == Spec /\ \A r \in Runners : WF_vars(Step(r))

-----------------------------------------------------------------------------
Makes(v, o) ==
  \E i \in DOMAIN Scripts[v] : Scripts[v][i].object = o /\ Scripts[v][i].kind # "drop"
Keeps(v, o) ==
  \E i \in DOMAIN Scripts[v] :
    Scripts[v][i].object = o /\ Scripts[v][i].kind \in {"ensure", "alter", "seed"}
Recorded == {v \in Versions : rows[v] # 0}

(* A version that has a row is complete: an object that no version without a  *)
(* row touches is as the last recorded version that makes it left it, however *)
(* often runs crashed, failed and were repeated -- as long as no two runs     *)
(* were active at a time.                                                     *)
SchemaIsAsRecorded ==
  ~overlapped =>
    \A o \in Objects :
      LET makers == {v \in Versions : Makes(v, o)}
      IN makers # {} /\ makers \subseteq Recorded => schema[o] = Max(makers)

(* Also when runs overlap and crash, what a recorded version adds for good -- *)
(* its tables, columns and seeds -- is there.                                 *)
TablesStay == \A v \in Recorded : \A o \in Objects : Keeps(v, o) => schema[o] # 0

HalfAltered ==
  \E v \in DOMAIN shipped \ Recorded : \E i \in DOMAIN Scripts[v] :
    Scripts[v][i].kind = "alter" /\ schema[Scripts[v][i].object] = v

(* Repeated runs get every shipped file applied, whatever crashed before and  *)
(* however runs overlap, unless an applied file was changed, or a crash left  *)
(* a script that alters a table half applied: nothing but a hand repairs that.*)
RerunCompletes ==
  <>[](\/ DOMAIN shipped \subseteq Recorded
       \/ Mismatched(shipped)
       \/ HalfAltered /\ crashes > 0)
=============================================================================
