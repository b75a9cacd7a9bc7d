-------------------------- MODULE MigrationsProofs --------------------------
(* What a row in schema_migrations promises, for any files in the manner of   *)
(* the shipped ones, any number of runners and any crashes.                   *)
EXTENDS Migrations, SumTheorems, SequenceTheorems

Rows == [row : {TRUE}, key : Versions, value : {1, 2}]
Seeds == [row : {FALSE}, key : Objects, value : Versions]
Process == [pc : {"idle"} \cup Active, files : Seq({1, 2}), plan : SUBSET Versions,
            next : Nat \ {0}, txn : SUBSET (Rows \cup Seeds)]

TypesFit ==
  /\ shipped \in Seq({1, 2}) /\ Len(shipped) <= Len(Scripts)
  /\ schema \in [Objects -> Nat]
  /\ rows \in [Versions -> {0, 1, 2}]
  /\ runs \in [Runners -> Process]
  /\ overlapped \in BOOLEAN

(* A seed in a transaction is one its version makes.                          *)
Seeded(v, o) ==
  \E i \in DOMAIN Scripts[v] : Scripts[v][i] = [kind |-> "seed", object |-> o]

(* A run applies files that were shipped, and is within one of their scripts. *)
Fits(p, files) ==
  /\ Len(p.files) <= Len(files)
  /\ p.plan \subseteq DOMAIN p.files
  /\ \A v \in Versions : HasRow(p.txn, v) => v \in DOMAIN p.files
  /\ \A e \in p.txn : ~e.row => Seeded(e.value, e.key)
  /\ p.pc = "applying" /\ p.plan # {} => p.next <= Len(Scripts[Min(p.plan)]) + 1
  /\ p.pc # "applying" => p.plan = {} /\ p.txn = {}

RunsFit == \A r \in Runners : Fits(runs[r], shipped)

(* What is made for good, as a row in the transaction or a statement behind   *)
(* the next one says, is in the schema or, uncommitted, in the run.           *)
Kept(v, i) == Scripts[v][i].kind \in {"ensure", "alter", "seed"}
Seen(p, sch, o) == sch[o] # 0 \/ \E e \in p.txn : ~e.row /\ e.key = o
KeptBy(p, sch) ==
  /\ \A v \in Versions, o \in Objects : HasRow(p.txn, v) /\ Keeps(v, o) => Seen(p, sch, o)
  /\ p.pc = "applying" /\ p.plan # {} =>
       \A i \in DOMAIN Scripts[Min(p.plan)] :
         i < p.next /\ Kept(Min(p.plan), i) => Seen(p, sch, Scripts[Min(p.plan)][i].object)

KeptStays == \A r \in Runners : KeptBy(runs[r], schema)

(* Only the version that makes an object for good ever defines it.            *)
Defines == \A v \in Versions, o \in Objects : Keeps(v, o) => schema[o] \in {0, v}

(* One run at a time.  What is reached -- recorded, or to be with the commit --*)
(* is every version up to one, and the last version that makes an object, when *)
(* reached, is the one that defines it.                                       *)
InTxn(txn) == {v \in Versions : HasRow(txn, v)}
Flushed(sch, txn) ==
  [o \in Objects |-> IF \E e \in txn : ~e.row /\ e.key = o
                     THEN Value(txn, FALSE, o) ELSE sch[o]]
Sound(reached, sch) ==
  /\ \A v \in reached, w \in Versions : w <= v => w \in reached
  /\ \A v \in reached, o \in Objects :
       Makes(v, o) /\ (\A w \in Versions : Makes(w, o) => w <= v) => sch[o] = v

(* The statements of v before the n-th have made what they make, but for a    *)
(* procedure just dropped, which is about to be made anew.                    *)
DoneBy(v, n, sch) ==
  \A i \in DOMAIN Scripts[v] :
    /\ i < n /\ Scripts[v][i].kind # "drop"
    /\ Scripts[v][n - 1] # [kind |-> "drop", object |-> Scripts[v][i].object]
    => sch[Scripts[v][i].object] = v

RunHolds(p, rec, sch) ==
  /\ p.pc \in Active => rec \subseteq DOMAIN p.files
  /\ p.pc = "applying" =>
       /\ p.plan = DOMAIN p.files \ (rec \cup InTxn(p.txn))
       /\ Sound(rec \cup InTxn(p.txn), Flushed(sch, p.txn))
       /\ p.plan # {} => DoneBy(Min(p.plan), p.next, Flushed(sch, p.txn))

OneRun ==
  ~overlapped =>
    /\ \A q, r \in Runners : runs[q].pc \in Active /\ runs[r].pc \in Active => q = r
    /\ Recorded \subseteq DOMAIN shipped /\ Sound(Recorded, schema)
    /\ \A r \in Runners : RunHolds(runs[r], Recorded, schema)

BaseInv == TypesFit /\ RunsFit
TablesInv == TablesStay /\ KeptStays

-----------------------------------------------------------------------------
(* The files are numbered from 1 and hold statements.                         *)
LEMMA ScriptFacts ==
  /\ Len(Scripts) \in Nat /\ Versions = 1 .. Len(Scripts)
  /\ \A v \in Versions :
       /\ Len(Scripts[v]) \in Nat /\ DOMAIN Scripts[v] = 1 .. Len(Scripts[v])
       /\ \A i \in DOMAIN Scripts[v] : Scripts[v][i] \in Statements
<1>1. Scripts \in Seq(Seq(Statements))
  BY ScriptsAreStatements
<1>2. Len(Scripts) \in Nat /\ Versions = 1 .. Len(Scripts)
  BY <1>1 DEF Versions
<1>3. ASSUME NEW v \in Versions
      PROVE  /\ Len(Scripts[v]) \in Nat /\ DOMAIN Scripts[v] = 1 .. Len(Scripts[v])
             /\ \A i \in DOMAIN Scripts[v] : Scripts[v][i] \in Statements
  <2>1. Scripts[v] \in Seq(Statements)
    BY <1>1, <1>3, ElementOfSeq DEF Versions
  <2>. QED
    BY <2>1, ElementOfSeq
<1>. QED
  BY <1>2, <1>3

(* The next version is the least of a plan.                                   *)
LEMMA MinIsLeast ==
  ASSUME NEW S, S \subseteq Nat, S # {}
  PROVE  Min(S) \in S /\ \A v \in S : Min(S) <= v
BY LeastNatural DEF Min

(* The version a run applies, and the statement it executes next.             *)
LEMMA Positioned ==
  ASSUME BaseInv, NEW r \in Runners, Applying(r)
  PROVE  /\ runs[r].pc = "applying" /\ runs[r] \in Process
         /\ Version(r) \in Versions /\ Version(r) \in runs[r].plan
         /\ Version(r) \in DOMAIN runs[r].files
         /\ \A v \in runs[r].plan : Version(r) <= v
         /\ runs[r].next \in 1 .. Len(Scripts[Version(r)]) + 1
         /\ ~AtEnd(r) => /\ runs[r].next \in DOMAIN Scripts[Version(r)]
                         /\ Statement(r) \in Statements
<1>1. runs[r] \in Process /\ runs[r].pc = "applying" /\ runs[r].plan # {}
  BY DEF BaseInv, TypesFit, Applying
<1>2. runs[r].plan \subseteq Versions /\ runs[r].plan \subseteq Nat
  BY <1>1, ScriptFacts DEF Process
<1>3. Version(r) \in runs[r].plan /\ \A v \in runs[r].plan : Version(r) <= v
  BY <1>1, <1>2, MinIsLeast DEF Version
<1>4. Version(r) \in Versions /\ Version(r) \in DOMAIN runs[r].files
  BY <1>2, <1>3 DEF BaseInv, RunsFit, Fits
<1>5. runs[r].next \in Nat \ {0} /\ runs[r].next <= Len(Scripts[Version(r)]) + 1
  BY <1>1 DEF Process, BaseInv, RunsFit, Fits, Applying, Version
<1>6. Len(Scripts[Version(r)]) \in Nat
      /\ DOMAIN Scripts[Version(r)] = 1 .. Len(Scripts[Version(r)])
      /\ \A i \in DOMAIN Scripts[Version(r)] : Scripts[Version(r)][i] \in Statements
  BY <1>4, ScriptFacts
<1>7. runs[r].next \in 1 .. Len(Scripts[Version(r)]) + 1
  BY <1>5, <1>6
<1>8. ~AtEnd(r) => runs[r].next \in DOMAIN Scripts[Version(r)]
  BY <1>5, <1>6 DEF AtEnd
<1>9. ~AtEnd(r) => Statement(r) \in Statements
  BY <1>6, <1>8 DEF Statement
<1>. QED
  BY <1>1, <1>3, <1>4, <1>7, <1>8, <1>9

(* What a commit writes.                                                      *)
LEMMA Committed ==
  ASSUME TypesFit, NEW txn \in SUBSET (Rows \cup Seeds)
  PROVE  /\ RowsAfter(txn) \in [Versions -> {0, 1, 2}]
         /\ \A v \in Versions : RowsAfter(txn)[v] # 0 <=> rows[v] # 0 \/ HasRow(txn, v)
         /\ SchemaAfter(txn) \in [Objects -> Nat]
         /\ \A o \in Objects : \/ SchemaAfter(txn)[o] = schema[o]
                                  /\ ~ \E e \in txn : ~e.row /\ e.key = o
                               \/ \E e \in txn : /\ ~e.row /\ e.key = o
                                                 /\ SchemaAfter(txn)[o] = e.value
         /\ \A o \in Objects : SchemaAfter(txn)[o] # 0
              <=> schema[o] # 0 \/ \E e \in txn : ~e.row /\ e.key = o
<1>1. ASSUME NEW v \in Versions
      PROVE  /\ RowsAfter(txn)[v] \in {0, 1, 2}
             /\ RowsAfter(txn)[v] # 0 <=> rows[v] # 0 \/ HasRow(txn, v)
  <2>1. CASE HasRow(txn, v)
    <3>1. PICK e \in txn : e.row = TRUE /\ e.key = v /\ Value(txn, TRUE, v) = e.value
      BY <2>1 DEF HasRow, Value, Rows, Seeds
    <3>2. e.value \in {1, 2}
      BY <3>1 DEF Rows, Seeds
    <3>3. RowsAfter(txn)[v] = e.value
      BY <2>1, <3>1 DEF RowsAfter
    <3>. QED
      BY <2>1, <3>2, <3>3
  <2>2. CASE ~HasRow(txn, v)
    BY <2>2 DEF RowsAfter, TypesFit
  <2>. QED
    BY <2>1, <2>2
<1>2. ASSUME NEW o \in Objects
      PROVE  /\ SchemaAfter(txn)[o] \in Nat
             /\ \/ /\ SchemaAfter(txn)[o] = schema[o]
                   /\ ~ \E e \in txn : ~e.row /\ e.key = o
                \/ \E e \in txn : /\ ~e.row /\ e.key = o
                                  /\ SchemaAfter(txn)[o] = e.value
             /\ SchemaAfter(txn)[o] # 0
                  <=> schema[o] # 0 \/ \E e \in txn : ~e.row /\ e.key = o
  <2>1. CASE \E e \in txn : ~e.row /\ e.key = o
    <3>1. \E e \in txn : e.row = FALSE /\ e.key = o
      BY <2>1 DEF Rows, Seeds
    <3>2. PICK e \in txn : e.row = FALSE /\ e.key = o /\ Value(txn, FALSE, o) = e.value
      BY <3>1 DEF Value
    <3>3. e.value \in Versions
      BY <3>2 DEF Rows, Seeds
    <3>4. e.value \in Nat /\ e.value # 0
      BY <3>3, ScriptFacts
    <3>. QED
      BY <2>1, <3>2, <3>4 DEF SchemaAfter
  <2>2. CASE ~ \E e \in txn : ~e.row /\ e.key = o
    BY <2>2 DEF SchemaAfter, TypesFit
  <2>. QED
    BY <2>1, <2>2
<1>3. RowsAfter(txn) \in [Versions -> {0, 1, 2}]
  BY <1>1 DEF RowsAfter
<1>4. SchemaAfter(txn) \in [Objects -> Nat]
  BY <1>2 DEF SchemaAfter
<1>. QED
  BY <1>1, <1>2, <1>3, <1>4

(* What NoRun holds, and the process a step leaves.                           *)
LEMMA Processes ==
  /\ NoRun \in Process /\ NoRun.pc = "idle" /\ NoRun.plan = {} /\ NoRun.txn = {}
  /\ NoRun.files = <<>>
  /\ \A pc, files, plan, next, txn :
       LET run == Run(pc, files, plan, next, txn)
       IN  /\ run.pc = pc /\ run.files = files /\ run.plan = plan
           /\ run.next = next /\ run.txn = txn
           /\ /\ pc \in {"idle"} \cup Active /\ files \in Seq({1, 2})
              /\ plan \subseteq Versions /\ next \in Nat \ {0}
              /\ txn \subseteq Rows \cup Seeds
              => run \in Process
<1>1. \A pc, files, plan, next, txn :
       LET run == Run(pc, files, plan, next, txn)
       IN  /\ run.pc = pc /\ run.files = files /\ run.plan = plan
           /\ run.next = next /\ run.txn = txn
           /\ /\ pc \in {"idle"} \cup Active /\ files \in Seq({1, 2})
              /\ plan \subseteq Versions /\ next \in Nat \ {0}
              /\ txn \subseteq Rows \cup Seeds
              => run \in Process
  BY DEF Run, Process
<1>2. <<>> \in Seq({1, 2})
  OBVIOUS
<1>3. NoRun = [pc |-> "idle", files |-> <<>>, plan |-> {}, next |-> 1, txn |-> {}]
  BY DEF NoRun, Run
<1>4. NoRun \in Process
  BY <1>2, <1>3 DEF Process
<1>. QED
  BY <1>1, <1>3, <1>4

(* A run that ends, wherever, fits.                                           *)
LEMMA NoRunFits ==
  ASSUME NEW files, Len(files) \in Nat
  PROVE  Fits(NoRun, files)
<1>1. Len(NoRun.files) = 0
  BY Processes
<1>. QED
  BY <1>1, Processes DEF Fits, HasRow

(* One run moves on, and no file is taken away.                               *)
LEMMA OneRunner ==
  ASSUME BaseInv, NEW r \in Runners, NEW p \in Process,
         runs' = [runs EXCEPT ![r] = p], Fits(p, shipped), shipped' = shipped,
         schema' \in [Objects -> Nat], rows' \in [Versions -> {0, 1, 2}],
         overlapped' \in BOOLEAN
  PROVE  /\ BaseInv'
         /\ runs'[r] = p /\ \A q \in Runners \ {r} : runs'[q] = runs[q]
<1>1. /\ runs' \in [Runners -> Process]
      /\ runs'[r] = p /\ \A q \in Runners \ {r} : runs'[q] = runs[q]
  BY DEF BaseInv, TypesFit
<1>2. TypesFit'
  BY <1>1 DEF BaseInv, TypesFit
<1>3. \A q \in Runners : Fits(runs[q], shipped)
  BY DEF RunsFit, BaseInv
<1>4. \A q \in Runners : Fits(runs'[q], shipped')
  BY <1>1, <1>3
<1>5. RunsFit'
  BY <1>4 DEF RunsFit, Fits
<1>. QED
  BY <1>1, <1>2, <1>5 DEF BaseInv

LEMMA InitBase == Init => BaseInv
<1> SUFFICES ASSUME Init PROVE BaseInv
  OBVIOUS
<1>1. /\ shipped = <<>> /\ schema = [o \in Objects |-> 0] /\ rows = [v \in Versions |-> 0]
      /\ runs = [r \in Runners |-> NoRun] /\ overlapped = FALSE
  BY DEF Init
<1>2. shipped \in Seq({1, 2}) /\ Len(shipped) = 0
  BY <1>1
<1>3. TypesFit
  <2>1. schema \in [Objects -> Nat] /\ rows \in [Versions -> {0, 1, 2}]
    BY <1>1
  <2>2. runs \in [Runners -> Process]
    <3>1. NoRun \in Process
      BY Processes
    <3>. QED
      BY <1>1, <3>1
  <2>. QED
    <3>1. Len(shipped) <= Len(Scripts)
      BY <1>2, ScriptFacts
    <3>. QED
      BY <1>1, <1>2, <2>1, <2>2, <3>1 DEF TypesFit
<1>4. \A r \in Runners : Fits(runs[r], shipped)
  <2>1. Fits(NoRun, shipped)
    BY <1>2, NoRunFits
  <2>. QED
    BY <1>1, <2>1
<1>. QED
  BY <1>3, <1>4 DEF RunsFit, BaseInv

(* A file shipped or changed leaves the runs what they are.                   *)
LEMMA ShipBase ==
  ASSUME BaseInv, Ship \/ \E v \in Versions : Edit(v)
  PROVE  BaseInv' /\ DOMAIN shipped \subseteq DOMAIN shipped'
                  /\ UNCHANGED <<schema, rows, runs, overlapped>>
<1>1. UNCHANGED <<schema, rows, runs, overlapped>>
  BY DEF Ship, Edit
<1>2. /\ shipped' \in Seq({1, 2}) /\ Len(shipped') <= Len(Scripts)
      /\ Len(shipped) <= Len(shipped') /\ DOMAIN shipped \subseteq DOMAIN shipped'
  <2>1. shipped \in Seq({1, 2}) /\ Len(shipped) \in Nat /\ DOMAIN shipped = 1 .. Len(shipped)
    BY DEF BaseInv, TypesFit
  <2>2. CASE Ship
    <3>1. shipped' = Append(shipped, 1) /\ Len(shipped) < Len(Scripts)
      BY <2>2 DEF Ship
    <3>2. shipped' \in Seq({1, 2}) /\ Len(shipped') = Len(shipped) + 1
      BY <2>1, <3>1
    <3>. QED
      BY <2>1, <3>1, <3>2, ScriptFacts
  <2>3. CASE \E v \in Versions : Edit(v)
    <3>1. PICK v : v \in DOMAIN shipped /\ shipped' = [shipped EXCEPT ![v] = 2]
      BY <2>3 DEF Edit
    <3>2. shipped' \in Seq({1, 2}) /\ Len(shipped') = Len(shipped)
      BY <2>1, <3>1
    <3>3. DOMAIN shipped' = DOMAIN shipped
      BY <3>1
    <3>. QED
      BY <2>1, <3>2, <3>3 DEF BaseInv, TypesFit
  <2>. QED
    BY <2>2, <2>3
<1>3. TypesFit'
  BY <1>1, <1>2 DEF BaseInv, TypesFit
<1>4. \A r \in Runners : Len(runs[r].files) \in Nat
  BY DEF BaseInv, TypesFit, Process
<1>5. Len(shipped) \in Nat /\ Len(shipped') \in Nat
  BY <1>2 DEF BaseInv, TypesFit
<1>6. RunsFit'
  <2>1. \A r \in Runners : Fits(runs[r], shipped)
    BY DEF RunsFit, BaseInv
  <2>2. \A r \in Runners : Fits(runs'[r], shipped')
    BY <1>1, <1>2, <1>4, <1>5, <2>1 DEF Fits
  <2>. QED
    BY <2>2 DEF RunsFit, Fits
<1>. QED
  BY <1>1, <1>2, <1>3, <1>6 DEF BaseInv

(* A run reads the files that are there, and nothing else changes.            *)
LEMMA DiscoverBase ==
  ASSUME BaseInv, NEW r \in Runners, Discover(r)
  PROVE  /\ BaseInv'
         /\ \A q \in Runners \ {r} : runs'[q] = runs[q]
         /\ runs'[r].pc = "discovered" /\ runs'[r].files = shipped
         /\ runs'[r].plan = {} /\ runs'[r].txn = {}
<1>1. PICK p : p = Run("discovered", shipped, {}, 1, {})
  OBVIOUS
<1>2. /\ p \in Process /\ p.pc = "discovered" /\ p.files = shipped
      /\ p.plan = {} /\ p.txn = {}
  BY <1>1, Processes DEF BaseInv, TypesFit, Active
<1>3. Len(shipped) \in Nat
  BY DEF BaseInv, TypesFit
<1>4. Fits(p, shipped)
  BY <1>2, <1>3 DEF Fits, HasRow
<1>5. /\ runs' = [runs EXCEPT ![r] = p]
      /\ UNCHANGED <<shipped, schema, rows>> /\ overlapped' \in BOOLEAN
  BY <1>1 DEF Discover, BaseInv, TypesFit
<1>6. schema' \in [Objects -> Nat] /\ rows' \in [Versions -> {0, 1, 2}]
  BY <1>5 DEF BaseInv, TypesFit
<1>. QED
  BY <1>2, <1>4, <1>5, <1>6, OneRunner

(* The plan is what has no row, unless the run refuses to go on.              *)
LEMMA PlanBase ==
  ASSUME BaseInv, NEW r \in Runners, NEW allowMismatch, MakePlan(r, allowMismatch)
  PROVE  /\ BaseInv'
         /\ UNCHANGED <<shipped, schema, rows, overlapped>>
         /\ \A q \in Runners \ {r} : runs'[q] = runs[q]
         /\ runs[r].pc = "discovered"
         /\ \/ runs'[r] = NoRun
            \/ /\ runs'[r].pc = "applying" /\ runs'[r].files = runs[r].files
               /\ runs'[r].plan = {v \in DOMAIN runs[r].files : rows[v] = 0}
               /\ runs'[r].next = 1 /\ runs'[r].txn = {}
<1>1. runs[r] \in Process /\ Fits(runs[r], shipped)
  BY DEF RunsFit, BaseInv, TypesFit
<1>2. PICK go : go = Run("applying", runs[r].files, Pending(runs[r].files), 1, {})
  OBVIOUS
<1>3. /\ go.pc = "applying" /\ go.files = runs[r].files
      /\ go.plan = {v \in DOMAIN runs[r].files : rows[v] = 0}
      /\ go.next = 1 /\ go.txn = {}
  BY <1>2, Processes DEF Pending
<1>4. runs[r].files \in Seq({1, 2}) /\ Len(runs[r].files) <= Len(shipped)
      /\ Len(runs[r].files) \in Nat /\ Len(shipped) \in Nat /\ Len(shipped) <= Len(Scripts)
  BY <1>1 DEF Process, Fits, BaseInv, TypesFit
<1>5. DOMAIN runs[r].files \subseteq Versions
  BY <1>4, ScriptFacts
<1>6. go \in Process
  BY <1>2, <1>3, <1>4, <1>5, Processes DEF Active
<1>7. Fits(go, shipped)
  <2>1. go.plan # {} => Min(go.plan) \in Versions
    BY <1>3, <1>5, MinIsLeast, ScriptFacts
  <2>2. go.plan # {} => Len(Scripts[Min(go.plan)]) \in Nat
    BY <2>1, ScriptFacts
  <2>. QED
    BY <1>3, <1>4, <2>2 DEF Fits, HasRow
<1>8. Fits(NoRun, shipped) /\ NoRun \in Process
  BY <1>4, NoRunFits, Processes
<1>9. PICK p \in {NoRun, go} : runs' = [runs EXCEPT ![r] = p]
  BY <1>2 DEF MakePlan
<1>10. /\ UNCHANGED <<shipped, schema, rows, overlapped>> /\ runs[r].pc = "discovered"
       /\ schema' \in [Objects -> Nat] /\ rows' \in [Versions -> {0, 1, 2}]
       /\ overlapped' \in BOOLEAN
  BY DEF MakePlan, BaseInv, TypesFit
<1>11. p \in Process /\ Fits(p, shipped)
  BY <1>6, <1>7, <1>8, <1>9
<1>12. /\ BaseInv' /\ runs'[r] = p /\ \A q \in Runners \ {r} : runs'[q] = runs[q]
  BY <1>9, <1>10, <1>11, OneRunner
<1>. QED
  BY <1>3, <1>9, <1>10, <1>12

(* A run ends: a crash, or the commit at the end.                             *)
LEMMA EndBase ==
  ASSUME BaseInv, NEW r \in Runners, Crash(r) \/ Finish(r)
  PROVE  /\ BaseInv'
         /\ UNCHANGED <<shipped, overlapped>>
         /\ \A q \in Runners \ {r} : runs'[q] = runs[q]
         /\ runs'[r] = NoRun
<1>1. runs' = [runs EXCEPT ![r] = NoRun] /\ UNCHANGED <<shipped, overlapped>>
  BY DEF Crash, Finish
<1>2. schema' \in [Objects -> Nat] /\ rows' \in [Versions -> {0, 1, 2}]
  <2>1. CASE Crash(r)
    BY <2>1 DEF Crash, BaseInv, TypesFit
  <2>2. CASE Finish(r)
    <3>1. runs[r].txn \in SUBSET (Rows \cup Seeds)
      BY DEF BaseInv, TypesFit, Process
    <3>. QED
      BY <2>2, <3>1, Committed DEF Finish, BaseInv
  <2>. QED
    BY <2>1, <2>2
<1>3. Fits(NoRun, shipped) /\ NoRun \in Process
  BY NoRunFits, Processes DEF BaseInv, TypesFit
<1>4. overlapped' \in BOOLEAN
  BY <1>1 DEF BaseInv, TypesFit
<1>. QED
  BY <1>1, <1>2, <1>3, <1>4, OneRunner

(* A DDL statement commits; then it fails, or the run goes on behind it.      *)
LEMMA DDLBase ==
  ASSUME BaseInv, NEW r \in Runners, ExecuteDDL(r)
  PROVE  /\ BaseInv'
         /\ UNCHANGED <<shipped, overlapped>>
         /\ \A q \in Runners \ {r} : runs'[q] = runs[q]
         /\ rows' = RowsAfter(runs[r].txn)
         /\ \/ /\ runs'[r] = NoRun /\ schema' = SchemaAfter(runs[r].txn)
            \/ /\ ~Refuses(Statement(r))
               /\ schema' = [SchemaAfter(runs[r].txn) EXCEPT
                               ![Statement(r).object] = Defined(Statement(r), Version(r))]
               /\ runs'[r].pc = "applying" /\ runs'[r].files = runs[r].files
               /\ runs'[r].plan = runs[r].plan /\ runs'[r].next = runs[r].next + 1
               /\ runs'[r].txn = {}
<1>1. /\ Applying(r) /\ ~AtEnd(r) /\ UNCHANGED <<shipped, overlapped>>
      /\ rows' = RowsAfter(runs[r].txn)
  BY DEF ExecuteDDL
<1>2. /\ Version(r) \in Versions /\ runs[r] \in Process
      /\ runs[r].next \in 1 .. Len(Scripts[Version(r)]) + 1
      /\ runs[r].next \in DOMAIN Scripts[Version(r)] /\ Statement(r) \in Statements
  BY <1>1, Positioned
<1>3. runs[r].txn \in SUBSET (Rows \cup Seeds) /\ runs[r].next \in Nat \ {0}
      /\ Fits(runs[r], shipped) /\ Len(shipped) \in Nat /\ overlapped \in BOOLEAN
  BY <1>2 DEF RunsFit, BaseInv, TypesFit, Process
<1>4. rows' \in [Versions -> {0, 1, 2}] /\ SchemaAfter(runs[r].txn) \in [Objects -> Nat]
  BY <1>1, <1>3, Committed DEF BaseInv
<1>5. CASE Refuses(Statement(r))
  <2>1. runs' = [runs EXCEPT ![r] = NoRun] /\ schema' = SchemaAfter(runs[r].txn)
    BY <1>5 DEF ExecuteDDL
  <2>2. Fits(NoRun, shipped) /\ NoRun \in Process
    BY <1>3, NoRunFits, Processes
  <2>3. /\ BaseInv' /\ runs'[r] = NoRun /\ \A q \in Runners \ {r} : runs'[q] = runs[q]
    BY <1>1, <1>3, <1>4, <2>1, <2>2, OneRunner
  <2>. QED
    BY <1>1, <2>1, <2>3
<1>6. CASE ~Refuses(Statement(r))
  <2>1. PICK p : p = Behind(runs[r], {})
    OBVIOUS
  <2>2. /\ runs' = [runs EXCEPT ![r] = p]
        /\ schema' = [SchemaAfter(runs[r].txn) EXCEPT
                        ![Statement(r).object] = Defined(Statement(r), Version(r))]
    BY <1>6, <2>1 DEF ExecuteDDL
  <2>3. /\ p \in Process /\ p.pc = runs[r].pc /\ p.files = runs[r].files
        /\ p.plan = runs[r].plan /\ p.next = runs[r].next + 1 /\ p.txn = {}
    <3>1. runs[r].files \in Seq({1, 2}) /\ runs[r].plan \subseteq Versions
          /\ runs[r].next + 1 \in Nat \ {0} /\ runs[r].pc = "applying"
      BY <1>1, <1>2, <1>3 DEF Process, Applying
    <3>. QED
      BY <2>1, <3>1, Processes DEF Active, Behind
  <2>4. Fits(p, shipped)
    <3>1. runs[r].next + 1 <= Len(Scripts[Version(r)]) + 1
      BY <1>2, ScriptFacts
    <3>. QED
      BY <1>3, <2>3, <3>1 DEF Fits, HasRow, Version
  <2>5. Defined(Statement(r), Version(r)) \in Nat
    <3>1. schema[Statement(r).object] \in Nat /\ Version(r) \in Nat
      BY <1>2, ScriptFacts DEF BaseInv, TypesFit, Statements
    <3>. QED
      BY <3>1 DEF Defined
  <2>6. schema' \in [Objects -> Nat]
    BY <1>4, <2>2, <2>5
  <2>7. /\ BaseInv' /\ runs'[r] = p /\ \A q \in Runners \ {r} : runs'[q] = runs[q]
    BY <1>1, <1>3, <1>4, <2>2, <2>3, <2>4, <2>6, OneRunner
  <2>. QED
    BY <1>1, <1>6, <2>2, <2>3, <2>7 DEF Applying
<1>. QED
  BY <1>5, <1>6

(* A seed waits, uncommitted, in the run.                                     *)
LEMMA SeedBase ==
  ASSUME BaseInv, NEW r \in Runners, ExecuteSeed(r)
  PROVE  /\ BaseInv'
         /\ UNCHANGED <<shipped, schema, rows, overlapped>>
         /\ \A q \in Runners \ {r} : runs'[q] = runs[q]
         /\ Statement(r).kind = "seed"
         /\ runs'[r].pc = "applying" /\ runs'[r].files = runs[r].files
         /\ runs'[r].plan = runs[r].plan /\ runs'[r].next = runs[r].next + 1
         /\ runs'[r].txn = runs[r].txn \cup {SeedOf(Statement(r).object, Version(r))}
<1>1. /\ Applying(r) /\ ~AtEnd(r) /\ UNCHANGED <<shipped, schema, rows, overlapped>>
      /\ Statement(r).kind = "seed"
  BY DEF ExecuteSeed
<1>2. /\ Version(r) \in Versions /\ runs[r] \in Process /\ runs[r].pc = "applying"
      /\ runs[r].next \in 1 .. Len(Scripts[Version(r)]) + 1
      /\ runs[r].next \in DOMAIN Scripts[Version(r)] /\ Statement(r) \in Statements
  BY <1>1, Positioned
<1>3. /\ runs[r].txn \in SUBSET (Rows \cup Seeds) /\ runs[r].next \in Nat \ {0}
      /\ runs[r].files \in Seq({1, 2}) /\ runs[r].plan \subseteq Versions
      /\ Fits(runs[r], shipped)
  BY <1>2 DEF RunsFit, BaseInv, Process
<1>4. PICK e : e = SeedOf(Statement(r).object, Version(r))
  OBVIOUS
<1>5. e \in Seeds /\ e.row = FALSE /\ Seeded(e.value, e.key)
  <2>1. Statement(r).object \in Objects
    BY <1>2 DEF Statements
  <2>2. e \in Seeds /\ e.row = FALSE /\ e.value = Version(r) /\ e.key = Statement(r).object
    BY <1>2, <1>4, <2>1 DEF SeedOf, Seeds
  <2>3. Scripts[Version(r)][runs[r].next] = [kind |-> "seed", object |-> Statement(r).object]
    BY <1>1, <1>2 DEF Statement, Statements
  <2>. QED
    BY <1>2, <2>2, <2>3 DEF Seeded
<1>6. PICK p : p = Behind(runs[r], runs[r].txn \cup {e})
  OBVIOUS
<1>7. runs' = [runs EXCEPT ![r] = p]
  BY <1>4, <1>6 DEF ExecuteSeed
<1>8. /\ p \in Process /\ p.pc = "applying" /\ p.files = runs[r].files
      /\ p.plan = runs[r].plan /\ p.next = runs[r].next + 1 /\ p.txn = runs[r].txn \cup {e}
  <2>1. runs[r].next + 1 \in Nat \ {0} /\ runs[r].txn \cup {e} \subseteq Rows \cup Seeds
    BY <1>3, <1>5
  <2>. QED
    BY <1>3, <1>6, <2>1, Processes DEF Active, Behind
<1>9. Fits(p, shipped)
  <2>1. runs[r].next + 1 <= Len(Scripts[Version(r)]) + 1
    BY <1>2, ScriptFacts
  <2>2. \A v \in Versions : HasRow(p.txn, v) => HasRow(runs[r].txn, v)
    BY <1>5, <1>8 DEF HasRow
  <2>3. \A f \in p.txn : ~f.row => Seeded(f.value, f.key)
    BY <1>3, <1>5, <1>8 DEF Fits
  <2>4. p.plan # {} => p.next <= Len(Scripts[Min(p.plan)]) + 1
    BY <1>8, <2>1 DEF Version
  <2>. QED
    BY <1>3, <1>8, <2>2, <2>3, <2>4 DEF Fits
<1>10. /\ schema' \in [Objects -> Nat] /\ rows' \in [Versions -> {0, 1, 2}]
       /\ overlapped' \in BOOLEAN /\ shipped' = shipped
  BY <1>1 DEF BaseInv, TypesFit
<1>11. BaseInv' /\ runs'[r] = p /\ \A q \in Runners \ {r} : runs'[q] = runs[q]
  BY <1>7, <1>8, <1>9, <1>10, OneRunner
<1>. QED
  BY <1>1, <1>4, <1>8, <1>11

(* A row waits, uncommitted, in the run, unless the key is taken.             *)
LEMMA RecordBase ==
  ASSUME BaseInv, NEW r \in Runners, Record(r)
  PROVE  /\ BaseInv'
         /\ UNCHANGED <<shipped, schema, rows, overlapped>>
         /\ \A q \in Runners \ {r} : runs'[q] = runs[q]
         /\ Applying(r) /\ AtEnd(r)
         /\ \/ rows[Version(r)] # 0 /\ runs'[r] = NoRun
            \/ /\ runs'[r].pc = "applying" /\ runs'[r].files = runs[r].files
               /\ runs'[r].plan = runs[r].plan \ {Version(r)} /\ runs'[r].next = 1
               /\ runs'[r].txn =
                    runs[r].txn \cup {RowOf(Version(r), runs[r].files[Version(r)])}
<1>1. Applying(r) /\ AtEnd(r) /\ UNCHANGED <<shipped, schema, rows, overlapped>>
  BY DEF Record
<1>2. /\ Version(r) \in Versions /\ runs[r] \in Process /\ runs[r].pc = "applying"
      /\ Version(r) \in DOMAIN runs[r].files
  BY <1>1, Positioned
<1>3. /\ runs[r].txn \in SUBSET (Rows \cup Seeds)
      /\ runs[r].files \in Seq({1, 2}) /\ runs[r].plan \subseteq Versions
      /\ Fits(runs[r], shipped)
  BY <1>2 DEF RunsFit, BaseInv, Process
<1>4. PICK e : e = RowOf(Version(r), runs[r].files[Version(r)])
  OBVIOUS
<1>5. e \in Rows /\ e.row = TRUE /\ e.key = Version(r)
  <2>1. runs[r].files[Version(r)] \in {1, 2}
    BY <1>2, <1>3
  <2>. QED
    BY <1>2, <1>4, <2>1 DEF RowOf, Rows
<1>6. PICK p : p = Run("applying", runs[r].files, runs[r].plan \ {Version(r)}, 1,
                       runs[r].txn \cup {e})
  OBVIOUS
<1>7. /\ p \in Process /\ p.pc = "applying" /\ p.files = runs[r].files
      /\ p.plan = runs[r].plan \ {Version(r)} /\ p.next = 1 /\ p.txn = runs[r].txn \cup {e}
  <2>1. runs[r].txn \cup {e} \subseteq Rows \cup Seeds
    BY <1>3, <1>5
  <2>2. runs[r].plan \ {Version(r)} \subseteq Versions
    BY <1>3
  <2>. QED
    BY <1>3, <1>6, <2>1, <2>2, Processes DEF Active
<1>8. Fits(p, shipped)
  <2>1. \A v \in Versions : HasRow(p.txn, v) => HasRow(runs[r].txn, v) \/ v = Version(r)
    BY <1>5, <1>7 DEF HasRow
  <2>2. \A f \in p.txn : ~f.row => Seeded(f.value, f.key)
    BY <1>3, <1>5, <1>7 DEF Fits
  <2>3. p.plan # {} => p.next <= Len(Scripts[Min(p.plan)]) + 1
    <3>0. p.plan \subseteq Versions /\ p.plan \subseteq Nat
      BY <1>3, <1>7, ScriptFacts
    <3>1. p.plan # {} => Min(p.plan) \in Versions
      BY <3>0, MinIsLeast
    <3>2. p.plan # {} => Len(Scripts[Min(p.plan)]) \in Nat
      BY <3>1, ScriptFacts
    <3>. QED
      BY <1>7, <3>2
  <2>4. \A v \in Versions : HasRow(p.txn, v) => v \in DOMAIN p.files
    BY <1>2, <1>3, <1>7, <2>1 DEF Fits
  <2>. QED
    BY <1>3, <1>7, <2>2, <2>3, <2>4 DEF Fits
<1>9. Fits(NoRun, shipped) /\ NoRun \in Process
  BY NoRunFits, Processes DEF BaseInv, TypesFit
<1>10. \/ rows[Version(r)] # 0 /\ runs' = [runs EXCEPT ![r] = NoRun]
       \/ runs' = [runs EXCEPT ![r] = p]
  BY <1>4, <1>6 DEF Record
<1>11. PICK q : /\ q \in {NoRun, p} /\ runs' = [runs EXCEPT ![r] = q]
                /\ q = p \/ rows[Version(r)] # 0
  BY <1>10
<1>12. /\ schema' \in [Objects -> Nat] /\ rows' \in [Versions -> {0, 1, 2}]
       /\ overlapped' \in BOOLEAN /\ shipped' = shipped
  BY <1>1 DEF BaseInv, TypesFit
<1>13. q \in Process /\ Fits(q, shipped)
  BY <1>7, <1>8, <1>9, <1>11
<1>14. BaseInv' /\ runs'[r] = q /\ \A x \in Runners \ {r} : runs'[x] = runs[x]
  BY <1>11, <1>12, <1>13, OneRunner
<1>. QED
  BY <1>1, <1>4, <1>7, <1>11, <1>14

-----------------------------------------------------------------------------
(* A statement that makes an object for good is the only one about it.        *)
LEMMA KeptOnce ==
  ASSUME NEW v \in Versions, NEW i \in DOMAIN Scripts[v], Kept(v, i),
         NEW w \in Versions, NEW j \in DOMAIN Scripts[w],
         Scripts[w][j].object = Scripts[v][i].object
  PROVE  v = w /\ i = j
BY MadeOnce DEF Versions, Kept

(* What a kept statement made stays seen while nothing kept goes away.        *)
LEMMA KeptByGrows ==
  ASSUME NEW p \in Process, NEW s, NEW t, KeptBy(p, s),
         \A v \in Versions, o \in Objects : Keeps(v, o) /\ s[o] # 0 => t[o] # 0
  PROVE  KeptBy(p, t)
<1>1. ASSUME NEW v \in Versions, NEW o \in Objects, Keeps(v, o), Seen(p, s, o)
      PROVE  Seen(p, t, o)
  BY <1>1 DEF Seen
<1>2. ASSUME p.pc = "applying", p.plan # {}, NEW i \in DOMAIN Scripts[Min(p.plan)],
             i < p.next, Kept(Min(p.plan), i)
      PROVE  Seen(p, t, Scripts[Min(p.plan)][i].object)
  <2>1. p.plan \subseteq Versions /\ p.plan \subseteq Nat
    BY ScriptFacts DEF Process
  <2>2. Min(p.plan) \in Versions
    BY <1>2, <2>1, MinIsLeast
  <2>3. Scripts[Min(p.plan)][i].object \in Objects
    BY <1>2, <2>2, ScriptFacts DEF Statements
  <2>4. Keeps(Min(p.plan), Scripts[Min(p.plan)][i].object)
    BY <1>2 DEF Keeps, Kept
  <2>5. Seen(p, s, Scripts[Min(p.plan)][i].object)
    BY <1>2 DEF KeptBy
  <2>. QED
    BY <1>1, <2>2, <2>3, <2>4, <2>5
<1>3. ASSUME NEW v \in Versions, NEW o \in Objects, HasRow(p.txn, v), Keeps(v, o)
      PROVE  Seen(p, t, o)
  BY <1>1, <1>3 DEF KeptBy
<1>. QED
  BY <1>2, <1>3 DEF KeptBy

(* A step of one run that takes nothing kept away.                            *)
LEMMA TablesOneRunner ==
  ASSUME BaseInv, TablesInv, NEW r \in Runners,
         \A q \in Runners \ {r} : runs'[q] = runs[q],
         \A v \in Versions, o \in Objects : Keeps(v, o) /\ schema[o] # 0 => schema'[o] # 0,
         \A v \in Versions, o \in Objects :
           rows[v] = 0 /\ rows'[v] # 0 /\ Keeps(v, o) => schema'[o] # 0,
         KeptBy(runs'[r], schema')
  PROVE  TablesInv'
<1>1. TablesStay'
  BY DEF TablesInv, TablesStay, Recorded
<1>2. ASSUME NEW q \in Runners PROVE KeptBy(runs'[q], schema')
  <2>1. CASE q = r
    BY <2>1
  <2>2. CASE q # r
    <3>1. runs[q] \in Process /\ KeptBy(runs[q], schema) /\ runs'[q] = runs[q]
      BY <2>2 DEF BaseInv, TypesFit, TablesInv, KeptStays
    <3>2. KeptBy(runs[q], schema')
      BY <3>1, KeptByGrows
    <3>. QED
      BY <3>1, <3>2
  <2>. QED
    BY <2>1, <2>2
<1>3. KeptStays'
  BY <1>2 DEF KeptStays
<1>. QED
  BY <1>1, <1>3 DEF TablesInv

(* A run that holds no transaction and executed nothing promises nothing.     *)
LEMMA Fresh ==
  ASSUME NEW p, NEW s, p.txn = {}, p.plan = {} \/ p.next = 1, p.plan \subseteq Versions
  PROVE  KeptBy(p, s)
<1>1. \A v : ~HasRow(p.txn, v)
  BY DEF HasRow
<1>2. ASSUME p.plan # {}, NEW i \in DOMAIN Scripts[Min(p.plan)] PROVE ~(i < p.next)
  <2>1. p.plan \subseteq Nat
    BY ScriptFacts
  <2>2. Min(p.plan) \in Versions
    BY <1>2, <2>1, MinIsLeast
  <2>3. i \in 1 .. Len(Scripts[Min(p.plan)]) /\ Len(Scripts[Min(p.plan)]) \in Nat
    BY <1>2, <2>2, ScriptFacts
  <2>. QED
    BY <1>2, <2>3
<1>. QED
  BY <1>1, <1>2 DEF KeptBy

(* A commit takes nothing away, and what a run saw is in the schema then.     *)
LEMMA TablesCommitted ==
  ASSUME BaseInv, TablesInv, NEW r \in Runners
  PROVE  /\ \A o \in Objects : schema[o] # 0 => SchemaAfter(runs[r].txn)[o] # 0
         /\ \A o \in Objects : Seen(runs[r], schema, o) => SchemaAfter(runs[r].txn)[o] # 0
         /\ \A v \in Versions, o \in Objects :
              rows[v] = 0 /\ RowsAfter(runs[r].txn)[v] # 0 /\ Keeps(v, o)
              => SchemaAfter(runs[r].txn)[o] # 0
<1>1. runs[r].txn \in SUBSET (Rows \cup Seeds) /\ KeptBy(runs[r], schema)
  BY DEF BaseInv, TypesFit, Process, TablesInv, KeptStays
<1>2. \A o \in Objects : Seen(runs[r], schema, o) => SchemaAfter(runs[r].txn)[o] # 0
  BY <1>1, Committed DEF Seen, BaseInv
<1>3. ASSUME NEW v \in Versions, rows[v] = 0, RowsAfter(runs[r].txn)[v] # 0
      PROVE  HasRow(runs[r].txn, v)
  BY <1>1, <1>3, Committed DEF BaseInv
<1>. QED
  BY <1>1, <1>2, <1>3 DEF Seen, KeptBy

LEMMA TablesDDL ==
  ASSUME BaseInv, TablesInv, NEW r \in Runners, ExecuteDDL(r)
  PROVE  TablesInv'
<1>1. Applying(r) /\ ~AtEnd(r) /\ Statement(r).kind # "seed"
  BY DEF ExecuteDDL
<1>2. PICK flushed : flushed = SchemaAfter(runs[r].txn)
  OBVIOUS
<1>3. /\ Version(r) \in Versions /\ runs[r] \in Process
      /\ runs[r].next \in DOMAIN Scripts[Version(r)] /\ Statement(r) \in Statements
  BY <1>1, Positioned
<1>4. /\ flushed \in [Objects -> Nat] /\ Version(r) \in Nat \ {0}
      /\ Statement(r).object \in Objects /\ schema \in [Objects -> Nat]
      /\ runs[r].next \in Nat
  <2>1. runs[r].txn \in SUBSET (Rows \cup Seeds) /\ runs[r].next \in Nat
    BY <1>3 DEF Process
  <2>. QED
    BY <1>2, <1>3, <2>1, Committed, ScriptFacts DEF BaseInv, TypesFit, Statements
<1>5. /\ \A o \in Objects : schema[o] # 0 => flushed[o] # 0
      /\ \A o \in Objects : Seen(runs[r], schema, o) => flushed[o] # 0
      /\ \A v \in Versions, o \in Objects :
           rows[v] = 0 /\ rows'[v] # 0 /\ Keeps(v, o) => flushed[o] # 0
  BY <1>2, DDLBase, TablesCommitted
<1>6. \/ runs'[r] = NoRun /\ schema' = flushed
      \/ /\ ~Refuses(Statement(r))
         /\ schema' = [flushed EXCEPT
                         ![Statement(r).object] = Defined(Statement(r), Version(r))]
         /\ runs'[r].pc = "applying" /\ runs'[r].plan = runs[r].plan
         /\ runs'[r].next = runs[r].next + 1 /\ runs'[r].txn = {}
  BY <1>2, DDLBase
<1>7. Statement(r).kind # "drop" => Defined(Statement(r), Version(r)) # 0
  BY <1>1, <1>4 DEF Defined
<1>8. ASSUME NEW v \in Versions, NEW o \in Objects, Keeps(v, o), flushed[o] # 0
      PROVE  schema'[o] # 0
  <2>1. CASE schema' = flushed
    BY <1>8, <2>1
  <2>2. CASE schema' = [flushed EXCEPT
                          ![Statement(r).object] = Defined(Statement(r), Version(r))]
    <3>1. CASE o = Statement(r).object
      <4>1. PICK i \in DOMAIN Scripts[v] : Scripts[v][i].object = o /\ Kept(v, i)
        BY <1>8 DEF Keeps, Kept
      <4>2. v = Version(r) /\ i = runs[r].next
        BY <1>3, <3>1, <4>1, KeptOnce DEF Statement
      <4>3. Statement(r).kind # "drop"
        BY <4>1, <4>2 DEF Statement, Kept
      <4>. QED
        BY <1>4, <1>7, <2>2, <3>1, <4>3
    <3>2. CASE o # Statement(r).object
      BY <1>4, <1>8, <2>2, <3>2
    <3>. QED
      BY <3>1, <3>2
  <2>. QED
    BY <1>6, <2>1, <2>2
<1>9. /\ \A v \in Versions, o \in Objects : Keeps(v, o) /\ schema[o] # 0 => schema'[o] # 0
      /\ \A v \in Versions, o \in Objects :
           rows[v] = 0 /\ rows'[v] # 0 /\ Keeps(v, o) => schema'[o] # 0
  BY <1>5, <1>8
<1>10. KeptBy(runs'[r], schema')
  <2>1. CASE runs'[r] = NoRun
    BY <2>1, Fresh, Processes
  <2>2. CASE /\ schema' = [flushed EXCEPT
                             ![Statement(r).object] = Defined(Statement(r), Version(r))]
             /\ runs'[r].pc = "applying" /\ runs'[r].plan = runs[r].plan
             /\ runs'[r].next = runs[r].next + 1 /\ runs'[r].txn = {}
    <3>1. \A v : ~HasRow(runs'[r].txn, v)
      BY <2>2 DEF HasRow
    <3>2. ASSUME NEW i \in DOMAIN Scripts[Version(r)], i < runs[r].next + 1, Kept(Version(r), i)
          PROVE  schema'[Scripts[Version(r)][i].object] # 0
      <4>1. /\ Scripts[Version(r)][i].object \in Objects /\ i \in Nat
            /\ Keeps(Version(r), Scripts[Version(r)][i].object)
        BY <1>3, <3>2, ScriptFacts DEF Statements, Keeps, Kept
      <4>2. CASE i < runs[r].next
        <5>1. Seen(runs[r], schema, Scripts[Version(r)][i].object)
          BY <1>1, <3>2, <4>2 DEF TablesInv, KeptStays, KeptBy, Applying, Version
        <5>. QED
          BY <1>3, <1>5, <1>8, <4>1, <5>1
      <4>3. CASE i = runs[r].next
        <5>1. Scripts[Version(r)][i] = Statement(r) /\ Statement(r).kind # "drop"
          BY <3>2, <4>3 DEF Statement, Kept
        <5>. QED
          BY <1>4, <1>7, <2>2, <5>1
      <4>. QED
        BY <1>4, <3>2, <4>1, <4>2, <4>3
    <3>3. Min(runs'[r].plan) = Version(r)
      BY <2>2 DEF Version
    <3>4. \A i \in DOMAIN Scripts[Version(r)] :
            i < runs[r].next + 1 /\ Kept(Version(r), i)
            => Seen(runs'[r], schema', Scripts[Version(r)][i].object)
      BY <3>2 DEF Seen
    <3>. QED
      BY <2>2, <3>1, <3>3, <3>4 DEF KeptBy
  <2>. QED
    BY <1>6, <2>1, <2>2
<1>. QED
  BY <1>9, <1>10, DDLBase, TablesOneRunner

LEMMA TablesSeed ==
  ASSUME BaseInv, TablesInv, NEW r \in Runners, ExecuteSeed(r)
  PROVE  TablesInv'
<1>1. Applying(r) /\ ~AtEnd(r)
  BY DEF ExecuteSeed
<1>2. PICK seed : seed = SeedOf(Statement(r).object, Version(r))
  OBVIOUS
<1>3. /\ runs'[r].pc = "applying" /\ runs'[r].plan = runs[r].plan
      /\ runs'[r].next = runs[r].next + 1 /\ runs'[r].txn = runs[r].txn \cup {seed}
      /\ schema' = schema /\ rows' = rows
  BY <1>2, SeedBase
<1>4. seed.row = FALSE /\ seed.key = Statement(r).object
  BY <1>2 DEF SeedOf
<1>5. /\ \A v : HasRow(runs'[r].txn, v) => HasRow(runs[r].txn, v)
      /\ \A o : Seen(runs[r], schema, o) => Seen(runs'[r], schema', o)
      /\ Seen(runs'[r], schema', Statement(r).object)
  BY <1>3, <1>4 DEF HasRow, Seen
<1>6. runs[r].next \in Nat /\ Version(r) \in Versions
  BY <1>1, Positioned DEF Process
<1>7. ASSUME NEW i \in DOMAIN Scripts[Version(r)], i < runs[r].next + 1, Kept(Version(r), i)
      PROVE  Seen(runs'[r], schema', Scripts[Version(r)][i].object)
  <2>1. i \in Nat
    BY <1>6, ScriptFacts
  <2>2. CASE i < runs[r].next
    BY <1>1, <1>5, <1>7, <2>2 DEF TablesInv, KeptStays, KeptBy, Applying, Version
  <2>3. CASE i = runs[r].next
    BY <1>5, <2>3 DEF Statement
  <2>. QED
    BY <1>6, <1>7, <2>1, <2>2, <2>3
<1>8. Min(runs'[r].plan) = Version(r)
  BY <1>3 DEF Version
<1>9. \A v \in Versions, o \in Objects :
        HasRow(runs'[r].txn, v) /\ Keeps(v, o) => Seen(runs'[r], schema', o)
  BY <1>5 DEF TablesInv, KeptStays, KeptBy
<1>10. KeptBy(runs'[r], schema')
  BY <1>3, <1>7, <1>8, <1>9 DEF KeptBy
<1>. QED
  BY <1>3, <1>10, SeedBase, TablesOneRunner

LEMMA TablesRecord ==
  ASSUME BaseInv, TablesInv, NEW r \in Runners, Record(r)
  PROVE  TablesInv'
<1>1. Applying(r) /\ AtEnd(r) /\ schema' = schema /\ rows' = rows
  BY DEF Record
<1>2. PICK row : row = RowOf(Version(r), runs[r].files[Version(r)])
  OBVIOUS
<1>3. row.row = TRUE /\ row.key = Version(r)
  BY <1>2 DEF RowOf
<1>4. /\ Version(r) \in Versions /\ runs[r].next \in Nat /\ runs[r].plan \subseteq Versions
  BY <1>1, Positioned DEF Process
<1>5. KeptBy(runs'[r], schema')
  <2>1. CASE runs'[r] = NoRun
    BY <2>1, Fresh, Processes
  <2>2. CASE /\ runs'[r].plan = runs[r].plan \ {Version(r)} /\ runs'[r].next = 1
             /\ runs'[r].txn = runs[r].txn \cup {row}
    <3>1. /\ \A v : HasRow(runs'[r].txn, v) => HasRow(runs[r].txn, v) \/ v = Version(r)
          /\ \A o : Seen(runs[r], schema, o) => Seen(runs'[r], schema', o)
      BY <1>1, <1>3, <2>2 DEF HasRow, Seen
    <3>2. ASSUME NEW o \in Objects, Keeps(Version(r), o) PROVE Seen(runs[r], schema, o)
      <4>1. PICK i \in DOMAIN Scripts[Version(r)] :
              Scripts[Version(r)][i].object = o /\ Kept(Version(r), i)
        BY <3>2 DEF Keeps, Kept
      <4>2. i < runs[r].next
        BY <1>1, <1>4, ScriptFacts DEF AtEnd
      <4>. QED
        BY <1>1, <4>1, <4>2 DEF TablesInv, KeptStays, KeptBy, Applying, Version
    <3>3. \A v \in Versions, o \in Objects :
            HasRow(runs'[r].txn, v) /\ Keeps(v, o) => Seen(runs'[r], schema', o)
      BY <3>1, <3>2 DEF TablesInv, KeptStays, KeptBy
    <3>4. ASSUME runs'[r].plan # {}, NEW i \in DOMAIN Scripts[Min(runs'[r].plan)]
          PROVE  ~(i < runs'[r].next)
      <4>1. runs'[r].plan \subseteq Versions /\ runs'[r].plan \subseteq Nat
        BY <1>4, <2>2, ScriptFacts
      <4>2. Min(runs'[r].plan) \in Versions
        BY <3>4, <4>1, MinIsLeast
      <4>3. i \in 1 .. Len(Scripts[Min(runs'[r].plan)])
            /\ Len(Scripts[Min(runs'[r].plan)]) \in Nat
        BY <3>4, <4>2, ScriptFacts
      <4>. QED
        BY <2>2, <4>3
    <3>. QED
      BY <3>3, <3>4 DEF KeptBy
  <2>. QED
    BY <1>2, <2>1, <2>2, RecordBase
<1>. QED
  BY <1>1, <1>5, RecordBase, TablesOneRunner

LEMMA TablesEnd ==
  ASSUME BaseInv, TablesInv, NEW r \in Runners, Crash(r) \/ Finish(r)
  PROVE  TablesInv'
<1>1. KeptBy(runs'[r], schema')
  BY EndBase, Fresh, Processes
<1>2. CASE Crash(r)
  <2>1. schema' = schema /\ rows' = rows
    BY <1>2 DEF Crash
  <2>. QED
    BY <1>1, <2>1, EndBase, TablesOneRunner
<1>3. CASE Finish(r)
  <2>1. schema' = SchemaAfter(runs[r].txn) /\ rows' = RowsAfter(runs[r].txn)
    BY <1>3 DEF Finish
  <2>. QED
    BY <1>1, <2>1, EndBase, TablesCommitted, TablesOneRunner
<1>. QED
  BY <1>2, <1>3

LEMMA InitTables == Init => BaseInv /\ TablesInv
<1> SUFFICES ASSUME Init PROVE BaseInv /\ TablesInv
  OBVIOUS
<1>1. BaseInv
  BY InitBase
<1>2. TablesStay
  BY DEF Init, TablesStay, Recorded
<1>3. \A r \in Runners : KeptBy(runs[r], schema)
  <2>1. KeptBy(NoRun, schema)
    BY Fresh, Processes
  <2>. QED
    BY <2>1 DEF Init
<1>. QED
  BY <1>1, <1>2, <1>3 DEF TablesInv, KeptStays

LEMMA NextTables == BaseInv /\ TablesInv /\ [Next]_vars => BaseInv' /\ TablesInv'
<1> SUFFICES ASSUME BaseInv, TablesInv, [Next]_vars PROVE BaseInv' /\ TablesInv'
  OBVIOUS
<1>1. CASE Ship \/ \E v \in Versions : Edit(v)
  <2>1. BaseInv' /\ UNCHANGED <<schema, rows, runs>>
    BY <1>1, ShipBase
  <2>2. TablesInv'
    BY <2>1 DEF TablesInv, TablesStay, Recorded, KeptStays
  <2>. QED
    BY <2>1, <2>2
<1>2. ASSUME NEW r \in Runners, Discover(r) PROVE BaseInv' /\ TablesInv'
  <2>1. KeptBy(runs'[r], schema')
    BY <1>2, DiscoverBase, Fresh
  <2>2. schema' = schema /\ rows' = rows
    BY <1>2 DEF Discover
  <2>. QED
    BY <1>2, <2>1, <2>2, DiscoverBase, TablesOneRunner
<1>3. ASSUME NEW r \in Runners, NEW allowMismatch \in BOOLEAN, MakePlan(r, allowMismatch)
      PROVE  BaseInv' /\ TablesInv'
  <2>1. BaseInv' /\ schema' = schema /\ rows' = rows
    BY <1>3, PlanBase
  <2>2. runs'[r].txn = {} /\ (runs'[r].plan = {} \/ runs'[r].next = 1)
    BY <1>3, PlanBase, Processes
  <2>3. runs'[r].plan \subseteq Versions
    BY <2>1 DEF BaseInv, TypesFit, Process
  <2>4. KeptBy(runs'[r], schema')
    BY <2>2, <2>3, Fresh
  <2>. QED
    BY <1>3, <2>1, <2>4, PlanBase, TablesOneRunner
<1>4. ASSUME NEW r \in Runners, ExecuteDDL(r) PROVE BaseInv' /\ TablesInv'
  BY <1>4, DDLBase, TablesDDL
<1>5. ASSUME NEW r \in Runners, ExecuteSeed(r) PROVE BaseInv' /\ TablesInv'
  BY <1>5, SeedBase, TablesSeed
<1>6. ASSUME NEW r \in Runners, Record(r) PROVE BaseInv' /\ TablesInv'
  BY <1>6, RecordBase, TablesRecord
<1>7. ASSUME NEW r \in Runners, Crash(r) \/ Finish(r) PROVE BaseInv' /\ TablesInv'
  BY <1>7, EndBase, TablesEnd
<1>8. CASE UNCHANGED vars
  <2>1. BaseInv'
    BY <1>8 DEF vars, BaseInv, TypesFit, RunsFit
  <2>2. TablesInv'
    BY <1>8 DEF vars, TablesInv, TablesStay, Recorded, KeptStays
  <2>. QED
    BY <2>1, <2>2
<1>. QED
  BY <1>1, <1>2, <1>3, <1>4, <1>5, <1>6, <1>7, <1>8 DEF Next, Step

(* Whatever overlaps and crashes, what a recorded version adds for good -- its *)
(* tables, columns and seeds -- is there (apply_pending_migrations).          *)
THEOREM TablesStayHolds == Spec => []TablesStay
<1>1. TablesInv => TablesStay
  BY DEF TablesInv
<1>. QED
  BY <1>1, InitTables, NextTables, PTL DEF Spec

-----------------------------------------------------------------------------
(* A version makes what its statements are about.                             *)
LEMMA StatementMakes ==
  ASSUME NEW v \in Versions, NEW n \in DOMAIN Scripts[v]
  PROVE  Makes(v, Scripts[v][n].object)
<1>1. CASE Scripts[v][n].kind = "drop"
  <2>1. n + 1 \in DOMAIN Scripts[v] /\ Scripts[v][n] \in Statements
        /\ Scripts[v][n + 1] = [Scripts[v][n] EXCEPT !.kind = "create"]
    BY <1>1, MadeAnew, ScriptFacts DEF Versions
  <2>2. Scripts[v][n + 1].object = Scripts[v][n].object /\ Scripts[v][n + 1].kind = "create"
    BY <2>1 DEF Statements
  <2>. QED
    BY <2>1, <2>2 DEF Makes
<1>2. CASE Scripts[v][n].kind # "drop"
  BY <1>2 DEF Makes
<1>. QED
  BY <1>1, <1>2

(* What a version not yet reached makes may change: another version is last   *)
(* to make it.                                                                *)
LEMMA SoundUnreached ==
  ASSUME NEW S, NEW a, NEW b, Sound(S, a), NEW v \in Versions, v \notin S,
         S \subseteq Versions, \A o \in Objects : b[o] = a[o] \/ Makes(v, o)
  PROVE  Sound(S, b)
<1>1. ASSUME NEW w \in S, NEW o \in Objects, Makes(w, o),
             \A x \in Versions : Makes(x, o) => x <= w
      PROVE  b[o] = w
  <2>1. ~Makes(v, o)
    BY <1>1 DEF Sound
  <2>. QED
    BY <1>1, <2>1 DEF Sound
<1>. QED
  BY <1>1 DEF Sound

(* A statement executed makes what it makes, and disturbs nothing done but a  *)
(* procedure it drops.                                                        *)
LEMMA DoneBehind ==
  ASSUME NEW v \in Versions, NEW n \in DOMAIN Scripts[v], NEW a, NEW b, DoneBy(v, n, a),
         \A o \in Objects \ {Scripts[v][n].object} : b[o] = a[o],
         Scripts[v][n].kind # "drop" => b[Scripts[v][n].object] = v
  PROVE  DoneBy(v, n + 1, b)
<1>1. /\ DOMAIN Scripts[v] = 1 .. Len(Scripts[v]) /\ Len(Scripts[v]) \in Nat
      /\ \A i \in DOMAIN Scripts[v] : Scripts[v][i] \in Statements
  BY ScriptFacts
<1>2. n \in Nat /\ (n + 1) - 1 = n
  BY <1>1
<1>3. ASSUME NEW i \in DOMAIN Scripts[v], i < n + 1, Scripts[v][i].kind # "drop",
             Scripts[v][n] # [kind |-> "drop", object |-> Scripts[v][i].object]
      PROVE  b[Scripts[v][i].object] = v
  <2>1. i \in Nat /\ Scripts[v][i].object \in Objects
    BY <1>1 DEF Statements
  <2>2. CASE Scripts[v][i].object = Scripts[v][n].object
    <3>1. Scripts[v][n].kind # "drop"
      <4>1. Scripts[v][n] = [kind |-> Scripts[v][n].kind, object |-> Scripts[v][n].object]
        BY <1>1 DEF Statements
      <4>. QED
        BY <1>3, <2>2, <4>1
    <3>. QED
      BY <2>2, <3>1
  <2>3. CASE Scripts[v][i].object # Scripts[v][n].object
    <3>1. i < n
      BY <1>2, <1>3, <2>1, <2>3
    <3>2. Scripts[v][n - 1] # [kind |-> "drop", object |-> Scripts[v][i].object]
      <4> SUFFICES ASSUME Scripts[v][n - 1] = [kind |-> "drop", object |-> Scripts[v][i].object]
                   PROVE  FALSE
        OBVIOUS
      <4>1. n - 1 \in DOMAIN Scripts[v] /\ (n - 1) + 1 = n
        BY <1>1, <2>1, <3>1
      <4>2. PICK m : m = n - 1
        OBVIOUS
      <4>3. m \in DOMAIN Scripts[v] /\ m + 1 = n /\ Scripts[v][m].kind = "drop"
            /\ Scripts[v][m].object = Scripts[v][i].object /\ Scripts[v][m] \in Statements
        BY <1>1, <4>1, <4>2
      <4>4. Scripts[v][m + 1] = [Scripts[v][m] EXCEPT !.kind = "create"]
        BY <4>3, MadeAnew DEF Versions
      <4>5. Scripts[v][n].object = Scripts[v][m].object
        BY <4>3, <4>4 DEF Statements
      <4>. QED
        BY <2>3, <4>3, <4>5
    <3>3. a[Scripts[v][i].object] = v
      BY <1>3, <3>1, <3>2 DEF DoneBy
    <3>. QED
      BY <2>1, <2>3, <3>3
  <2>. QED
    BY <2>2, <2>3
<1>. QED
  BY <1>2, <1>3 DEF DoneBy

(* Behind its last statement a version has made everything it makes.          *)
LEMMA DoneAtEnd ==
  ASSUME NEW v \in Versions, NEW a, DoneBy(v, Len(Scripts[v]) + 1, a),
         NEW o \in Objects, Makes(v, o)
  PROVE  a[o] = v
<1>1. /\ DOMAIN Scripts[v] = 1 .. Len(Scripts[v]) /\ Len(Scripts[v]) \in Nat
  BY ScriptFacts
<1>2. PICK i \in DOMAIN Scripts[v] : Scripts[v][i].object = o /\ Scripts[v][i].kind # "drop"
  BY DEF Makes
<1>3. PICK n : n = Len(Scripts[v])
  OBVIOUS
<1>4. n \in DOMAIN Scripts[v] /\ i < n + 1 /\ (n + 1) - 1 = n
  BY <1>1, <1>2, <1>3
<1>5. Scripts[v][n].kind # "drop"
  <2> SUFFICES ASSUME Scripts[v][n].kind = "drop" PROVE FALSE
    OBVIOUS
  <2>1. n + 1 \in DOMAIN Scripts[v]
    BY <1>4, MadeAnew DEF Versions
  <2>. QED
    BY <1>1, <1>3, <2>1
<1>6. Scripts[v][n] # [kind |-> "drop", object |-> o]
  BY <1>5
<1>. QED
  BY <1>2, <1>3, <1>4, <1>6 DEF DoneBy

(* The next version is reached when it has made everything it makes.          *)
LEMMA SoundReached ==
  ASSUME NEW S, NEW a, Sound(S, a), S \subseteq Versions, NEW n \in Nat, n <= Len(Scripts),
         NEW v \in (1 .. n) \ S, \A w \in (1 .. n) \ S : v <= w,
         \A o \in Objects : Makes(v, o) => a[o] = v
  PROVE  Sound(S \cup {v}, a)
<1>1. Versions = 1 .. Len(Scripts) /\ Len(Scripts) \in Nat
  BY ScriptFacts
<1>2. ASSUME NEW x \in S \cup {v}, NEW w \in Versions, w <= x PROVE w \in S \cup {v}
  <2>1. CASE x \in S
    BY <1>2, <2>1 DEF Sound
  <2>2. CASE x = v
    <3>1. w \in 1 .. n
      BY <1>1, <1>2, <2>2
    <3>2. w \notin S => w = v
      BY <1>1, <1>2, <2>2, <3>1
    <3>. QED
      BY <3>2
  <2>. QED
    BY <2>1, <2>2
<1>3. ASSUME NEW x \in S \cup {v}, NEW o \in Objects, Makes(x, o),
             \A w \in Versions : Makes(w, o) => w <= x
      PROVE  a[o] = x
  BY <1>3 DEF Sound
<1>. QED
  BY <1>2, <1>3 DEF Sound

(* What a commit writes, once more: a seed is its version's.                  *)
LEMMA FlushedSeeds ==
  ASSUME NEW p \in Process, NEW files, Fits(p, files), NEW sch, NEW o \in Objects
  PROVE  /\ ~ (\E e \in p.txn : ~e.row /\ e.key = o) => Flushed(sch, p.txn)[o] = sch[o]
         /\ \A v \in Versions : Seeded(v, o) /\ (\E e \in p.txn : ~e.row /\ e.key = o)
              => Flushed(sch, p.txn)[o] = v
<1>1. ~ (\E e \in p.txn : ~e.row /\ e.key = o) => Flushed(sch, p.txn)[o] = sch[o]
  BY DEF Flushed
<1>2. ASSUME NEW v \in Versions, Seeded(v, o), \E e \in p.txn : ~e.row /\ e.key = o
      PROVE  Flushed(sch, p.txn)[o] = v
  <2>1. \E e \in p.txn : e.row = FALSE /\ e.key = o
    BY <1>2 DEF Process, Rows, Seeds
  <2>2. PICK e \in p.txn : e.row = FALSE /\ e.key = o /\ Value(p.txn, FALSE, o) = e.value
    BY <2>1 DEF Value
  <2>3. Seeded(e.value, o) /\ e.value \in Versions
    BY <2>2 DEF Fits, Process, Rows, Seeds
  <2>4. e.value = v
    <3>1. PICK i \in DOMAIN Scripts[v] : Scripts[v][i] = [kind |-> "seed", object |-> o]
      BY <1>2 DEF Seeded
    <3>2. PICK j \in DOMAIN Scripts[e.value] :
            Scripts[e.value][j] = [kind |-> "seed", object |-> o]
      BY <2>3 DEF Seeded
    <3>3. Kept(v, i) /\ Scripts[e.value][j].object = Scripts[v][i].object
      BY <3>1, <3>2 DEF Kept
    <3>. QED
      BY <2>3, <3>3, KeptOnce
  <2>5. Flushed(sch, p.txn)[o] = e.value
    BY <1>2, <2>2 DEF Flushed
  <2>. QED
    BY <2>4, <2>5
<1>. QED
  BY <1>1, <1>2

(* Where two runs hold seeds alike, they write alike.                         *)
LEMMA FlushedAlike ==
  ASSUME NEW p \in Process, NEW q \in Process, NEW files, Fits(p, files), Fits(q, files),
         NEW sch, NEW o \in Objects,
         (\E e \in q.txn : ~e.row /\ e.key = o) <=> (\E e \in p.txn : ~e.row /\ e.key = o)
  PROVE  Flushed(sch, q.txn)[o] = Flushed(sch, p.txn)[o]
<1>1. CASE \E e \in p.txn : ~e.row /\ e.key = o
  <2>1. PICK w \in Versions : Seeded(w, o)
    <3>1. PICK e \in p.txn : ~e.row /\ e.key = o
      BY <1>1
    <3>2. e \in Rows \cup Seeds
      BY DEF Process
    <3>3. e.value \in Versions
      BY <3>1, <3>2 DEF Rows, Seeds
    <3>. QED
      BY <3>1, <3>3 DEF Fits
  <2>2. Flushed(sch, p.txn)[o] = w
    BY <1>1, <2>1, FlushedSeeds
  <2>3. \E e \in q.txn : ~e.row /\ e.key = o
    BY <1>1
  <2>4. Flushed(sch, q.txn)[o] = w
    BY <2>1, <2>3, FlushedSeeds
  <2>. QED
    BY <2>2, <2>4
<1>2. CASE ~ \E e \in p.txn : ~e.row /\ e.key = o
  <2>1. Flushed(sch, p.txn)[o] = sch[o]
    BY <1>2, FlushedSeeds
  <2>2. ~ \E e \in q.txn : ~e.row /\ e.key = o
    BY <1>2
  <2>3. Flushed(sch, q.txn)[o] = sch[o]
    BY <2>2, FlushedSeeds
  <2>. QED
    BY <2>1, <2>3
<1>. QED
  BY <1>1, <1>2

(* Of a run that holds nothing uncommitted a commit writes nothing.           *)
LEMMA FlushedNothing ==
  ASSUME NEW sch, sch \in [Objects -> Nat]
  PROVE  Flushed(sch, {}) = sch /\ InTxn({}) = {}
BY DEF Flushed, InTxn, HasRow

LEMMA DefinesFlushed ==
  ASSUME BaseInv, Defines, NEW r \in Runners, NEW v \in Versions, NEW o \in Objects,
         Keeps(v, o)
  PROVE  SchemaAfter(runs[r].txn)[o] \in {0, v}
<1>1. runs[r] \in Process /\ Fits(runs[r], shipped)
      /\ SchemaAfter(runs[r].txn) = Flushed(schema, runs[r].txn)
  BY DEF BaseInv, TypesFit, RunsFit, SchemaAfter, Flushed
<1>2. CASE \E e \in runs[r].txn : ~e.row /\ e.key = o
  <2>1. PICK e \in runs[r].txn : ~e.row /\ e.key = o
    BY <1>2
  <2>2. Seeded(e.value, o) /\ e.value \in Versions
    BY <1>1, <2>1 DEF Fits, Process, Rows, Seeds
  <2>3. PICK j \in DOMAIN Scripts[e.value] :
          Scripts[e.value][j] = [kind |-> "seed", object |-> o]
    BY <2>2 DEF Seeded
  <2>4. PICK i \in DOMAIN Scripts[v] : Scripts[v][i].object = o /\ Kept(v, i)
    BY DEF Keeps, Kept
  <2>5. v = e.value
    BY <2>2, <2>3, <2>4, KeptOnce
  <2>6. Seeded(v, o)
    BY <2>2, <2>5
  <2>7. Flushed(schema, runs[r].txn)[o] = v
    BY <1>1, <1>2, <2>6, FlushedSeeds
  <2>. QED
    BY <1>1, <2>7
<1>3. CASE ~ \E e \in runs[r].txn : ~e.row /\ e.key = o
  BY <1>1, <1>3, FlushedSeeds DEF Defines
<1>. QED
  BY <1>2, <1>3

LEMMA DefinesNext == BaseInv /\ Defines /\ [Next]_vars => Defines'
<1> SUFFICES ASSUME BaseInv, Defines, [Next]_vars PROVE Defines'
  OBVIOUS
<1>1. CASE schema' = schema
  BY <1>1 DEF Defines
<1>2. ASSUME NEW r \in Runners, ExecuteDDL(r) PROVE Defines'
  <2>1. Applying(r) /\ ~AtEnd(r) /\ Statement(r).kind # "seed"
    BY <1>2 DEF ExecuteDDL
  <2>2. /\ Version(r) \in Versions /\ runs[r] \in Process
        /\ runs[r].next \in DOMAIN Scripts[Version(r)] /\ Statement(r) \in Statements
    BY <2>1, Positioned
  <2>3. runs[r].txn \in SUBSET (Rows \cup Seeds)
    BY <2>2 DEF Process
  <2>4. SchemaAfter(runs[r].txn) \in [Objects -> Nat]
    BY <2>3, Committed DEF BaseInv
  <2>5. ASSUME NEW v \in Versions, NEW o \in Objects, Keeps(v, o)
        PROVE  schema'[o] \in {0, v}
    <3>1. SchemaAfter(runs[r].txn)[o] \in {0, v}
      BY <2>5, DefinesFlushed
    <3>2. CASE schema' = SchemaAfter(runs[r].txn)
      BY <3>1, <3>2
    <3>3. CASE schema' = [SchemaAfter(runs[r].txn) EXCEPT
                            ![Statement(r).object] = Defined(Statement(r), Version(r))]
      <4>1. CASE o = Statement(r).object
        <5>1. PICK i \in DOMAIN Scripts[v] : Scripts[v][i].object = o /\ Kept(v, i)
          BY <2>5 DEF Keeps, Kept
        <5>2. v = Version(r)
          BY <2>2, <4>1, <5>1, KeptOnce DEF Statement
        <5>3. schema[o] \in {0, v}
          BY <2>5 DEF Defines
        <5>4. Defined(Statement(r), Version(r)) \in {0, v}
          BY <4>1, <5>2, <5>3 DEF Defined
        <5>5. schema'[o] = Defined(Statement(r), Version(r))
          BY <2>4, <3>3, <4>1
        <5>. QED
          BY <5>4, <5>5
      <4>2. CASE o # Statement(r).object
        BY <2>4, <3>1, <3>3, <4>2
      <4>. QED
        BY <4>1, <4>2
    <3>. QED
      BY <1>2, <3>2, <3>3, DDLBase
  <2>. QED
    BY <2>5 DEF Defines
<1>3. ASSUME NEW r \in Runners, Finish(r) PROVE Defines'
  <2>1. schema' = SchemaAfter(runs[r].txn)
    BY <1>3 DEF Finish
  <2>2. ASSUME NEW v \in Versions, NEW o \in Objects, Keeps(v, o)
        PROVE  schema'[o] \in {0, v}
    BY <2>1, <2>2, DefinesFlushed
  <2>. QED
    BY <2>2 DEF Defines
<1>. QED
  BY <1>1, <1>2, <1>3 DEF Next, Step, vars, Ship, Edit, Discover, MakePlan, ExecuteSeed,
     Record, Crash

(* What holds of the run that applies while it runs alone.                    *)
LEMMA Reaching ==
  ASSUME BaseInv, OneRun, ~overlapped, NEW r \in Runners, runs[r].pc = "applying",
         NEW reached, reached = Recorded \cup InTxn(runs[r].txn)
  PROVE  /\ reached \subseteq Versions
         /\ reached \subseteq DOMAIN runs[r].files /\ reached \subseteq DOMAIN shipped
         /\ reached = {v \in Versions : RowsAfter(runs[r].txn)[v] # 0}
         /\ SchemaAfter(runs[r].txn) = Flushed(schema, runs[r].txn)
         /\ SchemaAfter(runs[r].txn) \in [Objects -> Nat]
         /\ Sound(reached, SchemaAfter(runs[r].txn))
         /\ runs[r].plan = DOMAIN runs[r].files \ reached
         /\ runs[r].plan # {} =>
              DoneBy(Version(r), runs[r].next, SchemaAfter(runs[r].txn))
<1>1. /\ runs[r] \in Process /\ Fits(runs[r], shipped)
      /\ SchemaAfter(runs[r].txn) = Flushed(schema, runs[r].txn)
  BY DEF BaseInv, TypesFit, RunsFit, SchemaAfter, Flushed
<1>2. runs[r].txn \in SUBSET (Rows \cup Seeds)
  BY <1>1 DEF Process
<1>3. /\ Recorded \subseteq DOMAIN runs[r].files /\ Recorded \subseteq DOMAIN shipped
      /\ runs[r].plan = DOMAIN runs[r].files \ reached
      /\ Sound(reached, Flushed(schema, runs[r].txn))
      /\ runs[r].plan # {} =>
           DoneBy(Version(r), runs[r].next, Flushed(schema, runs[r].txn))
  BY DEF OneRun, RunHolds, Active, Version
<1>4. InTxn(runs[r].txn) \subseteq DOMAIN runs[r].files
  BY <1>1 DEF InTxn, Fits
<1>5. DOMAIN runs[r].files \subseteq DOMAIN shipped
  <2>1. /\ runs[r].files \in Seq({1, 2}) /\ shipped \in Seq({1, 2})
        /\ Len(runs[r].files) <= Len(shipped)
    BY <1>1 DEF Process, Fits, BaseInv, TypesFit
  <2>. QED
    BY <2>1
<1>6. reached \subseteq Versions
  BY DEF InTxn, Recorded
<1>7. reached = {v \in Versions : RowsAfter(runs[r].txn)[v] # 0}
  <2>1. \A v \in Versions : RowsAfter(runs[r].txn)[v] # 0 <=> v \in reached
    BY <1>2, Committed DEF BaseInv, Recorded, InTxn
  <2>. QED
    BY <1>6, <2>1
<1>8. SchemaAfter(runs[r].txn) \in [Objects -> Nat]
  BY <1>2, Committed DEF BaseInv
<1>. QED
  BY <1>1, <1>3, <1>4, <1>5, <1>6, <1>7, <1>8

(* A step of the one run that is active.                                      *)
LEMMA OneRunStep ==
  ASSUME OneRun, ~overlapped, overlapped' = overlapped, NEW r \in Runners,
         runs[r].pc \in Active, shipped' = shipped,
         \A q \in Runners \ {r} : runs'[q] = runs[q],
         Recorded' \subseteq DOMAIN shipped, Sound(Recorded', schema'),
         RunHolds(runs'[r], Recorded', schema')
  PROVE  OneRun'
<1>1. \A q \in Runners \ {r} : runs'[q].pc \notin Active
  BY DEF OneRun
<1>2. \A q \in Runners : RunHolds(runs'[q], Recorded', schema')
  BY <1>1 DEF RunHolds, Active
<1>. QED
  BY <1>1, <1>2 DEF OneRun

LEMMA OneRunDDL ==
  ASSUME BaseInv, Defines, OneRun, ~overlapped, NEW r \in Runners, ExecuteDDL(r)
  PROVE  OneRun'
<1>1. Applying(r) /\ ~AtEnd(r) /\ Statement(r).kind # "seed"
  BY DEF ExecuteDDL
<1>2. PICK reached, flushed, v, n, s :
        /\ reached = Recorded \cup InTxn(runs[r].txn)
        /\ flushed = SchemaAfter(runs[r].txn)
        /\ v = Version(r) /\ n = runs[r].next /\ s = Statement(r)
  OBVIOUS
<1>3. /\ v \in Versions /\ v \in runs[r].plan /\ n \in DOMAIN Scripts[v]
      /\ s = Scripts[v][n] /\ s \in Statements /\ runs[r].pc = "applying"
  BY <1>1, <1>2, Positioned DEF Statement
<1>4. /\ reached \subseteq Versions /\ reached \subseteq DOMAIN runs[r].files
      /\ reached \subseteq DOMAIN shipped
      /\ reached = {w \in Versions : RowsAfter(runs[r].txn)[w] # 0}
      /\ flushed \in [Objects -> Nat] /\ Sound(reached, flushed)
      /\ runs[r].plan = DOMAIN runs[r].files \ reached
      /\ DoneBy(v, n, flushed)
  BY <1>2, <1>3, Reaching
<1>5. /\ UNCHANGED <<shipped, overlapped>> /\ \A q \in Runners \ {r} : runs'[q] = runs[q]
      /\ rows' = RowsAfter(runs[r].txn) /\ BaseInv'
      /\ \/ runs'[r] = NoRun /\ schema' = flushed
         \/ /\ ~Refuses(s) /\ schema' = [flushed EXCEPT ![s.object] = Defined(s, v)]
            /\ runs'[r].pc = "applying" /\ runs'[r].files = runs[r].files
            /\ runs'[r].plan = runs[r].plan /\ runs'[r].next = n + 1 /\ runs'[r].txn = {}
  BY <1>2, DDLBase
<1>6. Recorded' = reached
  BY <1>4, <1>5 DEF Recorded
<1>7. /\ \A o \in Objects : o # s.object => schema'[o] = flushed[o]
      /\ s.object \in Objects
  BY <1>3, <1>4, <1>5 DEF Statements
<1>8. Sound(reached, schema')
  <2>1. \A o \in Objects : schema'[o] = flushed[o] \/ Makes(v, o)
    BY <1>3, <1>7, StatementMakes
  <2>2. v \notin reached
    BY <1>3, <1>4
  <2>. QED
    BY <1>3, <1>4, <2>1, <2>2, SoundUnreached
<1>9. RunHolds(runs'[r], reached, schema')
  <2>1. CASE runs'[r] = NoRun
    BY <2>1, Processes DEF RunHolds, Active
  <2>2. CASE /\ ~Refuses(s) /\ schema' = [flushed EXCEPT ![s.object] = Defined(s, v)]
             /\ runs'[r].pc = "applying" /\ runs'[r].files = runs[r].files
             /\ runs'[r].plan = runs[r].plan /\ runs'[r].next = n + 1 /\ runs'[r].txn = {}
    <3>1. schema' \in [Objects -> Nat]
      BY <1>5 DEF BaseInv, TypesFit
    <3>2. Flushed(schema', {}) = schema' /\ InTxn({}) = {}
      BY <3>1, FlushedNothing
    <3>3. s.kind # "drop" => Defined(s, v) = v
      <4>1. s.kind = "ensure" => schema[s.object] \in {0, v}
        <5>1. s.kind = "ensure" => Keeps(v, s.object)
          BY <1>3 DEF Keeps
        <5>. QED
          BY <1>3, <1>7, <5>1 DEF Defines
      <4>. QED
        BY <4>1 DEF Defined
    <3>4. s.kind # "drop" => schema'[s.object] = v
      BY <1>4, <1>7, <2>2, <3>3
    <3>5. DoneBy(v, n + 1, schema')
      BY <1>3, <1>4, <1>7, <3>4, DoneBehind
    <3>6. Min(runs'[r].plan) = v
      BY <1>2, <2>2 DEF Version
    <3>7. reached \cup InTxn(runs'[r].txn) = reached
      BY <2>2, <3>2
    <3>8. Flushed(schema', runs'[r].txn) = schema'
      BY <2>2, <3>2
    <3>. QED
      BY <1>4, <1>8, <2>2, <3>5, <3>6, <3>7, <3>8 DEF RunHolds
  <2>. QED
    BY <1>5, <2>1, <2>2
<1>10. RunHolds(runs'[r], Recorded', schema') /\ Sound(Recorded', schema')
       /\ Recorded' \subseteq DOMAIN shipped
  BY <1>4, <1>6, <1>8, <1>9
<1>. QED
  BY <1>3, <1>5, <1>10, OneRunStep DEF Active

LEMMA OneRunSeed ==
  ASSUME BaseInv, OneRun, ~overlapped, NEW r \in Runners, ExecuteSeed(r)
  PROVE  OneRun'
<1>1. Applying(r) /\ ~AtEnd(r)
  BY DEF ExecuteSeed
<1>2. PICK reached, flushed, v, n, s, seed :
        /\ reached = Recorded \cup InTxn(runs[r].txn)
        /\ flushed = SchemaAfter(runs[r].txn)
        /\ v = Version(r) /\ n = runs[r].next /\ s = Statement(r)
        /\ seed = SeedOf(s.object, v)
  OBVIOUS
<1>3. /\ v \in Versions /\ v \in runs[r].plan /\ n \in DOMAIN Scripts[v]
      /\ s = Scripts[v][n] /\ s \in Statements /\ runs[r].pc = "applying"
      /\ runs[r] \in Process
  BY <1>1, <1>2, Positioned DEF Statement
<1>4. /\ reached \subseteq Versions /\ reached \subseteq DOMAIN runs[r].files
      /\ Sound(reached, flushed) /\ flushed = Flushed(schema, runs[r].txn)
      /\ runs[r].plan = DOMAIN runs[r].files \ reached
      /\ DoneBy(v, n, flushed)
  BY <1>2, <1>3, Reaching
<1>5. /\ UNCHANGED <<shipped, schema, rows, overlapped>>
      /\ \A q \in Runners \ {r} : runs'[q] = runs[q]
      /\ BaseInv' /\ s.kind = "seed"
      /\ runs'[r].pc = "applying" /\ runs'[r].files = runs[r].files
      /\ runs'[r].plan = runs[r].plan /\ runs'[r].next = n + 1
      /\ runs'[r].txn = runs[r].txn \cup {seed}
  BY <1>2, SeedBase
<1>6. seed.row = FALSE /\ seed.key = s.object
  BY <1>2 DEF SeedOf
<1>7. PICK after : after = Flushed(schema, runs'[r].txn)
  OBVIOUS
<1>8. /\ runs[r] \in Process /\ Fits(runs[r], shipped)
      /\ runs'[r] \in Process /\ Fits(runs'[r], shipped')
  BY <1>5 DEF BaseInv, TypesFit, RunsFit
<1>9. s.object \in Objects /\ after[s.object] = v
  <2>1. s.object \in Objects /\ Seeded(v, s.object)
    <3>1. s = [kind |-> "seed", object |-> s.object] /\ s.object \in Objects
      BY <1>3, <1>5 DEF Statements
    <3>. QED
      BY <1>3, <3>1 DEF Seeded
  <2>2. \E e \in runs'[r].txn : ~e.row /\ e.key = s.object
    BY <1>5, <1>6
  <2>. QED
    BY <1>3, <1>7, <1>8, <2>1, <2>2, FlushedSeeds
<1>10. ASSUME NEW o \in Objects, o # s.object PROVE after[o] = flushed[o]
  <2>1. (\E e \in runs'[r].txn : ~e.row /\ e.key = o)
          <=> (\E e \in runs[r].txn : ~e.row /\ e.key = o)
    BY <1>5, <1>6, <1>10
  <2>2. Fits(runs'[r], shipped)
    BY <1>5, <1>8
  <2>3. Flushed(schema, runs'[r].txn)[o] = Flushed(schema, runs[r].txn)[o]
    <3>1. PICK p, q, f : p = runs[r] /\ q = runs'[r] /\ f = shipped
      OBVIOUS
    <3>2. p \in Process /\ q \in Process /\ Fits(p, f) /\ Fits(q, f)
      BY <1>8, <2>2, <3>1
    <3>3. (\E e \in q.txn : ~e.row /\ e.key = o) <=> (\E e \in p.txn : ~e.row /\ e.key = o)
      BY <2>1, <3>1
    <3>4. \A sch : Flushed(sch, q.txn)[o] = Flushed(sch, p.txn)[o]
      BY <3>2, <3>3, FlushedAlike
    <3>. QED
      BY <3>1, <3>4
  <2>. QED
    BY <1>4, <1>7, <2>3
<1>11. Sound(reached, after)
  <2>1. \A o \in Objects : after[o] = flushed[o] \/ Makes(v, o)
    BY <1>3, <1>10, StatementMakes
  <2>2. v \notin reached
    BY <1>3, <1>4
  <2>. QED
    BY <1>3, <1>4, <2>1, <2>2, SoundUnreached
<1>12. DoneBy(v, n + 1, after)
  BY <1>3, <1>4, <1>9, <1>10, DoneBehind
<1>13. InTxn(runs'[r].txn) = InTxn(runs[r].txn)
  <2>1. \A w : HasRow(runs'[r].txn, w) <=> HasRow(runs[r].txn, w)
    BY <1>5, <1>6 DEF HasRow
  <2>. QED
    BY <2>1 DEF InTxn
<1>14. Recorded' = Recorded /\ Recorded \subseteq DOMAIN shipped /\ Sound(Recorded, schema)
  BY <1>5 DEF Recorded, OneRun
<1>15. RunHolds(runs'[r], Recorded, schema)
  <2>1. Min(runs'[r].plan) = v
    BY <1>2, <1>5 DEF Version
  <2>2. Recorded \cup InTxn(runs'[r].txn) = reached
    BY <1>2, <1>13
  <2>3. Recorded \subseteq DOMAIN runs'[r].files
    BY <1>2, <1>4, <1>5
  <2>. QED
    BY <1>4, <1>5, <1>7, <1>11, <1>12, <2>1, <2>2, <2>3 DEF RunHolds
<1>16. RunHolds(runs'[r], Recorded', schema') /\ Sound(Recorded', schema')
       /\ Recorded' \subseteq DOMAIN shipped
  BY <1>5, <1>14, <1>15
<1>. QED
  BY <1>3, <1>5, <1>16, OneRunStep DEF Active

LEMMA OneRunRecord ==
  ASSUME BaseInv, OneRun, ~overlapped, NEW r \in Runners, Record(r)
  PROVE  OneRun'
<1>1. PICK reached, flushed, v, row :
        /\ reached = Recorded \cup InTxn(runs[r].txn)
        /\ flushed = SchemaAfter(runs[r].txn)
        /\ v = Version(r) /\ row = RowOf(v, runs[r].files[v])
  OBVIOUS
<1>2. /\ UNCHANGED <<shipped, schema, rows, overlapped>> /\ BaseInv'
      /\ \A q \in Runners \ {r} : runs'[q] = runs[q]
      /\ Applying(r) /\ AtEnd(r)
      /\ \/ runs'[r] = NoRun
         \/ /\ runs'[r].pc = "applying" /\ runs'[r].files = runs[r].files
            /\ runs'[r].plan = runs[r].plan \ {v} /\ runs'[r].next = 1
            /\ runs'[r].txn = runs[r].txn \cup {row}
  BY <1>1, RecordBase
<1>3. /\ v \in Versions /\ v \in runs[r].plan /\ runs[r].pc = "applying"
      /\ runs[r] \in Process /\ \A w \in runs[r].plan : v <= w
      /\ runs[r].next \in 1 .. Len(Scripts[v]) + 1
  BY <1>1, <1>2, Positioned
<1>4. /\ reached \subseteq Versions /\ reached \subseteq DOMAIN runs[r].files
      /\ Sound(reached, flushed) /\ flushed = Flushed(schema, runs[r].txn)
      /\ runs[r].plan = DOMAIN runs[r].files \ reached
      /\ DoneBy(v, runs[r].next, flushed)
  BY <1>1, <1>3, Reaching
<1>5. Recorded' = Recorded /\ Recorded \subseteq DOMAIN shipped /\ Sound(Recorded, schema)
  BY <1>2 DEF Recorded, OneRun
<1>6. RunHolds(runs'[r], Recorded, schema)
  <2>1. CASE runs'[r] = NoRun
    BY <2>1, Processes DEF RunHolds, Active
  <2>2. CASE /\ runs'[r].pc = "applying" /\ runs'[r].files = runs[r].files
             /\ runs'[r].plan = runs[r].plan \ {v} /\ runs'[r].next = 1
             /\ runs'[r].txn = runs[r].txn \cup {row}
    <3>1. row.row = TRUE /\ row.key = v
      BY <1>1 DEF RowOf
    <3>2. Recorded \cup InTxn(runs'[r].txn) = reached \cup {v}
      <4>1. \A w : HasRow(runs'[r].txn, w) <=> HasRow(runs[r].txn, w) \/ w = v
        BY <2>2, <3>1 DEF HasRow
      <4>2. InTxn(runs'[r].txn) = InTxn(runs[r].txn) \cup {v}
        BY <1>3, <4>1 DEF InTxn
      <4>. QED
        BY <1>1, <4>2
    <3>3. ASSUME NEW o \in Objects
          PROVE  Flushed(schema, runs'[r].txn)[o] = flushed[o]
      <4>1. /\ runs[r] \in Process /\ Fits(runs[r], shipped)
            /\ runs'[r] \in Process /\ Fits(runs'[r], shipped')
        BY <1>2 DEF BaseInv, TypesFit, RunsFit
      <4>2. (\E e \in runs'[r].txn : ~e.row /\ e.key = o)
              <=> (\E e \in runs[r].txn : ~e.row /\ e.key = o)
        BY <2>2, <3>1
      <4>3. Fits(runs'[r], shipped)
        BY <1>2, <4>1
      <4>4. Flushed(schema, runs'[r].txn)[o] = Flushed(schema, runs[r].txn)[o]
        <5>1. PICK p, q, f : p = runs[r] /\ q = runs'[r] /\ f = shipped
          OBVIOUS
        <5>2. p \in Process /\ q \in Process /\ Fits(p, f) /\ Fits(q, f)
          BY <4>1, <4>3, <5>1
        <5>3. (\E e \in q.txn : ~e.row /\ e.key = o)
                <=> (\E e \in p.txn : ~e.row /\ e.key = o)
          BY <4>2, <5>1
        <5>4. \A sch : Flushed(sch, q.txn)[o] = Flushed(sch, p.txn)[o]
          BY <5>2, <5>3, FlushedAlike
        <5>. QED
          BY <5>1, <5>4
      <4>. QED
        BY <1>4, <4>4
    <3>4. Flushed(schema, runs'[r].txn) = flushed
      <4>1. PICK after : after = Flushed(schema, runs'[r].txn)
        OBVIOUS
      <4>2. \A o \in Objects : after[o] = flushed[o]
        BY <3>3, <4>1
      <4>3. after = [o \in Objects |-> after[o]]
        BY <4>1 DEF Flushed
      <4>4. flushed = [o \in Objects |-> flushed[o]]
        BY <1>4 DEF Flushed
      <4>. QED
        BY <4>1, <4>2, <4>3, <4>4
    <3>5. \A o \in Objects : Makes(v, o) => flushed[o] = v
      <4>1. runs[r].next = Len(Scripts[v]) + 1
        BY <1>1, <1>2, <1>3, ScriptFacts DEF AtEnd
      <4>. QED
        BY <1>3, <1>4, <4>1, DoneAtEnd
    <3>6. Sound(reached \cup {v}, flushed)
      <4>1. PICK n : n = Len(runs[r].files)
        OBVIOUS
      <4>2. /\ n \in Nat /\ n <= Len(Scripts) /\ DOMAIN runs[r].files = 1 .. n
        <5>1. /\ runs[r].files \in Seq({1, 2}) /\ Len(runs[r].files) <= Len(shipped)
              /\ shipped \in Seq({1, 2}) /\ Len(shipped) <= Len(Scripts)
          BY <1>3 DEF Process, BaseInv, TypesFit, RunsFit, Fits
        <5>2. Len(shipped) \in Nat /\ Len(Scripts) \in Nat /\ Len(runs[r].files) \in Nat
          BY <5>1, ScriptFacts
        <5>. QED
          BY <4>1, <5>1, <5>2
      <4>3. v \in (1 .. n) \ reached /\ \A w \in (1 .. n) \ reached : v <= w
        BY <1>3, <1>4, <4>2
      <4>. QED
        BY <1>4, <3>5, <4>2, <4>3, SoundReached
    <3>7. runs'[r].plan = DOMAIN runs'[r].files \ (reached \cup {v})
      BY <1>4, <2>2
    <3>8. runs'[r].plan # {} => DoneBy(Min(runs'[r].plan), runs'[r].next, flushed)
      <4> SUFFICES ASSUME runs'[r].plan # {}
                   PROVE  DoneBy(Min(runs'[r].plan), 1, flushed)
        BY <2>2
      <4>1. runs'[r].plan \subseteq Versions /\ runs'[r].plan \subseteq Nat
        BY <1>3, <2>2, ScriptFacts DEF Process
      <4>2. Min(runs'[r].plan) \in Versions
        BY <4>1, MinIsLeast
      <4>3. \A i \in DOMAIN Scripts[Min(runs'[r].plan)] : ~(i < 1)
        BY <4>2, ScriptFacts
      <4>. QED
        BY <4>3 DEF DoneBy
    <3>9. Recorded \subseteq DOMAIN runs'[r].files
      BY <1>1, <1>4, <2>2
    <3>. QED
      BY <2>2, <3>2, <3>4, <3>6, <3>7, <3>8, <3>9 DEF RunHolds
  <2>. QED
    BY <1>2, <2>1, <2>2
<1>7. RunHolds(runs'[r], Recorded', schema') /\ Sound(Recorded', schema')
      /\ Recorded' \subseteq DOMAIN shipped
  BY <1>2, <1>5, <1>6
<1>. QED
  BY <1>2, <1>3, <1>7, OneRunStep DEF Active

LEMMA OneRunEnd ==
  ASSUME BaseInv, OneRun, ~overlapped, NEW r \in Runners, Crash(r) \/ Finish(r)
  PROVE  OneRun'
<1>1. /\ UNCHANGED <<shipped, overlapped>> /\ \A q \in Runners \ {r} : runs'[q] = runs[q]
      /\ runs'[r] = NoRun
  BY EndBase
<1>2. \A rec, sch : RunHolds(runs'[r], rec, sch)
  BY <1>1, Processes DEF RunHolds, Active
<1>3. CASE Crash(r)
  <2>1. runs[r].pc \in Active /\ schema' = schema /\ rows' = rows
    BY <1>3 DEF Crash
  <2>2. Recorded' = Recorded
    BY <2>1 DEF Recorded
  <2>3. Recorded' \subseteq DOMAIN shipped /\ Sound(Recorded', schema')
    BY <2>1, <2>2 DEF OneRun
  <2>. QED
    BY <1>1, <1>2, <2>1, <2>3, OneRunStep
<1>4. CASE Finish(r)
  <2>1. /\ runs[r].pc = "applying" /\ schema' = SchemaAfter(runs[r].txn)
        /\ rows' = RowsAfter(runs[r].txn)
    BY <1>4 DEF Finish
  <2>2. PICK reached : reached = Recorded \cup InTxn(runs[r].txn)
    OBVIOUS
  <2>3. /\ reached \subseteq DOMAIN shipped /\ Sound(reached, schema')
        /\ reached = {v \in Versions : rows'[v] # 0}
    BY <2>1, <2>2, Reaching
  <2>4. Recorded' = reached
    BY <2>3 DEF Recorded
  <2>5. Recorded' \subseteq DOMAIN shipped /\ Sound(Recorded', schema')
    BY <2>3, <2>4
  <2>. QED
    BY <1>1, <1>2, <2>1, <2>5, OneRunStep DEF Active
<1>. QED
  BY <1>3, <1>4

(* A run that starts while none is active.                                    *)
LEMMA OneRunDiscover ==
  ASSUME BaseInv, OneRun, ~overlapped', NEW r \in Runners, Discover(r)
  PROVE  OneRun'
<1>1. /\ shipped' = shipped /\ schema' = schema /\ rows' = rows /\ ~overlapped
      /\ \A q \in Runners \ {r} : runs[q].pc \notin Active
  BY DEF Discover
<1>2. /\ \A q \in Runners \ {r} : runs'[q] = runs[q]
      /\ runs'[r].pc = "discovered" /\ runs'[r].files = shipped
  BY DiscoverBase
<1>3. Recorded' = Recorded /\ Recorded \subseteq DOMAIN shipped /\ Sound(Recorded, schema)
  BY <1>1 DEF Recorded, OneRun
<1>4. ASSUME NEW q \in Runners PROVE RunHolds(runs'[q], Recorded, schema)
  BY <1>1, <1>2, <1>3 DEF RunHolds, Active
<1>5. \A q \in Runners : RunHolds(runs'[q], Recorded', schema')
  BY <1>1, <1>3, <1>4
<1>. QED
  BY <1>1, <1>2, <1>3, <1>5 DEF OneRun

LEMMA OneRunPlan ==
  ASSUME BaseInv, OneRun, ~overlapped, NEW r \in Runners, NEW allowMismatch \in BOOLEAN,
         MakePlan(r, allowMismatch)
  PROVE  OneRun'
<1>1. /\ BaseInv' /\ UNCHANGED <<shipped, schema, rows, overlapped>>
      /\ \A q \in Runners \ {r} : runs'[q] = runs[q]
      /\ runs[r].pc = "discovered"
      /\ \/ runs'[r] = NoRun
         \/ /\ runs'[r].pc = "applying" /\ runs'[r].files = runs[r].files
            /\ runs'[r].plan = {v \in DOMAIN runs[r].files : rows[v] = 0}
            /\ runs'[r].next = 1 /\ runs'[r].txn = {}
  BY PlanBase
<1>2. /\ Recorded' = Recorded /\ Recorded \subseteq DOMAIN shipped /\ Sound(Recorded, schema)
      /\ Recorded \subseteq DOMAIN runs[r].files
  BY <1>1 DEF Recorded, OneRun, RunHolds, Active
<1>3. RunHolds(runs'[r], Recorded, schema)
  <2>1. CASE runs'[r] = NoRun
    BY <2>1, Processes DEF RunHolds, Active
  <2>2. CASE /\ runs'[r].pc = "applying" /\ runs'[r].files = runs[r].files
             /\ runs'[r].plan = {v \in DOMAIN runs[r].files : rows[v] = 0}
             /\ runs'[r].next = 1 /\ runs'[r].txn = {}
    <3>1. Flushed(schema, {}) = schema /\ InTxn({}) = {}
      BY FlushedNothing DEF BaseInv, TypesFit
    <3>2. runs'[r].plan \subseteq Versions /\ runs'[r].plan \subseteq Nat
      <4>1. runs'[r] \in Process
        BY <1>1 DEF BaseInv, TypesFit
      <4>. QED
        BY <4>1, ScriptFacts DEF Process
    <3>3. runs'[r].plan = DOMAIN runs'[r].files \ Recorded
      <4>1. /\ runs[r].files \in Seq({1, 2}) /\ Len(runs[r].files) <= Len(shipped)
            /\ shipped \in Seq({1, 2}) /\ Len(shipped) <= Len(Scripts)
        BY DEF Process, BaseInv, TypesFit, RunsFit, Fits
      <4>2. Len(shipped) \in Nat /\ Len(Scripts) \in Nat /\ Len(runs[r].files) \in Nat
        BY <4>1, ScriptFacts
      <4>3. DOMAIN runs[r].files \subseteq Versions
        BY <4>1, <4>2, ScriptFacts
      <4>4. \A v \in DOMAIN runs[r].files : rows[v] = 0 <=> v \notin Recorded
        BY <4>3 DEF Recorded
      <4>. QED
        BY <2>2, <4>4
    <3>4. runs'[r].plan # {} => DoneBy(Min(runs'[r].plan), 1, schema)
      <4> SUFFICES ASSUME runs'[r].plan # {} PROVE DoneBy(Min(runs'[r].plan), 1, schema)
        OBVIOUS
      <4>1. Min(runs'[r].plan) \in Versions
        BY <3>2, MinIsLeast
      <4>2. \A i \in DOMAIN Scripts[Min(runs'[r].plan)] : ~(i < 1)
        BY <4>1, ScriptFacts
      <4>. QED
        BY <4>2 DEF DoneBy
    <3>5. /\ Flushed(schema, runs'[r].txn) = schema
          /\ Recorded \cup InTxn(runs'[r].txn) = Recorded
      BY <2>2, <3>1
    <3>. QED
      BY <1>2, <2>2, <3>3, <3>4, <3>5 DEF RunHolds
  <2>. QED
    BY <1>1, <2>1, <2>2
<1>4. RunHolds(runs'[r], Recorded', schema') /\ Sound(Recorded', schema')
      /\ Recorded' \subseteq DOMAIN shipped
  BY <1>1, <1>2, <1>3
<1>. QED
  BY <1>1, <1>4, OneRunStep DEF Active

LEMMA InitOneRun == Init => Defines /\ OneRun
<1> SUFFICES ASSUME Init PROVE Defines /\ OneRun
  OBVIOUS
<1>1. Defines
  BY DEF Init, Defines
<1>2. Recorded = {} /\ Sound({}, schema)
  BY DEF Init, Recorded, Sound
<1>3. \A r \in Runners : runs[r] = NoRun
  BY DEF Init
<1>4. \A r \in Runners : RunHolds(runs[r], Recorded, schema) /\ runs[r].pc \notin Active
  BY <1>3, Processes DEF RunHolds, Active
<1>. QED
  BY <1>1, <1>2, <1>4 DEF OneRun

LEMMA NextOneRun == BaseInv /\ Defines /\ OneRun /\ [Next]_vars => OneRun'
<1> SUFFICES ASSUME BaseInv, Defines, OneRun, [Next]_vars, ~overlapped' PROVE OneRun'
  BY DEF OneRun
<1>1. ~overlapped
  BY DEF Next, Step, vars, Ship, Edit, Discover, MakePlan, ExecuteDDL, ExecuteSeed, Record,
     Finish, Crash
<1>2. CASE Ship \/ \E v \in Versions : Edit(v)
  <2>1. DOMAIN shipped \subseteq DOMAIN shipped' /\ UNCHANGED <<schema, rows, runs, overlapped>>
    BY <1>2, ShipBase
  <2>2. Recorded' = Recorded
    BY <2>1 DEF Recorded
  <2>. QED
    BY <1>1, <2>1, <2>2 DEF OneRun
<1>3. CASE UNCHANGED vars
  BY <1>1, <1>3 DEF vars, OneRun, Recorded
<1>. QED
  BY <1>1, <1>2, <1>3, OneRunDDL, OneRunSeed, OneRunRecord, OneRunEnd, OneRunDiscover,
     OneRunPlan DEF Next, Step

(* The last of a set of versions.                                             *)
LEMMA MaxIsLast ==
  ASSUME NEW S, S \subseteq Versions, S # {}
  PROVE  Max(S) \in S /\ \A v \in S : v <= Max(S)
<1>1. PICK n : n = Len(Scripts)
  OBVIOUS
<1>2. n \in Nat /\ S \subseteq 1 .. n
  BY <1>1, ScriptFacts
<1>3. PICK T : T = {n - v : v \in S}
  OBVIOUS
<1>4. T \subseteq Nat /\ T # {}
  <2>1. \A v \in S : n - v \in Nat
    BY <1>2
  <2>. QED
    BY <1>3, <2>1
<1>5. PICK m \in T : \A t \in T : m <= t
  BY <1>4, LeastNatural
<1>6. PICK v \in S : m = n - v
  BY <1>3
<1>7. \A w \in S : v >= w
  BY <1>2, <1>3, <1>5, <1>6
<1>8. Max(S) \in S /\ \A w \in S : Max(S) >= w
  BY <1>6, <1>7 DEF Max
<1>. QED
  BY <1>2, <1>8

(* A version that has a row is complete: without overlapping runs an object   *)
(* is as the last recorded version that makes it left it, however often runs  *)
(* crashed, failed and were repeated (apply_pending_migrations).              *)
THEOREM SchemaIsAsRecordedHolds == Spec => []SchemaIsAsRecorded
<1>1. BaseInv /\ OneRun => SchemaIsAsRecorded
  <2> SUFFICES ASSUME BaseInv, OneRun, ~overlapped, NEW o \in Objects,
                      NEW makers, makers = {v \in Versions : Makes(v, o)},
                      makers # {}, makers \subseteq Recorded
               PROVE  schema[o] = Max(makers)
    BY DEF SchemaIsAsRecorded
  <2>1. PICK v : v = Max(makers)
    OBVIOUS
  <2>2. makers \subseteq Versions
    OBVIOUS
  <2>3. v \in makers /\ \A w \in makers : w <= v
    BY <2>1, <2>2, MaxIsLast
  <2>4. v \in Recorded /\ Makes(v, o) /\ \A w \in Versions : Makes(w, o) => w <= v
    BY <2>3
  <2>5. schema[o] = v
    BY <2>4 DEF OneRun, Sound
  <2>. QED
    BY <2>1, <2>5
<1>2. Init => BaseInv /\ Defines /\ OneRun
  BY InitBase, InitOneRun
<1>3. BaseInv /\ TablesInv /\ Defines /\ OneRun /\ [Next]_vars
        => BaseInv' /\ Defines' /\ OneRun'
  BY NextTables, DefinesNext, NextOneRun
<1>. QED
  BY <1>1, <1>2, <1>3, InitTables, NextTables, PTL DEF Spec

=============================================================================
