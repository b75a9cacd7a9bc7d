---------------------------- MODULE PaperRequests ----------------------------
(***************************************************************************)
(* Overlapping requests on one paper account.  Every write request of the  *)
(* HTTP API is one database transaction (http_api/dependencies.py:         *)
(* get_write_session): it reads a snapshot, decides on what it read,       *)
(* writes, and commits when the handler returns or rolls back when it      *)
(* raises.  No query of the code locks what it reads, and the ORM writes   *)
(* absolute values computed from the snapshot.                             *)
(*                                                                         *)
(* What InnoDB adds, at its default isolation level: an INSERT shares the  *)
(* parent rows of its foreign keys, an UPDATE owns its row, both until the *)
(* transaction ends; a deadlock or a long wait rolls one transaction back. *)
(* A transaction's own rows are private until it commits, so its writes    *)
(* are modelled at the commit.                                             *)
(***************************************************************************)
EXTENDS Integers, Sequences, PaperLifecycle

CONSTANTS
  Txns,           \* the requests, each one served once
  Account, Sessions, Signals,
  Held,           \* positions, of no signal, open when the requests arrive
  GrossPnls,      \* what closing a position may make
  InitialBalance,
  None

ASSUME RequestsAssumption ==
  /\ GrossPnls \subseteq Int /\ InitialBalance \in Nat
  /\ None \notin Signals /\ Held \cap Txns = {}

(* A request that opens a position uses its own name for it. *)
Positions == Held \cup Txns

Requests ==
  [kind : {"open"}, session : Sessions, signal : Signals \cup {None}]
  \cup [kind : {"close", "exit"}, session : Sessions, signal : Signals \cup {None},
        position : Positions, gross : GrossPnls]
  \cup [kind : {"command"}, session : Sessions, to : SessionStatuses]
  \cup [kind : {"decide"}, signal : Signals, to : SignalStatuses \ {"executed"}]

VARIABLES
  db,         \* the committed rows
  request,    \* transaction -> what it was asked to do
  view,       \* transaction -> the snapshot it reads
  granted,    \* transaction -> how many locks of its plan it has
  phase       \* transaction -> "new", "working", "done" or "failed"

vars == <<db, request, view, granted, phase>>

NoRequest == [kind |-> "none"]

FirstRows ==
  [session  |-> [s \in Sessions |-> [status |-> "running", ended |-> FALSE]],
   signal   |-> [g \in Signals |-> "approved"],
   position |-> [p \in Positions |-> IF p \in Held THEN "open" ELSE "none"],
   balance  |-> InitialBalance,
   orders   |-> {},         \* the filled orders: who wrote them, for which signal
   trades   |-> << >>,
   events   |-> [g \in Signals |-> << >>]]

Init ==
  /\ db = FirstRows
  /\ request = [t \in Txns |-> NoRequest]
  /\ view = [t \in Txns |-> FirstRows]
  /\ granted = [t \in Txns |-> 0]
  /\ phase = [t \in Txns |-> "new"]

-----------------------------------------------------------------------------
(***************************************************************************)
(* What a handler lets through, on the rows it reads.                      *)
(***************************************************************************)
HasExecution(rows, g) == \E o \in rows.orders : o.signal = g

Usable(rows, g) ==
  g # None => rows.signal[g] = "approved" /\ ~HasExecution(rows, g)

(* The signal a position was opened for, which the rows of its exit repeat. *)
OpenedFor(rows, p, g) ==
  IF p \in Held THEN g = None ELSE [txn |-> p, signal |-> g] \in rows.orders

Accepts(q, rows) ==
  \/ /\ q.kind = "open"
     /\ rows.session[q.session].status = "running"
     /\ Usable(rows, q.signal)
  \/ /\ q.kind = "close"
     /\ rows.session[q.session].status = "running"
     /\ Usable(rows, q.signal)
     /\ rows.position[q.position] = "open"
  \/ /\ q.kind = "exit"
     /\ rows.position[q.position] = "open"
     /\ OpenedFor(rows, q.position, q.signal)
  \/ /\ q.kind = "command"
     /\ q.to \in SessionTransitions[rows.session[q.session].status]
  \/ /\ q.kind = "decide"
     /\ q.to \in SignalTransitions[rows.signal[q.signal]]

(***************************************************************************)
(* The locks a request needs, in the order its statements take them: the   *)
(* decision, order and fill rows share their parents first, the updates of *)
(* account, position and signal own theirs at the end.                     *)
(***************************************************************************)
Share(row) == [row |-> row, mode |-> "S"]
Own(row) == [row |-> row, mode |-> "X"]

OnSignal(q, lock) == IF q.signal = None THEN << >> ELSE <<lock>>

Plan(q) ==
  CASE q.kind = "open" ->
         <<Share(Account), Share(q.session)>>
           \o OnSignal(q, Share(q.signal)) \o OnSignal(q, Own(q.signal))
    [] q.kind = "close" ->
         <<Share(Account), Share(q.session)>>
           \o OnSignal(q, Share(q.signal))
           \o <<Share(q.position), Own(Account), Own(q.position)>>
           \o OnSignal(q, Own(q.signal))
    [] q.kind = "exit" ->
         <<Share(Account), Share(q.session)>>
           \o OnSignal(q, Share(q.signal))
           \o <<Share(q.position), Own(Account), Own(q.position)>>
    [] q.kind = "command" -> <<Own(q.session)>>
    [] q.kind = "decide" -> <<Own(q.signal)>>
    [] OTHER -> << >>

(* Mutant: a transaction that failed is never rolled back. *)
HoldsAfterFailure(t) == {Plan(request[t])[i] : i \in 1..granted[t]}

Holds(t) ==
  IF phase[t] = "working" THEN {Plan(request[t])[i] : i \in 1..granted[t]}
                          ELSE {}

Ready(t) == phase[t] = "working" /\ granted[t] = Len(Plan(request[t]))

Blockers(t) ==
  IF phase[t] # "working" \/ Ready(t) THEN {}
  ELSE LET next == Plan(request[t])[granted[t] + 1]
       IN  {u \in Txns \ {t} :
              \E lock \in Holds(u) : /\ lock.row = next.row
                                     /\ "X" \in {lock.mode, next.mode}}

(* A circle of transactions that wait for each other, t among them. *)
Deadlocked(t) ==
  \E circle \in SUBSET Txns :
    /\ t \in circle
    /\ \A u \in circle : /\ Blockers(u) \cap circle # {}
                         /\ \E w \in circle : u \in Blockers(w)

-----------------------------------------------------------------------------
(***************************************************************************)
(* The rows a request writes.                                              *)
(***************************************************************************)
(* Mutant: the floor is forgotten. *)
AnyBalance(x) == x

NotBelowZero(x) == IF x < 0 THEN 0 ELSE x

Filled(rows, t, q) ==
  [rows EXCEPT !.orders = @ \cup {[txn |-> t, signal |-> q.signal]}]

Evented(rows, g, from, to) ==
  [rows EXCEPT !.signal[g] = to,
               !.events[g] = Append(@, [from |-> from, to |-> to])]

(* Mutant: the status is written around the repository, without its event. *)
SpentSilently(rows, g, seen) ==
  IF g = None THEN rows ELSE [rows EXCEPT !.signal[g] = "executed"]

Spent(rows, g, seen) ==
  IF g = None THEN rows ELSE Evented(rows, g, seen.signal[g], "executed")

(* Mutant: the balance is moved in the database, the trade stamped from memory. *)
ClosedInPlace(rows, q, seen) ==
  LET after == NotBelowZero(seen.balance + q.gross)
  IN  [rows EXCEPT !.position[q.position] = "closed",
                   !.balance = NotBelowZero(@ + q.gross),
                   !.trades = Append(@, [position |-> q.position,
                                         net |-> q.gross,
                                         balanceAfter |-> after])]

(* The ORM writes the columns whose value changed: a close that leaves the    *)
(* balance it saw as it was leaves the balance column alone.                  *)
Closed(rows, q, seen) ==
  LET after == NotBelowZero(seen.balance + q.gross)
  IN  [rows EXCEPT !.position[q.position] = "closed",
                   !.balance = IF after = seen.balance THEN @ ELSE after,
                   !.trades = Append(@, [position |-> q.position,
                                         net |-> q.gross,
                                         balanceAfter |-> after])]

Commanded(rows, q) ==
  [rows EXCEPT !.session[q.session] =
     [status |-> q.to,
      ended |-> q.to \in TerminalSessionStatuses \/ @.ended]]

Written(rows, t, q, seen) ==
  CASE q.kind = "open" ->
         Spent(Filled([rows EXCEPT !.position[t] = "open"], t, q), q.signal, seen)
    [] q.kind = "close" ->
         Spent(Closed(Filled(rows, t, q), q, seen), q.signal, seen)
    [] q.kind = "exit" -> Closed(Filled(rows, t, q), q, seen)
    [] q.kind = "command" -> Commanded(rows, q)
    [] q.kind = "decide" ->
         Evented(rows, q.signal, seen.signal[q.signal], q.to)

(* Mutant: the constraint is not part of the schema. *)
NoConstraints(rows) == TRUE

(* ck_paper_sessions_open_has_no_end and ck_paper_sessions_terminal_has_end. *)
SatisfiesConstraints(rows) ==
  \A s \in Sessions :
    rows.session[s].ended <=> rows.session[s].status \in TerminalSessionStatuses

-----------------------------------------------------------------------------
(* The first query takes the snapshot, and the handler decides on it; a       *)
(* request it refuses writes nothing this module keeps.                       *)
Begin(t) ==
  /\ phase[t] = "new"
  /\ \E q \in Requests :
       /\ Accepts(q, db)
       /\ request' = [request EXCEPT ![t] = q]
  /\ view' = [view EXCEPT ![t] = db]
  /\ phase' = [phase EXCEPT ![t] = "working"]
  /\ UNCHANGED <<db, granted>>

Acquire(t) ==
  /\ phase[t] = "working" /\ ~Ready(t)
  /\ Blockers(t) = {}
  /\ granted' = [granted EXCEPT ![t] = @ + 1]
  /\ UNCHANGED <<db, request, view, phase>>

Commit(t) ==
  /\ Ready(t)
  /\ LET rows == Written(db, t, request[t], view[t])
     IN  /\ SatisfiesConstraints(rows)
         /\ db' = rows
  /\ phase' = [phase EXCEPT ![t] = "done"]
  /\ UNCHANGED <<request, view, granted>>

(* Mutant: the failing request commits the trade it had flushed. *)
RollBackPartly(t) ==
  /\ phase' = [phase EXCEPT ![t] = "failed"]
  /\ db' = IF request[t].kind = "exit"
             THEN [Closed(db, request[t], view[t]) EXCEPT !.position = db.position]
             ELSE db
  /\ UNCHANGED <<request, view, granted>>

(* get_write_session: nothing that was flushed survives the exception. *)
RollBack(t) ==
  /\ phase' = [phase EXCEPT ![t] = "failed"]
  /\ UNCHANGED <<db, request, view, granted>>

(* A CHECK constraint refuses the update. *)
Violate(t) ==
  /\ Ready(t)
  /\ ~SatisfiesConstraints(Written(db, t, request[t], view[t]))
  /\ RollBack(t)

(* The database breaks a deadlock; the code does not retry. *)
BreakDeadlock(t) == Deadlocked(t) /\ RollBack(t)

(* The wait timed out, the connection dropped or the process died. *)
Abandon(t) == phase[t] = "working" /\ RollBack(t)

Next ==
  \E t \in Txns : \/ Begin(t) \/ Acquire(t) \/ Commit(t)
                  \/ Violate(t) \/ BreakDeadlock(t) \/ Abandon(t)

Spec == Init /\ [][Next]_vars

(* A request that can run does, and the database breaks every deadlock.       *)
(* Nothing obliges a request to time out or a process to die.                 *)
FairSpec ==
  /\ Spec
  /\ \A t \in Txns : /\ WF_vars(Acquire(t))
                     /\ WF_vars(Commit(t) \/ Violate(t))
  /\ WF_vars(\E t \in Txns : BreakDeadlock(t))

-----------------------------------------------------------------------------
OrderRows == [txn : Txns, signal : Signals \cup {None}]
TradeRows == [position : Positions, net : Int, balanceAfter : Nat]
EventRows == [from : SignalStatuses, to : SignalStatuses]

Tables ==
  [session  : [Sessions -> [status : SessionStatuses, ended : BOOLEAN]],
   signal   : [Signals -> SignalStatuses],
   position : [Positions -> {"none", "open", "closed"}],
   balance  : Nat,
   orders   : SUBSET OrderRows,
   trades   : Seq(TradeRows),
   events   : [Signals -> Seq(EventRows)]]

(* The rows have their types, committed or read; nobody holds a lock past its *)
(* plan.                                                                      *)
TypeOK ==
  /\ db \in Tables
  /\ view \in [Txns -> Tables]
  /\ request \in [Txns -> Requests \cup {NoRequest}]
  /\ granted \in [Txns -> Nat]
  /\ \A t \in Txns : granted[t] <= Len(Plan(request[t]))
  /\ phase \in [Txns -> {"new", "working", "done", "failed"}]

(* A stale `pause` or `start` cannot reopen a run that another request ended: *)
(* the run keeps an end time, and the schema refuses an open status with one. *)
EndedRunStaysEnded ==
  [][\A s \in Sessions :
       db.session[s].status \in TerminalSessionStatuses =>
         db'.session[s].status \in TerminalSessionStatuses]_vars

(* The requests that closed a position, and whether one read another's rows.  *)
Closers(p) ==
  {t \in Txns : /\ phase[t] = "done" /\ request[t].kind \in {"close", "exit"}
                /\ request[t].position = p}
HasRead(t, u) == \E o \in view[t].orders : o.txn = u

(* Requests that fail or race leave no half-closed position: a position is    *)
(* closed exactly when some trade was booked for it.  It may be booked twice, *)
(* but only by requests that overlapped, never by a retry or one that came    *)
(* later and could have read it closed.                                       *)
ClosedIffTraded ==
  \A p \in Positions :
    /\ db.position[p] = "closed" <=>
         \E i \in DOMAIN db.trades : db.trades[i].position = p
    /\ \A t, u \in Closers(p) : ~HasRead(t, u)

(* "A signal can never change status without a matching audit row", also when *)
(* requests overwrite each other: the last event says what the row says.      *)
LastEventIsStatus ==
  \A g \in Signals :
    IF db.events[g] = << >> THEN db.signal[g] = "approved"
    ELSE db.signal[g] = db.events[g][Len(db.events[g])].to

(* Updates get lost when closes overlap, and still no balance appears that    *)
(* nothing accounts for: it is the one the requests found, or some trade       *)
(* reports it.                                                                *)
BalanceIsReported ==
  \/ db.balance = InitialBalance
  \/ \E i \in DOMAIN db.trades : db.trades[i].balanceAfter = db.balance

(* No request waits forever, on locks or on another request's deadlock. *)
EveryRequestEnds ==
  \A t \in Txns : phase[t] = "working" ~> phase[t] \in {"done", "failed"}

(* "So this transition is always legal" (execution_service.py, of marking a   *)
(* signal executed): an order a caller sent for a signal is filled only while *)
(* the signal is approved.                                                    *)
FillsSpendApproved ==
  [][\A g \in Signals : \A t \in Txns :
       LET fill == [txn |-> t, signal |-> g]
       IN  fill \in db'.orders \ db.orders /\ request[t].kind # "exit"
             => db.signal[g] = "approved"]_vars
=============================================================================
