------------------------ MODULE PaperTradingProofs ------------------------
(***************************************************************************)
(* The serial core keeps its books, for every set of accounts, sessions,   *)
(* signals, orders and positions, every commission and every possible      *)
(* profit.                                                                 *)
(***************************************************************************)
EXTENDS PaperTrading, SumTheorems

(* Rows in use name real accounts: a session its own, a position that of the *)
(* session that opened it.  A sweep visits positions of the account it moves.*)
Held(p) ==
  /\ positions[p].account \in Accounts /\ positions[p].session \in Sessions
  /\ sessionStatus[positions[p].session] # "none"
  /\ positions[p].account = sessionAccount[positions[p].session]

Ownership ==
  /\ \A s \in Sessions : sessionStatus[s] # "none" => sessionAccount[s] \in Accounts
  /\ \A p \in Positions : positions[p].status # "none" => Held(p)
  /\ \A p \in sweep.left : /\ positions[p].status # "none"
                           /\ positions[p].account = sweep.account

BaseInv == TypeOK /\ Ownership

(* Every close moves the money of the account the position is on. *)
OwnClose(p, s, gross) == BookClose(p, positions[p].account, s, gross)

LEMMA ClosesAreOwn ==
  ASSUME BaseInv, NEW p \in Positions, NEW gross \in GrossPnls
  PROVE  /\ \A s \in Sessions :
              /\ positions[p].session = s
              /\ BookClose(p, sessionAccount[s], s, gross)
              => OwnClose(p, s, gross)
         /\ p \in sweep.left /\ BookClose(p, sweep.account, sweep.session, gross)
              => OwnClose(p, sweep.session, gross)
<1>1. ASSUME NEW s \in Sessions, positions[p].session = s,
             BookClose(p, sessionAccount[s], s, gross)
      PROVE  OwnClose(p, s, gross)
  <2>1. positions[p].account = sessionAccount[s]
    BY <1>1 DEF BookClose, BaseInv, Ownership, Held
  <2>2. QED
    BY <1>1, <2>1 DEF OwnClose
<1>2. ASSUME p \in sweep.left, BookClose(p, sweep.account, sweep.session, gross)
      PROVE  OwnClose(p, sweep.session, gross)
  BY <1>2 DEF OwnClose, BaseInv, Ownership, Held
<1>3. QED
  BY <1>1, <1>2

(* So does a CLOSE order, which picks among the positions of its account. *)
LEMMA RequestCloses ==
  ASSUME NEW r \in Requests, ExecuteClose(r)
  PROVE  \E p \in Positions, gross \in GrossPnls :
           /\ p \in OpenPositions(AccountOf(r), r.symbol)
           /\ OwnClose(p, r.session, gross)
<1>1. PICK p \in OpenPositions(AccountOf(r), r.symbol), gross \in GrossPnls :
        BookClose(p, AccountOf(r), r.session, gross)
  BY DEF ExecuteClose
<1>2. p \in Positions /\ positions[p].account = AccountOf(r)
  BY DEF OpenPositions
<1>3. QED
  BY <1>1, <1>2 DEF OwnClose

(* What the transition tables say of the statuses the service writes. *)
LEMMA TableFacts ==
  /\ \A s \in SessionStatuses : "none" \notin SessionTransitions[s]
  /\ \A s \in SessionStatuses : SessionTransitions[s] \subseteq SessionStatuses
  /\ SessionTransitions["none"] = {}
  /\ \A c \in DOMAIN SessionCommands : SessionCommands[c] \in SessionStatuses \ {"none"}
  /\ \A s \in SignalStatuses : SignalTransitions[s] \subseteq SignalStatuses
  /\ \A s \in SignalStatuses : "executed" \in SignalTransitions[s] => s = "approved"
  /\ SignalTransitions["executed"] = {} /\ SignalTransitions["none"] = {}
  /\ {"none", "approved", "executed"} \subseteq SignalStatuses
  /\ CreatableSignalStatuses \subseteq SignalStatuses \ {"executed"}
  /\ {"none", "rejected", "filled"} \subseteq OrderStatuses
  /\ {"none", "open", "closed"} \subseteq PositionStatuses
  /\ {"none", "created", "running"} \subseteq SessionStatuses
BY DEF SessionStatuses, SessionTransitions, SessionCommands, SignalStatuses,
       SignalTransitions, CreatableSignalStatuses, OrderStatuses,
       OrderTransitions, PositionStatuses, PositionTransitions

(* The absent value names no row. *)
LEMMA NoneIsFresh ==
  /\ None \notin Accounts /\ None \notin Sessions /\ None \notin Signals
  /\ None \notin Orders /\ None \notin Positions
  /\ Commission \in Nat /\ InitialBalance \in Nat /\ GrossPnls \subseteq Int
BY ValuesAssumption

(* A realized amount keeps every balance a natural number. *)
LEMMA RealizeType ==
  ASSUME balance \in [Accounts -> Nat], NEW a \in Accounts, NEW amount \in Int,
         Realize(a, amount)
  PROVE  balance' \in [Accounts -> Nat]
<1>1. balance[a] + amount \in Int
  OBVIOUS
<1>2. (IF balance[a] + amount < 0 THEN 0 ELSE balance[a] + amount) \in Nat
  BY <1>1
<1>3. QED
  BY <1>2 DEF Realize

(* Marking a signal executed keeps the types. *)
LEMMA MarkType ==
  ASSUME signalStatus \in [Signals -> SignalStatuses],
         NEW g \in Signals \cup {None}, MarkExecuted(g)
  PROVE  signalStatus' \in [Signals -> SignalStatuses]
BY TableFacts DEF MarkExecuted

(* An order built from a request is a well-typed row. *)
LEMMA OrderType ==
  ASSUME BaseInv, NEW r \in Requests, Submitted(r)
  PROVE  /\ AccountOf(r) \in Accounts /\ r.session \in Sessions
         /\ r.signal \in Signals \cup {None}
         /\ Order(r, "filled") \in OrderRows /\ Order(r, "rejected") \in OrderRows
         /\ Order(r, "filled").status = "filled"
         /\ Order(r, "rejected").status = "rejected"
         /\ Order(r, "filled").kind \in {"open", "close"}
         /\ Order(r, "filled").signal = r.signal
<1>1. /\ r.session \in Sessions /\ r.action \in {"open", "close"}
      /\ r.signal \in Signals \cup {None}
  BY DEF Requests
<1>2. AccountOf(r) \in Accounts
  BY <1>1 DEF BaseInv, Ownership, Held, Submitted, AccountOf
<1>3. QED
  BY <1>1, <1>2, TableFacts DEF Order, OrderRows

(* Creating an order keeps the table well typed. *)
LEMMA CreateOrderType ==
  ASSUME orders \in [Orders -> OrderRows], NEW o \in Orders,
         NEW row \in OrderRows, CreateOrder(o, row)
  PROVE  /\ orders' \in [Orders -> OrderRows]
         /\ orders'[o] = row
         /\ orders[o].status = "none"
         /\ \A q \in Orders \ {o} : orders'[q] = orders[q]
BY DEF CreateOrder, Unused

(* Recording a decision keeps the table well typed. *)
LEMMA DecisionType ==
  ASSUME BaseInv, NEW r \in Requests, Submitted(r),
         NEW allowed \in BOOLEAN, NEW order \in Orders \cup {None},
         RecordDecision(r, allowed, order)
  PROVE  decisions' \in Seq(DecisionRows)
<1> DEFINE row == [account |-> AccountOf(r), session |-> r.session,
                   signal |-> r.signal, allowed |-> allowed, order |-> order]
<1>1. row \in DecisionRows
  BY OrderType DEF DecisionRows
<1>2. decisions \in Seq(DecisionRows)
  BY DEF BaseInv, TypeOK
<1>3. QED
  BY <1>1, <1>2 DEF RecordDecision

(* A close keeps positions, balances and trades well typed. *)
LEMMA BookCloseType ==
  ASSUME BaseInv, NEW p \in Positions, NEW s \in Sessions \cup {None},
         NEW gross \in GrossPnls, OwnClose(p, s, gross)
  PROVE  /\ balance' \in [Accounts -> Nat]
         /\ positions' \in [Positions -> PositionRows]
         /\ trades' \in Seq(TradeRows)
         /\ positions[p].account \in Accounts
         /\ positions'[p] = [positions[p] EXCEPT !.status = "closed"]
         /\ \A q \in Positions \ {p} : positions'[q] = positions[q]
<1> DEFINE a == positions[p].account
           net == gross - Commission
           trade == [position |-> p, account |-> a, session |-> s,
                     net |-> net, balanceAfter |-> balance'[a]]
<1>1. a \in Accounts /\ net \in Int
  BY NoneIsFresh DEF BaseInv, Ownership, Held, OwnClose, BookClose
<1>2. balance' \in [Accounts -> Nat]
  BY <1>1, RealizeType DEF OwnClose, BookClose, BaseInv, TypeOK
<1>3. trade \in TradeRows
  BY <1>1, <1>2 DEF TradeRows
<1>4. trades' \in Seq(TradeRows)
  BY <1>3 DEF OwnClose, BookClose, BaseInv, TypeOK
<1>5. positions \in [Positions -> PositionRows]
  BY DEF BaseInv, TypeOK
<1>6. [positions[p] EXCEPT !.status = "closed"] \in PositionRows
  <2>1. positions[p] \in PositionRows
    BY <1>5
  <2>2. QED
    BY <2>1, TableFacts DEF PositionRows
<1>7. /\ positions' \in [Positions -> PositionRows]
      /\ positions'[p] = [positions[p] EXCEPT !.status = "closed"]
      /\ \A q \in Positions \ {p} : positions'[q] = positions[q]
  BY <1>5, <1>6 DEF OwnClose, BookClose
<1>8. QED
  BY <1>1, <1>2, <1>4, <1>7

(* The sweep is over, or has fewer positions left to visit. *)
Narrowed == /\ sweep'.left \subseteq sweep.left
            /\ sweep'.left = {} \/ sweep'.account = sweep.account

(* The rows that an order's close or exit leaves in place. *)
LEMMA BookCloseOwnership ==
  ASSUME BaseInv, NEW p \in Positions, NEW s \in Sessions \cup {None},
         NEW gross \in GrossPnls, OwnClose(p, s, gross), UNCHANGED sessionVars,
         Narrowed
  PROVE  Ownership'
<1>1. positions[p] \in PositionRows /\ positions[p].status = "open"
  BY DEF BaseInv, TypeOK, OwnClose, BookClose
<1>2. /\ positions'[p].account = positions[p].account
      /\ positions'[p].session = positions[p].session
      /\ positions'[p].status = "closed"
  BY <1>1, BookCloseType DEF PositionRows
<1>3. \A q \in Positions \ {p} : positions'[q] = positions[q]
  BY BookCloseType
<1>4. Ownership
  BY DEF BaseInv
<1>5. \A q \in Positions : positions'[q].status # "none" => Held(q)'
  BY <1>1, <1>2, <1>3, <1>4 DEF Ownership, Held, sessionVars
<1>6. \A q \in Positions : /\ positions'[q].account = positions[q].account
                           /\ positions'[q].status = "none" => positions[q].status = "none"
  BY <1>1, <1>2, <1>3
<1>7. \A q \in sweep'.left : /\ positions'[q].status # "none"
                             /\ positions'[q].account = sweep'.account
  BY <1>4, <1>6 DEF Ownership, Held, Narrowed, BaseInv, TypeOK, Sweeps
<1>8. QED
  BY <1>4, <1>5, <1>7 DEF Ownership, Held, sessionVars

(* An exit order is a well-typed row. *)
LEMMA ExitType ==
  ASSUME BaseInv, NEW p \in Positions, NEW s \in Sessions \cup {None}
  PROVE  /\ Exit(p, s) \in OrderRows
         /\ Exit(p, s).kind = "exit"
<1>1. positions[p] \in PositionRows
  BY DEF BaseInv, TypeOK
<1>2. QED
  BY <1>1, TableFacts DEF Exit, OrderRows, PositionRows

(* Visiting a position keeps the sweep well typed. *)
LEMMA SweepType ==
  ASSUME sweep \in Sweeps, NEW p \in Positions, Visited(p)
  PROVE  sweep' \in Sweeps /\ Narrowed
BY DEF Visited, Sweeps, NoSweep, Narrowed

(* Every action keeps the types and the owners of the rows. *)
LEMMA BaseInvStep ==
  ASSUME BaseInv, [Next]_vars
  PROVE  BaseInv'
<1> USE DEF BaseInv
<1>1. ASSUME NEW a \in Accounts, NEW to \in {"active", "suspended"},
             SetAccountStatus(a, to)
      PROVE  BaseInv'
  BY <1>1 DEF TypeOK, Ownership, Held, SetAccountStatus, sessionVars
<1>2. ASSUME NEW a \in Accounts, NEW to \in {"auto_trade", "signal_only"},
             SetExecutionMode(a, to)
      PROVE  BaseInv'
  BY <1>2 DEF TypeOK, Ownership, Held, SetExecutionMode, sessionVars
<1>3. ASSUME NEW a \in Accounts, NEW s \in Sessions, OpenSession(s, a)
      PROVE  BaseInv'
  BY <1>3, TableFacts DEF TypeOK, Ownership, Held, OpenSession, accountVars
<1>4. ASSUME NEW a \in Accounts, NEW kind \in {"bar", "flatten"},
             NEW symbol \in Symbols, NEW s \in Sessions \cup {None},
             StartSweep(kind, a, symbol, s)
      PROVE  BaseInv'
  BY <1>4 DEF TypeOK, Ownership, Held, StartSweep, accountVars, sessionVars, Sweeps,
              OpenPositions
<1>5. ASSUME NEW s \in Sessions, NEW command \in DOMAIN SessionCommands,
             CommandSession(s, command)
      PROVE  BaseInv'
  BY <1>5, TableFacts DEF TypeOK, Ownership, Held, CommandSession, accountVars
<1>6. ASSUME NEW s \in Sessions, NEW p \in Positions, ClosePosition(s, p)
      PROVE  BaseInv'
  <2>1. PICK gross \in GrossPnls : OwnClose(p, s, gross)
    BY <1>6, ClosesAreOwn DEF ClosePosition
  <2>2. PICK o \in Orders : CreateOrder(o, Exit(p, s))
    BY <1>6 DEF ClosePosition
  <2>3. orders' \in [Orders -> OrderRows]
    BY <2>2, ExitType, CreateOrderType DEF TypeOK
  <2>4. Ownership'
    BY <1>6, <2>1, BookCloseOwnership DEF ClosePosition, Narrowed
  <2>5. QED
    BY <1>6, <2>1, <2>3, <2>4, BookCloseType DEF ClosePosition, TypeOK, accountVars, sessionVars
<1>7. ASSUME NEW g \in Signals, NEW to \in CreatableSignalStatuses, CreateSignal(g, to)
      PROVE  BaseInv'
  BY <1>7, TableFacts DEF TypeOK, Ownership, Held, CreateSignal, accountVars, sessionVars
<1>8. ASSUME NEW g \in Signals, NEW to \in SignalStatuses, DecideSignal(g, to)
      PROVE  BaseInv'
  BY <1>8 DEF TypeOK, Ownership, Held, DecideSignal, accountVars, sessionVars
<1>9. ASSUME NEW r \in Requests, RefuseWithOrder(r)
      PROVE  BaseInv'
  <2>1. PICK o \in Orders : CreateOrder(o, Order(r, "rejected")) /\ RecordDecision(r, FALSE, o)
    BY <1>9 DEF RefuseWithOrder
  <2>2. /\ orders' \in [Orders -> OrderRows]
        /\ decisions' \in Seq(DecisionRows)
    BY <1>9, <2>1, OrderType, CreateOrderType, DecisionType DEF RefuseWithOrder, TypeOK
  <2>3. QED
    BY <1>9, <2>2 DEF RefuseWithOrder, TypeOK, Ownership, Held, accountVars, sessionVars
<1>10. ASSUME NEW r \in Requests, RefuseWithoutOrder(r)
       PROVE  BaseInv'
  <2>1. decisions' \in Seq(DecisionRows)
    BY <1>10, DecisionType DEF RefuseWithoutOrder
  <2>2. QED
    BY <1>10, <2>1 DEF RefuseWithoutOrder, TypeOK, Ownership, Held, accountVars, sessionVars
<1>11. ASSUME NEW r \in Requests, ExecuteOpen(r)
       PROVE  BaseInv'
  <2>0. Submitted(r) /\ r.symbol \in Symbols
    BY <1>11 DEF ExecuteOpen, Requests
  <2>1. PICK o \in Orders, p \in Positions :
          /\ CreateOrder(o, Order(r, "filled"))
          /\ Unused(p, positions)
          /\ positions' = [positions EXCEPT ![p] =
                             [status |-> "open", account |-> AccountOf(r),
                              session |-> r.session, symbol |-> r.symbol,
                              signal |-> r.signal, order |-> o]]
          /\ RecordDecision(r, TRUE, o)
    BY <1>11 DEF ExecuteOpen
  <2>2. /\ orders' \in [Orders -> OrderRows]
        /\ decisions' \in Seq(DecisionRows)
    BY <2>0, <2>1, OrderType, CreateOrderType, DecisionType DEF TypeOK
  <2>3. positions' \in [Positions -> PositionRows]
    BY <2>0, <2>1, OrderType, TableFacts DEF TypeOK, PositionRows
  <2>4. balance' \in [Accounts -> Nat]
    BY <1>11, <2>0, OrderType, NoneIsFresh, RealizeType DEF ExecuteOpen, TypeOK
  <2>5. signalStatus' \in [Signals -> SignalStatuses]
    BY <1>11, <2>0, OrderType, MarkType DEF ExecuteOpen, TypeOK
  <2>6. Ownership'
    <3>1. /\ positions[p].status = "none" /\ UNCHANGED <<sessionVars, sweep>>
          /\ sessionStatus[r.session] # "none" /\ r.session \in Sessions
      BY <1>11, <2>0, <2>1, OrderType DEF ExecuteOpen, Submitted, Unused
    <3>2. /\ positions'[p].account = AccountOf(r) /\ positions'[p].session = r.session
          /\ \A q \in Positions \ {p} : positions'[q] = positions[q]
      BY <2>1 DEF TypeOK
    <3>3. \A q \in Positions : positions'[q].status # "none" => Held(q)'
      BY <2>0, <3>1, <3>2, OrderType DEF Ownership, Held, AccountOf, sessionVars
    <3>4. sweep.left \subseteq Positions \ {p}
      BY <3>1 DEF Ownership, TypeOK, Sweeps
    <3>5. QED
      BY <3>1, <3>2, <3>3, <3>4 DEF Ownership, sessionVars
  <2>7. QED
    BY <1>11, <2>2, <2>3, <2>4, <2>5, <2>6 DEF ExecuteOpen, TypeOK, accountVars, sessionVars
<1>12. ASSUME NEW r \in Requests, ExecuteClose(r)
       PROVE  BaseInv'
  <2>0. Submitted(r) /\ UNCHANGED <<accountVars, sessionVars, sweep>>
    BY <1>12 DEF ExecuteClose
  <2>1. PICK p \in Positions, gross \in GrossPnls : OwnClose(p, r.session, gross)
    BY <1>12, RequestCloses
  <2>2. PICK o \in Orders : /\ CreateOrder(o, Order(r, "filled"))
                            /\ RecordDecision(r, TRUE, o)
    BY <1>12 DEF ExecuteClose
  <2>3. /\ orders' \in [Orders -> OrderRows]
        /\ decisions' \in Seq(DecisionRows)
    BY <2>0, <2>2, OrderType, CreateOrderType, DecisionType DEF TypeOK
  <2>4. signalStatus' \in [Signals -> SignalStatuses]
    BY <1>12, <2>0, OrderType, MarkType DEF ExecuteClose, TypeOK
  <2>5. r.session \in Sessions
    BY <2>0, OrderType
  <2>6. Ownership'
    BY <2>0, <2>1, <2>5, BookCloseOwnership DEF Narrowed
  <2>7. QED
    BY <2>0, <2>1, <2>3, <2>4, <2>5, <2>6, BookCloseType DEF TypeOK, accountVars, sessionVars
<1>13. ASSUME NEW r \in Requests, CloseNothing(r)
       PROVE  BaseInv'
  <2>1. PICK o \in Orders : CreateOrder(o, Order(r, "rejected")) /\ RecordDecision(r, TRUE, o)
    BY <1>13 DEF CloseNothing
  <2>2. /\ orders' \in [Orders -> OrderRows]
        /\ decisions' \in Seq(DecisionRows)
    BY <1>13, <2>1, OrderType, CreateOrderType, DecisionType DEF CloseNothing, TypeOK
  <2>3. QED
    BY <1>13, <2>2 DEF CloseNothing, TypeOK, Ownership, Held, accountVars, sessionVars
<1>14. ASSUME NEW r \in Requests, CloseMismatch(r)
       PROVE  BaseInv'
  <2>1. decisions' \in Seq(DecisionRows)
    BY <1>14, DecisionType DEF CloseMismatch
  <2>2. QED
    BY <1>14, <2>1 DEF CloseMismatch, TypeOK, Ownership, Held, accountVars, sessionVars
<1>15. ASSUME NEW p \in Positions, SweepCloses(p)
       PROVE  BaseInv'
  <2>0. sweep.session \in Sessions \cup {None}
    BY DEF TypeOK, Sweeps
  <2>1. PICK gross \in GrossPnls : OwnClose(p, sweep.session, gross)
    BY <1>15, ClosesAreOwn DEF SweepCloses
  <2>2. PICK o \in Orders : CreateOrder(o, Exit(p, sweep.session))
    BY <1>15 DEF SweepCloses
  <2>3. orders' \in [Orders -> OrderRows]
    BY <2>0, <2>2, ExitType, CreateOrderType DEF TypeOK
  <2>4. sweep' \in Sweeps /\ Narrowed
    BY <1>15, SweepType DEF SweepCloses, TypeOK
  <2>5. Ownership'
    BY <1>15, <2>0, <2>1, <2>4, BookCloseOwnership DEF SweepCloses
  <2>6. QED
    BY <1>15, <2>0, <2>1, <2>3, <2>4, <2>5, BookCloseType
    DEF SweepCloses, TypeOK, accountVars, sessionVars
<1>16. ASSUME NEW p \in Positions, SweepPasses(p)
       PROVE  BaseInv'
  <2>1. sweep' \in Sweeps /\ Narrowed
    BY <1>16, SweepType DEF SweepPasses, TypeOK
  <2>2. Ownership'
    BY <1>16, <2>1 DEF SweepPasses, TypeOK, Ownership, Held, sessionVars, Narrowed, Sweeps
  <2>3. QED
    BY <1>16, <2>1, <2>2 DEF SweepPasses, TypeOK, accountVars, sessionVars
<1>17. CASE UNCHANGED vars
  BY <1>17 DEF TypeOK, Ownership, Held, vars
<1>18. QED
  BY <1>1, <1>2, <1>3, <1>4, <1>5, <1>6, <1>7, <1>8, <1>9, <1>10, <1>11, <1>12,
     <1>13, <1>14, <1>15, <1>16, <1>17 DEF Next

(* The initial rows are well typed and owned. *)
LEMMA BaseInvInit == Init => BaseInv
<1> SUFFICES ASSUME Init PROVE BaseInv
  OBVIOUS
<1>1. NoOrder \in OrderRows /\ NoPosition \in PositionRows /\ NoSweep \in Sweeps
  <2>1. "none" \in OrderStatuses /\ "none" \in PositionStatuses
    BY TableFacts
  <2>2. QED
    BY <2>1 DEF NoOrder, NoPosition, NoSweep, OrderRows, PositionRows, Sweeps
<1>2. TypeOK
  BY <1>1, TableFacts, NoneIsFresh DEF Init, TypeOK
<1>3. Ownership
  BY DEF Init, Ownership, Held, NoPosition, NoSweep
<1>4. QED
  BY <1>2, <1>3 DEF BaseInv

(* Every row of every table keeps its type, for every value of the constants. *)
THEOREM TypeCorrect == Spec => []TypeOK
<1>1. BaseInv /\ [Next]_vars => BaseInv'
  BY BaseInvStep
<1>2. BaseInv => TypeOK
  BY DEF BaseInv
<1>3. QED
  BY BaseInvInit, <1>1, <1>2, PTL DEF Spec

(* Types and ownership together: an open position always has an account, and *)
(* a created session always has one.                                         *)
THEOREM BaseCorrect == Spec => []BaseInv
<1>1. BaseInv /\ [Next]_vars => BaseInv'
  BY BaseInvStep
<1>2. QED
  BY BaseInvInit, <1>1, PTL DEF Spec

-----------------------------------------------------------------------------
(***************************************************************************)
(* Seen from the books a step has one of five shapes.                      *)
(***************************************************************************)

(* Nothing is booked and no signal becomes or stops being executed. *)
Quiet ==
  /\ UNCHANGED <<balance, orders, positions, trades, decisions>>
  /\ \A g \in Signals : signalStatus'[g] = "executed" <=> signalStatus[g] = "executed"
  /\ \A s \in Sessions :
       sessionStatus[s] # "none" => /\ sessionStatus'[s] # "none"
                                    /\ sessionAccount'[s] = sessionAccount[s]

(* A request that trades nothing leaves a decision and perhaps a rejected order. *)
Turned(r) ==
  /\ Submitted(r)
  /\ \/ \E o \in Orders, allowed \in BOOLEAN :
          /\ CreateOrder(o, Order(r, "rejected"))
          /\ RecordDecision(r, allowed, o)
     \/ /\ UNCHANGED orders
        /\ \E allowed \in BOOLEAN : RecordDecision(r, allowed, None)
  /\ UNCHANGED <<balance, sessionVars, signalStatus, positions, trades>>

(* The service writes an exit order of its own and closes the position. *)
Exits(p, s) ==
  /\ s # None => \/ positions[p].session = s
                 \/ s = sweep.session /\ p \in sweep.left
  /\ \E gross \in GrossPnls : OwnClose(p, s, gross)
  /\ \E o \in Orders : CreateOrder(o, Exit(p, s))
  /\ UNCHANGED <<sessionVars, signalStatus, decisions>>

(* What each step does to signals, orders, positions and trades at once. *)
LEMMA StepShapes ==
  ASSUME BaseInv, [Next]_vars
  PROVE  \/ Quiet
         \/ \E r \in Requests : Turned(r) \/ ExecuteOpen(r) \/ ExecuteClose(r)
         \/ \E p \in Positions, s \in Sessions \cup {None} : Exits(p, s)
<1>1. ASSUME NEW a \in Accounts, NEW to \in {"active", "suspended"},
             SetAccountStatus(a, to)
      PROVE  Quiet
  BY <1>1 DEF SetAccountStatus, Quiet, sessionVars
<1>2. ASSUME NEW a \in Accounts, NEW to \in {"auto_trade", "signal_only"},
             SetExecutionMode(a, to)
      PROVE  Quiet
  BY <1>2 DEF SetExecutionMode, Quiet, sessionVars
<1>3. ASSUME NEW a \in Accounts, NEW s \in Sessions, OpenSession(s, a)
      PROVE  Quiet
  BY <1>3 DEF OpenSession, Quiet, BaseInv, TypeOK
<1>4. ASSUME NEW a \in Accounts, NEW kind \in {"bar", "flatten"},
             NEW symbol \in Symbols, NEW s \in Sessions \cup {None},
             StartSweep(kind, a, symbol, s)
      PROVE  Quiet
  BY <1>4 DEF StartSweep, Quiet, sessionVars
<1>5. ASSUME NEW s \in Sessions, NEW command \in DOMAIN SessionCommands,
             CommandSession(s, command)
      PROVE  Quiet
  BY <1>5, TableFacts DEF CommandSession, Quiet, BaseInv, TypeOK
<1>6. ASSUME NEW s \in Sessions, NEW p \in Positions, ClosePosition(s, p)
      PROVE  Exits(p, s)
  BY <1>6, ClosesAreOwn DEF ClosePosition, Exits
<1>7. ASSUME NEW g \in Signals, NEW to \in CreatableSignalStatuses, CreateSignal(g, to)
      PROVE  Quiet
  BY <1>7, TableFacts DEF CreateSignal, Quiet, BaseInv, TypeOK, sessionVars
<1>8. ASSUME NEW g \in Signals, NEW to \in SignalStatuses, DecideSignal(g, to)
      PROVE  Quiet
  BY <1>8, TableFacts DEF DecideSignal, Quiet, BaseInv, TypeOK, sessionVars
<1>9. ASSUME NEW r \in Requests, RefuseWithOrder(r)
      PROVE  Turned(r)
  BY <1>9 DEF RefuseWithOrder, Turned
<1>10. ASSUME NEW r \in Requests, RefuseWithoutOrder(r)
       PROVE  Turned(r)
  BY <1>10 DEF RefuseWithoutOrder, Turned
<1>11. ASSUME NEW r \in Requests, CloseNothing(r)
       PROVE  Turned(r)
  BY <1>11 DEF CloseNothing, Turned
<1>12. ASSUME NEW r \in Requests, CloseMismatch(r)
       PROVE  Turned(r)
  BY <1>12 DEF CloseMismatch, Turned
<1>13. ASSUME NEW p \in Positions, SweepCloses(p)
       PROVE  sweep.session \in Sessions \cup {None} /\ Exits(p, sweep.session)
  BY <1>13, ClosesAreOwn DEF SweepCloses, Exits, BaseInv, TypeOK, Sweeps
<1>14. ASSUME NEW p \in Positions, SweepPasses(p)
       PROVE  Quiet
  BY <1>14 DEF SweepPasses, Quiet, sessionVars
<1>15. CASE UNCHANGED vars
  BY <1>15 DEF vars, Quiet
<1>16. QED
  BY <1>1, <1>2, <1>3, <1>4, <1>5, <1>6, <1>7, <1>8, <1>9, <1>10, <1>11, <1>12,
     <1>13, <1>14, <1>15 DEF Next

-----------------------------------------------------------------------------
(***************************************************************************)
(* A signal pays for one fill.                                             *)
(***************************************************************************)

(* Writing order o changes the fills of a signal by at most o. *)
LEMMA FillsAfterCreate ==
  ASSUME BaseInv, NEW o \in Orders, NEW row \in OrderRows, CreateOrder(o, row),
         NEW g \in Signals
  PROVE  /\ o \notin FillsOf(g)
         /\ FillsOf(g)' = IF row.signal = g /\ row.status = "filled" /\ row.kind # "exit"
                            THEN FillsOf(g) \cup {o} ELSE FillsOf(g)
BY CreateOrderType DEF FillsOf, BaseInv, TypeOK

(* A step that writes no order leaves the fills of every signal alone. *)
LEMMA FillsUnchanged ==
  ASSUME UNCHANGED orders, NEW g \in Signals
  PROVE  FillsOf(g)' = FillsOf(g)
BY DEF FillsOf

FillsOnce ==
  \A g \in Signals :
    /\ signalStatus[g] = "executed" <=> FillsOf(g) # {}
    /\ \A o, q \in FillsOf(g) : o = q

(* A request the gate allowed spends an approved signal on its one fill. *)
LEMMA AllowedSpends ==
  ASSUME BaseInv, FillsOnce, NEW r \in Requests, Submitted(r), Allowed(r),
         NEW o \in Orders, CreateOrder(o, Order(r, "filled")), MarkExecuted(r.signal)
  PROVE  FillsOnce'
<1>1. ASSUME NEW g \in Signals
      PROVE  /\ signalStatus'[g] = "executed" <=> FillsOf(g)' # {}
             /\ \A q, u \in FillsOf(g)' : q = u
  <2>1. /\ o \notin FillsOf(g)
        /\ FillsOf(g)' = IF r.signal = g THEN FillsOf(g) \cup {o} ELSE FillsOf(g)
    <3>1. /\ Order(r, "filled") \in OrderRows
          /\ Order(r, "filled").status = "filled"
          /\ Order(r, "filled").kind # "exit"
          /\ Order(r, "filled").signal = r.signal
      BY OrderType
    <3>2. QED
      BY <3>1, FillsAfterCreate
  <2>2. /\ signalStatus[g] = "executed" <=> FillsOf(g) # {}
        /\ \A q, u \in FillsOf(g) : q = u
    BY DEF FillsOnce
  <2>3. CASE r.signal = g
    <3>1. r.signal # None
      BY <2>3, NoneIsFresh
    <3>2. /\ signalStatus' = [signalStatus EXCEPT ![g] = "executed"]
          /\ "executed" \in SignalTransitions[signalStatus[g]]
      BY <2>3, <3>1 DEF MarkExecuted
    <3>3. signalStatus'[g] = "executed" /\ signalStatus[g] = "approved"
      BY <3>2, TableFacts DEF BaseInv, TypeOK
    <3>4. QED
      BY <2>1, <2>2, <2>3, <3>3
  <2>4. CASE r.signal # g
    <3>1. signalStatus'[g] = signalStatus[g]
      BY <2>4 DEF MarkExecuted, BaseInv, TypeOK
    <3>2. QED
      BY <2>1, <2>2, <2>4, <3>1
  <2>5. QED
    BY <2>3, <2>4
<1>2. QED
  BY <1>1 DEF FillsOnce

(* Every step keeps a signal spent exactly when it paid for one fill. *)
LEMMA FillsOnceStep ==
  ASSUME BaseInv, FillsOnce, [Next]_vars
  PROVE  FillsOnce'
<1>1. CASE Quiet
  BY <1>1, FillsUnchanged DEF Quiet, FillsOnce
<1>2. ASSUME NEW r \in Requests, Turned(r)
      PROVE  FillsOnce'
  <2>1. \A g \in Signals : FillsOf(g)' = FillsOf(g)
    <3>1. CASE UNCHANGED orders
      BY <3>1, FillsUnchanged
    <3>2. ASSUME NEW o \in Orders, CreateOrder(o, Order(r, "rejected"))
          PROVE  \A g \in Signals : FillsOf(g)' = FillsOf(g)
      <4>1. /\ Order(r, "rejected") \in OrderRows
            /\ Order(r, "rejected").status # "filled"
        BY <1>2, OrderType DEF Turned
      <4>2. QED
        BY <3>2, <4>1, FillsAfterCreate
    <3>3. QED
      BY <1>2, <3>1, <3>2 DEF Turned
  <2>2. QED
    BY <1>2, <2>1 DEF Turned, FillsOnce
<1>3. ASSUME NEW r \in Requests, ExecuteOpen(r)
      PROVE  FillsOnce'
  BY <1>3, AllowedSpends DEF ExecuteOpen
<1>4. ASSUME NEW r \in Requests, ExecuteClose(r)
      PROVE  FillsOnce'
  BY <1>4, AllowedSpends DEF ExecuteClose
<1>5. ASSUME NEW p \in Positions, NEW s \in Sessions \cup {None}, Exits(p, s)
      PROVE  FillsOnce'
  <2>1. PICK o \in Orders : CreateOrder(o, Exit(p, s))
    BY <1>5 DEF Exits
  <2>2. \A g \in Signals : FillsOf(g)' = FillsOf(g)
    BY <2>1, ExitType, FillsAfterCreate
  <2>3. QED
    BY <1>5, <2>2 DEF Exits, FillsOnce
<1>6. QED
  BY <1>1, <1>2, <1>3, <1>4, <1>5, StepShapes

(* A signal that an order or a position names has been executed, unless the   *)
(* order was turned away.                                                     *)
NamedAreSpent ==
  /\ \A o \in Orders :
       orders[o].signal # None /\ orders[o].status \notin NonBlockingOrderStatuses
         => signalStatus[orders[o].signal] = "executed"
  /\ \A p \in Positions :
       positions[p].status # "none" /\ positions[p].signal # None
         => signalStatus[positions[p].signal] = "executed"

(* No step takes an executed signal back. *)
LEMMA ExecutedStays ==
  ASSUME BaseInv, [Next]_vars, NEW g \in Signals, signalStatus[g] = "executed"
  PROVE  signalStatus'[g] = "executed"
<1>1. CASE Quiet
  BY <1>1 DEF Quiet
<1>2. ASSUME NEW r \in Requests, Turned(r)
      PROVE  signalStatus'[g] = "executed"
  BY <1>2 DEF Turned
<1>3. ASSUME NEW r \in Requests, MarkExecuted(r.signal)
      PROVE  signalStatus'[g] = "executed"
  BY <1>3 DEF MarkExecuted, BaseInv, TypeOK
<1>4. ASSUME NEW p \in Positions, NEW s \in Sessions \cup {None}, Exits(p, s)
      PROVE  signalStatus'[g] = "executed"
  BY <1>4 DEF Exits
<1>5. QED
  BY <1>1, <1>2, <1>3, <1>4, StepShapes DEF ExecuteOpen, ExecuteClose

(* Every step keeps what orders and positions name executed. *)
LEMMA NamedAreSpentStep ==
  ASSUME BaseInv, NamedAreSpent, [Next]_vars
  PROVE  NamedAreSpent'
<1>1. /\ \A o \in Orders : orders[o].signal \in Signals \cup {None}
      /\ \A p \in Positions : positions[p].signal \in Signals \cup {None}
  <2>1. /\ \A o \in Orders : orders[o] \in OrderRows
        /\ \A p \in Positions : positions[p] \in PositionRows
    BY DEF BaseInv, TypeOK
  <2>2. QED
    BY <2>1 DEF OrderRows, PositionRows
<1>2. ASSUME UNCHANGED orders
      PROVE  \A o \in Orders :
               orders'[o].signal # None /\ orders'[o].status \notin NonBlockingOrderStatuses
                 => signalStatus'[orders'[o].signal] = "executed"
  BY <1>1, <1>2, ExecutedStays DEF NamedAreSpent
<1>3. ASSUME NEW o \in Orders, NEW row \in OrderRows, CreateOrder(o, row),
             row.signal # None /\ row.status \notin NonBlockingOrderStatuses
               => signalStatus'[row.signal] = "executed"
      PROVE  \A q \in Orders :
               orders'[q].signal # None /\ orders'[q].status \notin NonBlockingOrderStatuses
                 => signalStatus'[orders'[q].signal] = "executed"
  <2>1. orders'[o] = row /\ \A q \in Orders \ {o} : orders'[q] = orders[q]
    BY <1>3, CreateOrderType DEF BaseInv, TypeOK
  <2>2. QED
    BY <1>1, <1>3, <2>1, ExecutedStays DEF NamedAreSpent
<1>4. ASSUME \A p \in Positions : /\ positions'[p].signal = positions[p].signal
                                  /\ positions'[p].status # "none" => positions[p].status # "none"
      PROVE  \A p \in Positions :
               positions'[p].status # "none" /\ positions'[p].signal # None
                 => signalStatus'[positions'[p].signal] = "executed"
  <2> SUFFICES ASSUME NEW p \in Positions,
                      positions'[p].status # "none", positions'[p].signal # None
               PROVE  signalStatus'[positions'[p].signal] = "executed"
    OBVIOUS
  <2>1. positions'[p].signal = positions[p].signal /\ positions[p].status # "none"
    BY <1>4
  <2>2. positions[p].signal \in Signals /\ signalStatus[positions[p].signal] = "executed"
    BY <1>1, <2>1 DEF NamedAreSpent
  <2>3. QED
    BY <2>1, <2>2, ExecutedStays
<1>5. ASSUME NEW p \in Positions, NEW s \in Sessions \cup {None},
             NEW gross \in GrossPnls, OwnClose(p, s, gross)
      PROVE  \A q \in Positions : /\ positions'[q].signal = positions[q].signal
                                  /\ positions'[q].status # "none" => positions[q].status # "none"
  <2>1. positions[p] \in PositionRows /\ positions[p].status = "open"
    BY <1>5 DEF BaseInv, TypeOK, OwnClose, BookClose
  <2>2. positions'[p].signal = positions[p].signal
    BY <1>5, <2>1, BookCloseType DEF PositionRows
  <2>3. QED
    BY <1>5, <2>1, <2>2, BookCloseType
<1>6. CASE Quiet
  BY <1>2, <1>4, <1>6 DEF Quiet, NamedAreSpent
<1>7. ASSUME NEW r \in Requests, Turned(r)
      PROVE  NamedAreSpent'
  <2>1. /\ Order(r, "rejected") \in OrderRows
        /\ Order(r, "rejected").status \in NonBlockingOrderStatuses
    BY <1>7, OrderType DEF Turned, NonBlockingOrderStatuses
  <2>2. UNCHANGED orders \/ \E o \in Orders : CreateOrder(o, Order(r, "rejected"))
    BY <1>7 DEF Turned
  <2>3. QED
    BY <1>2, <1>3, <1>4, <1>7, <2>1, <2>2 DEF Turned, NamedAreSpent
<1>8. ASSUME NEW r \in Requests, Submitted(r), MarkExecuted(r.signal)
      PROVE  /\ Order(r, "filled") \in OrderRows
             /\ r.signal # None => signalStatus'[r.signal] = "executed"
             /\ Order(r, "filled").signal = r.signal
  BY <1>8, OrderType DEF MarkExecuted, BaseInv, TypeOK
<1>9. ASSUME NEW r \in Requests, ExecuteOpen(r)
      PROVE  NamedAreSpent'
  <2>1. PICK o \in Orders, p \in Positions :
          /\ CreateOrder(o, Order(r, "filled"))
          /\ positions' = [positions EXCEPT ![p] =
                             [status |-> "open", account |-> AccountOf(r),
                              session |-> r.session, symbol |-> r.symbol,
                              signal |-> r.signal, order |-> o]]
    BY <1>9 DEF ExecuteOpen
  <2>2. Submitted(r) /\ MarkExecuted(r.signal)
    BY <1>9 DEF ExecuteOpen
  <2>3. /\ positions'[p].signal = r.signal
        /\ \A q \in Positions \ {p} : positions'[q] = positions[q]
    BY <2>1 DEF BaseInv, TypeOK
  <2>4. \A q \in Positions :
          positions'[q].status # "none" /\ positions'[q].signal # None
            => signalStatus'[positions'[q].signal] = "executed"
    BY <1>1, <1>8, <2>2, <2>3, ExecutedStays DEF NamedAreSpent
  <2>5. QED
    BY <1>3, <1>8, <2>1, <2>2, <2>4 DEF NamedAreSpent
<1>10. ASSUME NEW r \in Requests, ExecuteClose(r)
       PROVE  NamedAreSpent'
  <2>1. PICK p \in Positions, gross \in GrossPnls : OwnClose(p, r.session, gross)
    BY <1>10, RequestCloses
  <2>2. PICK o \in Orders : CreateOrder(o, Order(r, "filled"))
    BY <1>10 DEF ExecuteClose
  <2>3. Submitted(r) /\ MarkExecuted(r.signal) /\ r.session \in Sessions
    BY <1>10 DEF ExecuteClose, Requests
  <2>4. QED
    BY <1>3, <1>4, <1>5, <1>8, <2>1, <2>2, <2>3 DEF NamedAreSpent
<1>11. ASSUME NEW p \in Positions, NEW s \in Sessions \cup {None}, Exits(p, s)
       PROVE  NamedAreSpent'
  <2>1. PICK gross \in GrossPnls : OwnClose(p, s, gross)
    BY <1>11 DEF Exits
  <2>2. PICK o \in Orders : CreateOrder(o, Exit(p, s))
    BY <1>11 DEF Exits
  <2>3. positions[p].status = "open" /\ Exit(p, s).signal = positions[p].signal
    BY <2>1 DEF OwnClose, BookClose, Exit
  <2>4. Exit(p, s).signal # None => signalStatus'[Exit(p, s).signal] = "executed"
    BY <1>1, <2>3, ExecutedStays DEF NamedAreSpent
  <2>5. QED
    BY <1>3, <1>4, <1>5, <2>1, <2>2, <2>4, ExitType DEF NamedAreSpent
<1>12. QED
  BY <1>6, <1>7, <1>9, <1>10, <1>11, StepShapes

(* No retry, no closed position and no second account lets a signal pay for a *)
(* second fill, a signal counts as executed exactly when it paid for one, and *)
(* no order of an attempt that failed stands in the way of an approved one.   *)
THEOREM SignalsPayOnce == Spec => []SignalConsumedOnce
<1>1. Init => FillsOnce
  BY NoneIsFresh DEF Init, FillsOnce, FillsOf, NoOrder
<1>2. BaseInv /\ FillsOnce /\ [Next]_vars => FillsOnce'
  BY FillsOnceStep
<1>3. Init => NamedAreSpent
  BY DEF Init, NamedAreSpent, NoOrder, NoPosition
<1>4. BaseInv /\ NamedAreSpent /\ [Next]_vars => NamedAreSpent'
  BY NamedAreSpentStep
<1>5. FillsOnce /\ NamedAreSpent => SignalConsumedOnce
  <2>1. SUFFICES ASSUME FillsOnce, NamedAreSpent, NEW g \in Signals,
                        signalStatus[g] = "approved", NEW a \in Accounts
                 PROVE  ~HasExecution(a, g)
    BY DEF FillsOnce, SignalConsumedOnce
  <2>2. QED
    BY <2>1, NoneIsFresh DEF NamedAreSpent, HasExecution
<1>6. QED
  BY <1>1, <1>2, <1>3, <1>4, <1>5, BaseCorrect, PTL DEF Spec

-----------------------------------------------------------------------------
(***************************************************************************)
(* Trades and positions are in step.                                       *)
(***************************************************************************)

(* A step that books no trade leaves the trades of every position alone. *)
LEMMA TradesUnchanged ==
  ASSUME UNCHANGED trades, NEW p \in Positions
  PROVE  TradesOf(p)' = TradesOf(p)
BY DEF TradesOf

(* A close appends exactly one trade, for the position it closes. *)
LEMMA TradesAfterClose ==
  ASSUME BaseInv, NEW p \in Positions, NEW s \in Sessions \cup {None},
         NEW gross \in GrossPnls, OwnClose(p, s, gross)
  PROVE  /\ Len(trades') = Len(trades) + 1
         /\ \A i \in 1..Len(trades) : trades'[i] = trades[i]
         /\ trades'[Len(trades) + 1].position = p
         /\ trades'[Len(trades) + 1].account = positions[p].account
         /\ trades'[Len(trades) + 1].session = s
         /\ trades'[Len(trades) + 1].net = gross - Commission
         /\ TradesOf(p)' = TradesOf(p) \cup {Len(trades) + 1}
         /\ \A q \in Positions \ {p} : TradesOf(q)' = TradesOf(q)
<1> DEFINE trade == [position |-> p, account |-> positions[p].account,
                     session |-> s, net |-> gross - Commission,
                     balanceAfter |-> balance'[positions[p].account]]
<1>1. trades \in Seq(TradeRows) /\ trades' = Append(trades, trade)
  BY DEF OwnClose, BookClose, BaseInv, TypeOK
<1>2. trades' \in Seq(TradeRows)
  BY BookCloseType
<1>3. /\ Len(trades') = Len(trades) + 1
      /\ \A i \in 1..Len(trades) : trades'[i] = trades[i]
      /\ trades'[Len(trades) + 1] = trade
      /\ DOMAIN trades = 1..Len(trades) /\ DOMAIN trades' = 1..(Len(trades) + 1)
      /\ Len(trades) \in Nat
  BY <1>1, <1>2
<1>4. \A q \in Positions :
        TradesOf(q)' = TradesOf(q) \cup IF q = p THEN {Len(trades) + 1} ELSE {}
  <2> SUFFICES ASSUME NEW q \in Positions
               PROVE  TradesOf(q)' = TradesOf(q) \cup IF q = p THEN {Len(trades) + 1} ELSE {}
    OBVIOUS
  <2>1. trade.position = p
    OBVIOUS
  <2>2. \A i \in 1..(Len(trades) + 1) : i \in 1..Len(trades) \/ i = Len(trades) + 1
    BY <1>3
  <2>3. QED
    <3> HIDE DEF trade
    <3>1. /\ TradesOf(q) = {i \in 1..Len(trades) : trades[i].position = q}
          /\ TradesOf(q)' = {i \in 1..(Len(trades) + 1) : trades'[i].position = q}
      BY <1>3 DEF TradesOf
    <3>2. 1..Len(trades) \subseteq 1..(Len(trades) + 1)
          /\ Len(trades) + 1 \in 1..(Len(trades) + 1)
      BY <1>3
    <3>3. \A i \in 1..Len(trades) : trades'[i].position = trades[i].position
      BY <1>3
    <3>4. trades'[Len(trades) + 1].position = p
      BY <1>3, <2>1
    <3>5. QED
      BY <2>2, <3>1, <3>2, <3>3, <3>4
<1>5. /\ trade.position = p /\ trade.account = positions[p].account /\ trade.session = s
      /\ trade.net = gross - Commission
  OBVIOUS
<1>6. QED
  <2> HIDE DEF trade
  <2>1. /\ TradesOf(p)' = TradesOf(p) \cup {Len(trades) + 1}
        /\ \A q \in Positions \ {p} : TradesOf(q)' = TradesOf(q)
    BY <1>4
  <2>2. /\ trades'[Len(trades) + 1].position = p
        /\ trades'[Len(trades) + 1].account = positions[p].account
        /\ trades'[Len(trades) + 1].session = s
        /\ trades'[Len(trades) + 1].net = gross - Commission
    BY <1>3, <1>5
  <2>3. QED
    BY <1>3, <2>1, <2>2

(* A close books the one trade of the position it closes. *)
LEMMA CloseKeepsBooks ==
  ASSUME BaseInv, BookedOnce, NEW p \in Positions, NEW s \in Sessions \cup {None},
         NEW gross \in GrossPnls, OwnClose(p, s, gross)
  PROVE  BookedOnce'
<1>1. /\ positions[p] \in PositionRows /\ positions[p].status = "open"
      /\ positions' = [positions EXCEPT ![p].status = "closed"]
      /\ Len(trades) \in Nat /\ trades \in Seq(TradeRows)
  BY DEF OwnClose, BookClose, BaseInv, TypeOK
<1>2. /\ positions'[p].status = "closed"
      /\ positions'[p].account = positions[p].account
  BY <1>1 DEF BaseInv, TypeOK, PositionRows
<1>3. TradesOf(p) = {} /\ TradesOf(p)' = {Len(trades) + 1}
  BY <1>1, TradesAfterClose DEF BookedOnce
<1>4. ASSUME NEW q \in Positions \ {p}
      PROVE  /\ TradesOf(q)' = TradesOf(q) /\ positions'[q] = positions[q]
             /\ \A i \in TradesOf(q) : trades'[i] = trades[i]
  <2>1. TradesOf(q) \subseteq 1..Len(trades)
    BY <1>1 DEF TradesOf
  <2>2. QED
    BY <2>1, TradesAfterClose, BookCloseType
<1>5. ASSUME NEW q \in Positions
      PROVE  /\ positions'[q].status = "closed" <=> TradesOf(q)' # {}
             /\ \A i, j \in TradesOf(q)' : i = j
             /\ \A i \in TradesOf(q)' : trades'[i].account = positions'[q].account
  <2>1. CASE q = p
    BY <1>2, <1>3, <2>1, TradesAfterClose
  <2>2. CASE q # p
    BY <1>4, <2>2 DEF BookedOnce
  <2>3. QED
    BY <2>1, <2>2
<1>6. QED
  BY <1>5 DEF BookedOnce

(* Every step keeps positions and trades in step. *)
LEMMA BookedOnceStep ==
  ASSUME BaseInv, BookedOnce, [Next]_vars
  PROVE  BookedOnce'
<1>1. ASSUME UNCHANGED <<positions, trades>>
      PROVE  BookedOnce'
  BY <1>1, TradesUnchanged DEF BookedOnce
<1>2. ASSUME NEW r \in Requests, ExecuteOpen(r)
      PROVE  BookedOnce'
  <2>1. PICK o \in Orders, p \in Positions :
          /\ Unused(p, positions)
          /\ positions' = [positions EXCEPT ![p] =
                             [status |-> "open", account |-> AccountOf(r),
                              session |-> r.session, symbol |-> r.symbol,
                              signal |-> r.signal, order |-> o]]
    BY <1>2 DEF ExecuteOpen
  <2>2. /\ positions[p].status = "none" /\ positions'[p].status = "open"
        /\ \A q \in Positions \ {p} : positions'[q] = positions[q]
    BY <2>1 DEF Unused, BaseInv, TypeOK
  <2>3. trades' = trades /\ \A q \in Positions : TradesOf(q)' = TradesOf(q)
    BY <1>2, TradesUnchanged DEF ExecuteOpen
  <2>4. TradesOf(p) = {}
    BY <2>2 DEF BookedOnce
  <2>5. ASSUME NEW q \in Positions
        PROVE  /\ positions'[q].status = "closed" <=> TradesOf(q)' # {}
               /\ \A i, j \in TradesOf(q)' : i = j
               /\ \A i \in TradesOf(q)' : trades'[i].account = positions'[q].account
    BY <2>2, <2>3, <2>4 DEF BookedOnce
  <2>6. QED
    BY <2>5 DEF BookedOnce
<1>3. ASSUME NEW r \in Requests, ExecuteClose(r)
      PROVE  BookedOnce'
  <2>1. PICK p \in Positions, gross \in GrossPnls : OwnClose(p, r.session, gross)
    BY <1>3, RequestCloses
  <2>2. r.session \in Sessions
    BY DEF Requests
  <2>3. QED
    BY <2>1, <2>2, CloseKeepsBooks
<1>4. ASSUME NEW p \in Positions, NEW s \in Sessions \cup {None}, Exits(p, s)
      PROVE  BookedOnce'
  BY <1>4, CloseKeepsBooks DEF Exits
<1>5. QED
  BY <1>1, <1>2, <1>3, <1>4, StepShapes DEF Quiet, Turned

(* However positions are closed -- by an order, the close endpoint, a bar or  *)
(* a flatten -- each one is booked as one trade on the account that held it.  *)
THEOREM ClosesAreBookedOnce == Spec => []BookedOnce
<1>1. Init => BookedOnce
  BY DEF Init, BookedOnce, TradesOf, NoPosition
<1>2. BaseInv /\ BookedOnce /\ [Next]_vars => BookedOnce'
  BY BookedOnceStep
<1>3. QED
  BY <1>1, <1>2, BaseCorrect, PTL DEF Spec

-----------------------------------------------------------------------------
(***************************************************************************)
(* Activity stays on the account of its session.                           *)
(***************************************************************************)

(* A row names no session, or one that was opened on the row's account. *)
Placed(row, status, owner) ==
  row.session # None => /\ status[row.session] # "none"
                        /\ row.account = owner[row.session]

RowsPlaced ==
  /\ \A o \in Orders : Placed(orders[o], sessionStatus, sessionAccount)
  /\ \A p \in Positions : Placed(positions[p], sessionStatus, sessionAccount)
  /\ \A i \in DOMAIN trades : Placed(trades[i], sessionStatus, sessionAccount)

(* A sweep books under a session of the account it moves, or under none. *)
SweepPlaced ==
  /\ Idle => sweep.session = None
  /\ sweep.session # None => /\ sessionStatus[sweep.session] # "none"
                             /\ sessionAccount[sweep.session] = sweep.account

(* Only the actions of the sweep itself run while it is in progress. *)
LEMMA SweepShapes ==
  ASSUME [Next]_vars
  PROVE  \/ Idle /\ UNCHANGED sweep
         \/ UNCHANGED vars
         \/ \E a \in Accounts, kind \in {"bar", "flatten"}, symbol \in Symbols,
               s \in Sessions \cup {None} : StartSweep(kind, a, symbol, s)
         \/ \E p \in Positions : SweepCloses(p) \/ SweepPasses(p)
<1>1. ASSUME NEW a \in Accounts, NEW to, \/ SetAccountStatus(a, to)
                                        \/ SetExecutionMode(a, to)
      PROVE  Idle /\ UNCHANGED sweep
  BY <1>1 DEF SetAccountStatus, SetExecutionMode
<1>2. ASSUME NEW s \in Sessions, NEW a, NEW c, NEW p,
             OpenSession(s, a) \/ CommandSession(s, c) \/ ClosePosition(s, p)
      PROVE  Idle /\ UNCHANGED sweep
  BY <1>2 DEF OpenSession, CommandSession, ClosePosition
<1>3. ASSUME NEW g \in Signals, NEW to, CreateSignal(g, to) \/ DecideSignal(g, to)
      PROVE  Idle /\ UNCHANGED sweep
  BY <1>3 DEF CreateSignal, DecideSignal
<1>4. ASSUME NEW r \in Requests, \/ RefuseWithOrder(r) \/ RefuseWithoutOrder(r)
                                 \/ ExecuteOpen(r) \/ ExecuteClose(r)
                                 \/ CloseNothing(r) \/ CloseMismatch(r)
      PROVE  Idle /\ UNCHANGED sweep
  BY <1>4 DEF RefuseWithOrder, RefuseWithoutOrder, ExecuteOpen, ExecuteClose,
              CloseNothing, CloseMismatch, Submitted
<1>5. QED
  BY <1>1, <1>2, <1>3, <1>4 DEF Next

(* A sweep keeps its account and its session to the end. *)
LEMMA SweepPlacedStep ==
  ASSUME BaseInv, SweepPlaced, [Next]_vars
  PROVE  SweepPlaced'
<1>1. CASE Idle /\ UNCHANGED sweep
  BY <1>1 DEF SweepPlaced, Idle
<1>2. CASE UNCHANGED vars
  BY <1>2 DEF vars, SweepPlaced, Idle
<1>3. ASSUME NEW a \in Accounts, NEW kind \in {"bar", "flatten"},
             NEW symbol \in Symbols, NEW s \in Sessions \cup {None},
             StartSweep(kind, a, symbol, s)
      PROVE  SweepPlaced'
  <2>1. /\ sweep' = [kind |-> kind, account |-> a, session |-> s,
                     left |-> OpenPositions(a, symbol)]
        /\ UNCHANGED sessionVars
        /\ s # None => sessionStatus[s] # "none" /\ sessionAccount[s] = a
    BY <1>3 DEF StartSweep
  <2>2. sweep'.session = s /\ sweep'.account = a /\ sweep'.kind # "idle"
    BY <2>1
  <2>3. QED
    BY <2>1, <2>2 DEF SweepPlaced, Idle, sessionVars
<1>4. ASSUME NEW p \in Positions, SweepCloses(p) \/ SweepPasses(p)
      PROVE  SweepPlaced'
  <2>1. sweep' = NoSweep \/ sweep' = [sweep EXCEPT !.left = @ \ {p}]
    BY <1>4 DEF SweepCloses, SweepPasses, Visited
  <2>2. CASE sweep' = NoSweep
    BY <2>2 DEF SweepPlaced, NoSweep
  <2>3. CASE sweep' = [sweep EXCEPT !.left = @ \ {p}]
    <3>1. /\ sweep'.session = sweep.session /\ sweep'.account = sweep.account
          /\ sweep'.kind = sweep.kind
      BY <2>3 DEF BaseInv, TypeOK, Sweeps
    <3>2. UNCHANGED sessionVars
      BY <1>4 DEF SweepCloses, SweepPasses
    <3>3. QED
      BY <3>1, <3>2 DEF SweepPlaced, Idle, sessionVars
  <2>4. QED
    BY <2>1, <2>2, <2>3
<1>5. QED
  BY <1>1, <1>2, <1>3, <1>4, SweepShapes

(* A submitted request runs in a session that has an account. *)
LEMMA SubmittedPlaced ==
  ASSUME BaseInv, NEW r \in Requests, Submitted(r), NEW status
  PROVE  Placed(Order(r, status), sessionStatus, sessionAccount)
BY DEF Submitted, Order, AccountOf, Placed

(* A new order sits on the account of its session. *)
LEMMA CreateKeepsPlaced ==
  ASSUME BaseInv, RowsPlaced, NEW o \in Orders, NEW row \in OrderRows,
         CreateOrder(o, row), Placed(row, sessionStatus, sessionAccount)
  PROVE  \A q \in Orders : Placed(orders'[q], sessionStatus, sessionAccount)
<1>1. orders'[o] = row /\ \A q \in Orders \ {o} : orders'[q] = orders[q]
  BY CreateOrderType DEF BaseInv, TypeOK
<1>2. QED
  BY <1>1 DEF RowsPlaced

(* A close leaves its trade on the account of its session. *)
LEMMA CloseKeepsPlaced ==
  ASSUME BaseInv, RowsPlaced, NEW p \in Positions, NEW s \in Sessions \cup {None},
         NEW gross \in GrossPnls, OwnClose(p, s, gross),
         s # None => sessionStatus[s] # "none" /\ positions[p].account = sessionAccount[s]
  PROVE  /\ \A q \in Positions : Placed(positions'[q], sessionStatus, sessionAccount)
         /\ \A i \in DOMAIN trades' : Placed(trades'[i], sessionStatus, sessionAccount)
<1>1. /\ positions[p] \in PositionRows
      /\ positions' = [positions EXCEPT ![p].status = "closed"]
      /\ trades \in Seq(TradeRows) /\ trades' \in Seq(TradeRows)
  BY BookCloseType DEF OwnClose, BookClose, BaseInv, TypeOK
<1>2. /\ positions'[p].account = positions[p].account
      /\ positions'[p].session = positions[p].session
      /\ \A q \in Positions \ {p} : positions'[q] = positions[q]
  BY <1>1 DEF BaseInv, TypeOK, PositionRows
<1>3. \A q \in Positions : Placed(positions'[q], sessionStatus, sessionAccount)
  BY <1>2 DEF RowsPlaced, Placed
<1>4. ASSUME NEW i \in DOMAIN trades'
      PROVE  Placed(trades'[i], sessionStatus, sessionAccount)
  <2>1. /\ Len(trades') = Len(trades) + 1
        /\ \A j \in 1..Len(trades) : trades'[j] = trades[j]
        /\ trades'[Len(trades) + 1].account = positions[p].account
        /\ trades'[Len(trades) + 1].session = s
    BY TradesAfterClose
  <2>2. /\ DOMAIN trades = 1..Len(trades) /\ DOMAIN trades' = 1..(Len(trades) + 1)
        /\ Len(trades) \in Nat
    BY <1>1, <2>1
  <2>3. i \in 1..Len(trades) \/ i = Len(trades) + 1
    BY <2>2
  <2>4. CASE i \in 1..Len(trades)
    BY <2>1, <2>2, <2>4 DEF RowsPlaced
  <2>5. CASE i = Len(trades) + 1
    BY <2>1, <2>5 DEF Placed
  <2>6. QED
    BY <2>3, <2>4, <2>5
<1>5. QED
  BY <1>3, <1>4

(* Every step keeps orders, positions and trades on the account of their     *)
(* session.                                                                  *)
LEMMA RowsPlacedStep ==
  ASSUME BaseInv, SweepPlaced, RowsPlaced, [Next]_vars
  PROVE  RowsPlaced'
<1>1. CASE Quiet
  <2>1. /\ \A o \in Orders : orders[o].session \in Sessions \cup {None}
        /\ \A p \in Positions : positions[p].session \in Sessions \cup {None}
        /\ \A i \in DOMAIN trades : trades[i].session \in Sessions \cup {None}
    <3>1. \A i \in DOMAIN trades : trades[i] \in TradeRows
      BY DEF BaseInv, TypeOK
    <3>2. \A o \in Orders : orders[o] \in OrderRows
      BY DEF BaseInv, TypeOK
    <3>3. \A p \in Positions : positions[p] \in PositionRows
      BY DEF BaseInv, TypeOK
    <3>4. QED
      BY <3>1, <3>2, <3>3 DEF OrderRows, PositionRows, TradeRows
  <2>2. QED
    BY <1>1, <2>1 DEF Quiet, RowsPlaced, Placed
<1>2. ASSUME NEW r \in Requests, Turned(r)
      PROVE  RowsPlaced'
  <2>1. \A o \in Orders : Placed(orders'[o], sessionStatus, sessionAccount)
    <3>1. CASE UNCHANGED orders
      BY <3>1 DEF RowsPlaced
    <3>2. ASSUME NEW o \in Orders, CreateOrder(o, Order(r, "rejected"))
          PROVE  \A q \in Orders : Placed(orders'[q], sessionStatus, sessionAccount)
      BY <1>2, <3>2, OrderType, SubmittedPlaced, CreateKeepsPlaced DEF Turned
    <3>3. QED
      BY <1>2, <3>1, <3>2 DEF Turned
  <2>2. QED
    BY <1>2, <2>1 DEF Turned, RowsPlaced, sessionVars
<1>3. ASSUME NEW r \in Requests, ExecuteOpen(r)
      PROVE  RowsPlaced'
  <2>1. PICK o \in Orders, p \in Positions :
          /\ CreateOrder(o, Order(r, "filled"))
          /\ positions' = [positions EXCEPT ![p] =
                             [status |-> "open", account |-> AccountOf(r),
                              session |-> r.session, symbol |-> r.symbol,
                              signal |-> r.signal, order |-> o]]
    BY <1>3 DEF ExecuteOpen
  <2>2. \A q \in Orders : Placed(orders'[q], sessionStatus, sessionAccount)
    BY <1>3, <2>1, OrderType, SubmittedPlaced, CreateKeepsPlaced DEF ExecuteOpen
  <2>3. \A q \in Positions : Placed(positions'[q], sessionStatus, sessionAccount)
    BY <1>3, <2>1 DEF ExecuteOpen, RowsPlaced, Placed, Submitted, AccountOf, BaseInv, TypeOK
  <2>4. QED
    BY <1>3, <2>2, <2>3 DEF ExecuteOpen, RowsPlaced, sessionVars
<1>4. ASSUME NEW r \in Requests, ExecuteClose(r)
      PROVE  RowsPlaced'
  <2>1. PICK p \in Positions, gross \in GrossPnls :
          p \in OpenPositions(AccountOf(r), r.symbol) /\ OwnClose(p, r.session, gross)
    BY <1>4, RequestCloses
  <2>2. PICK o \in Orders : CreateOrder(o, Order(r, "filled"))
    BY <1>4 DEF ExecuteClose
  <2>3. \A q \in Orders : Placed(orders'[q], sessionStatus, sessionAccount)
    BY <1>4, <2>2, OrderType, SubmittedPlaced, CreateKeepsPlaced DEF ExecuteClose
  <2>4. /\ p \in Positions /\ r.session \in Sessions
        /\ positions[p].account = sessionAccount[r.session]
        /\ sessionStatus[r.session] = "running"
    BY <1>4, <2>1 DEF OpenPositions, AccountOf, Requests, ExecuteClose, Submitted
  <2>5. /\ \A q \in Positions : Placed(positions'[q], sessionStatus, sessionAccount)
        /\ \A i \in DOMAIN trades' : Placed(trades'[i], sessionStatus, sessionAccount)
    BY <2>1, <2>4, CloseKeepsPlaced
  <2>6. QED
    BY <1>4, <2>3, <2>5 DEF ExecuteClose, RowsPlaced, sessionVars
<1>5. ASSUME NEW p \in Positions, NEW s \in Sessions \cup {None}, Exits(p, s)
      PROVE  RowsPlaced'
  <2>1. PICK gross \in GrossPnls : OwnClose(p, s, gross)
    BY <1>5 DEF Exits
  <2>2. PICK o \in Orders : CreateOrder(o, Exit(p, s))
    BY <1>5 DEF Exits
  <2>3. s # None => sessionStatus[s] # "none" /\ positions[p].account = sessionAccount[s]
    BY <1>5 DEF Exits, RowsPlaced, Placed, SweepPlaced, BaseInv, Ownership
  <2>4. Exit(p, s).session = s /\ Exit(p, s).account = positions[p].account
    BY DEF Exit
  <2>5. \A q \in Orders : Placed(orders'[q], sessionStatus, sessionAccount)
    BY <2>2, <2>3, <2>4, ExitType, CreateKeepsPlaced DEF Placed
  <2>6. /\ \A q \in Positions : Placed(positions'[q], sessionStatus, sessionAccount)
        /\ \A i \in DOMAIN trades' : Placed(trades'[i], sessionStatus, sessionAccount)
    BY <2>1, <2>3, CloseKeepsPlaced
  <2>7. QED
    BY <1>5, <2>5, <2>6 DEF Exits, RowsPlaced, sessionVars
<1>6. QED
  BY <1>1, <1>2, <1>3, <1>4, <1>5, StepShapes

(* No order, position or trade ever sits on another account than its session, *)
(* although a CLOSE order may close what another session opened.              *)
THEOREM ActivityStaysOnItsAccount == Spec => []BookedOnSessionAccount
<1>1. Init => RowsPlaced
  BY DEF Init, RowsPlaced, Placed, NoOrder, NoPosition
<1>2. Init => SweepPlaced
  BY DEF Init, SweepPlaced, NoSweep
<1>3. BaseInv /\ SweepPlaced /\ [Next]_vars => SweepPlaced'
  BY SweepPlacedStep
<1>4. BaseInv /\ SweepPlaced /\ RowsPlaced /\ [Next]_vars => RowsPlaced'
  BY RowsPlacedStep
<1>5. RowsPlaced => BookedOnSessionAccount
  BY DEF RowsPlaced, Placed, BookedOnSessionAccount, SameAccount
<1>6. QED
  BY <1>1, <1>2, <1>3, <1>4, <1>5, BaseCorrect, PTL DEF Spec

-----------------------------------------------------------------------------
(***************************************************************************)
(* Decisions, orders and positions explain each other.                     *)
(***************************************************************************)

(* What one decision says of the order it points at, if any. *)
Explains(decision, table) ==
  decision.order # None =>
    LET row == table[decision.order]
    IN  /\ row.account = decision.account
        /\ row.session = decision.session
        /\ row.signal = decision.signal
        /\ ~decision.allowed => row.status = "rejected"

(* Decisions and orders explain each other. *)
Explained ==
  /\ \A o \in Orders :
       orders[o].kind \in {"open", "close"} =>
         /\ \E i \in DOMAIN decisions : decisions[i].order = o
         /\ \A i, j \in DOMAIN decisions :
              decisions[i].order = o /\ decisions[j].order = o => i = j
  /\ \A i \in DOMAIN decisions : Explains(decisions[i], orders)

(* Every position was opened by a filled order of its own. *)
OpenedOnce ==
  \A p \in Positions :
    positions[p].status # "none" =>
      /\ positions[p].order \in Orders
      /\ orders[positions[p].order].status = "filled"
      /\ orders[positions[p].order].kind = "open"
      /\ \A q \in Positions : positions[q].order = positions[p].order => q = p

(* Besides: no decision points at an order that was not written yet. *)
TrailInv ==
  /\ Explained
  /\ \A i \in DOMAIN decisions :
       decisions[i].order # None => orders[decisions[i].order].status # "none"

(* Each recorded decision is a well-typed row. *)
LEMMA DecisionRow ==
  ASSUME BaseInv, NEW i \in DOMAIN decisions
  PROVE  decisions[i] \in DecisionRows /\ decisions[i].order \in Orders \cup {None}
<1>1. decisions \in Seq(DecisionRows)
  BY DEF BaseInv, TypeOK
<1>2. DOMAIN decisions = 1..Len(decisions)
  BY <1>1
<1>3. decisions[i] \in DecisionRows
  BY <1>1, <1>2
<1>4. QED
  BY <1>3 DEF DecisionRows

(* Recording a decision appends one row and keeps the others. *)
LEMMA DecisionsAfterRecord ==
  ASSUME BaseInv, NEW r \in Requests, Submitted(r), NEW allowed \in BOOLEAN,
         NEW order \in Orders \cup {None}, RecordDecision(r, allowed, order)
  PROVE  LET n == Len(decisions) + 1
         IN  /\ n \notin DOMAIN decisions
             /\ DOMAIN decisions' = DOMAIN decisions \cup {n}
             /\ \A i \in DOMAIN decisions : decisions'[i] = decisions[i]
             /\ decisions'[n].order = order /\ decisions'[n].account = AccountOf(r)
             /\ decisions'[n].session = r.session /\ decisions'[n].signal = r.signal
             /\ decisions'[n].allowed = allowed
<1> DEFINE n == Len(decisions) + 1
           row == [account |-> AccountOf(r), session |-> r.session,
                   signal |-> r.signal, allowed |-> allowed, order |-> order]
<1>1. decisions \in Seq(DecisionRows) /\ row \in DecisionRows
  BY OrderType DEF BaseInv, TypeOK, DecisionRows
<1>2. decisions' = Append(decisions, row)
  BY DEF RecordDecision
<1>3. /\ row.order = order /\ row.account = AccountOf(r) /\ row.session = r.session
      /\ row.signal = r.signal /\ row.allowed = allowed
  OBVIOUS
<1> HIDE DEF row
<1>4. /\ Len(decisions) \in Nat /\ DOMAIN decisions = 1..Len(decisions)
      /\ DOMAIN decisions' = 1..(Len(decisions) + 1)
      /\ decisions'[Len(decisions) + 1] = row
      /\ \A i \in 1..Len(decisions) : decisions'[i] = decisions[i]
  BY <1>1, <1>2
<1>5. /\ n \notin DOMAIN decisions
      /\ DOMAIN decisions' = DOMAIN decisions \cup {n}
  BY <1>4
<1>6. QED
  BY <1>3, <1>4, <1>5

(* A request leaves one decision on its order, and a filled one only when it  *)
(* was allowed.                                                               *)
LEMMA RecordKeepsTrail ==
  ASSUME BaseInv, TrailInv, NEW r \in Requests, Submitted(r), NEW o \in Orders,
         NEW status \in {"filled", "rejected"}, NEW allowed \in BOOLEAN,
         ~allowed => status = "rejected",
         CreateOrder(o, Order(r, status)), RecordDecision(r, allowed, o)
  PROVE  TrailInv'
<1> DEFINE n == Len(decisions) + 1
<1>1. /\ Order(r, status) \in OrderRows /\ Order(r, status).status = status
      /\ Order(r, status).account = AccountOf(r)
      /\ Order(r, status).session = r.session /\ Order(r, status).signal = r.signal
  BY OrderType DEF Order
<1>2. /\ orders' \in [Orders -> OrderRows] /\ orders'[o] = Order(r, status)
      /\ orders[o].status = "none"
      /\ \A q \in Orders \ {o} : orders'[q] = orders[q]
  BY <1>1, CreateOrderType DEF BaseInv, TypeOK
<1>3. /\ n \notin DOMAIN decisions
      /\ DOMAIN decisions' = DOMAIN decisions \cup {n}
      /\ \A i \in DOMAIN decisions : decisions'[i] = decisions[i]
      /\ decisions'[n].order = o /\ decisions'[n].account = AccountOf(r)
      /\ decisions'[n].session = r.session /\ decisions'[n].signal = r.signal
      /\ decisions'[n].allowed = allowed
  BY DecisionsAfterRecord
<1> HIDE DEF n
<1>4. \A i \in DOMAIN decisions : decisions[i].order \in Orders \cup {None}
  BY DecisionRow
<1>5. \A i \in DOMAIN decisions : decisions[i].order # o
  BY <1>2, NoneIsFresh DEF TrailInv
<1>6. ASSUME NEW q \in Orders, orders'[q].kind \in {"open", "close"}
      PROVE  /\ \E i \in DOMAIN decisions' : decisions'[i].order = q
             /\ \A i, j \in DOMAIN decisions' :
                  decisions'[i].order = q /\ decisions'[j].order = q => i = j
  <2>1. CASE q = o
    BY <1>3, <1>5, <2>1
  <2>2. CASE q # o
    <3>1. orders[q].kind \in {"open", "close"}
      BY <1>2, <1>6, <2>2
    <3>2. /\ \E i \in DOMAIN decisions : decisions[i].order = q
          /\ \A i, j \in DOMAIN decisions :
               decisions[i].order = q /\ decisions[j].order = q => i = j
      BY <3>1 DEF TrailInv, Explained
    <3>3. QED
      BY <1>3, <2>2, <3>2
  <2>3. QED
    BY <2>1, <2>2
<1>7. ASSUME NEW i \in DOMAIN decisions', decisions'[i].order # None
      PROVE  /\ Explains(decisions'[i], orders')
             /\ orders'[decisions'[i].order].status # "none"
  <2>1. CASE i = n
    BY <1>1, <1>2, <1>3, <2>1 DEF Explains
  <2>2. CASE i # n
    <3>1. i \in DOMAIN decisions /\ decisions'[i] = decisions[i]
      BY <1>3, <2>2
    <3>2. decisions[i].order \in Orders \ {o}
      BY <1>4, <1>5, <1>7, <3>1
    <3>3. orders'[decisions[i].order] = orders[decisions[i].order]
      BY <1>2, <3>2
    <3>4. /\ Explains(decisions[i], orders)
          /\ orders[decisions[i].order].status # "none"
      BY <1>7, <3>1 DEF TrailInv, Explained, Explains
    <3>5. QED
      BY <3>1, <3>3, <3>4 DEF Explains
  <2>3. QED
    BY <2>1, <2>2
<1>8. Explained'
  BY <1>6, <1>7 DEF Explained, Explains
<1>9. QED
  BY <1>7, <1>8 DEF TrailInv

(* A decision that leaves no order points at nothing. *)
LEMMA NoOrderKeepsTrail ==
  ASSUME BaseInv, TrailInv, NEW r \in Requests, Submitted(r), NEW allowed \in BOOLEAN,
         UNCHANGED orders, RecordDecision(r, allowed, None)
  PROVE  TrailInv'
<1> DEFINE n == Len(decisions) + 1
<1>1. /\ n \notin DOMAIN decisions
      /\ DOMAIN decisions' = DOMAIN decisions \cup {n}
      /\ \A i \in DOMAIN decisions : decisions'[i] = decisions[i]
      /\ decisions'[n].order = None
  BY DecisionsAfterRecord
<1> HIDE DEF n
<1>2. ASSUME NEW q \in Orders, orders'[q].kind \in {"open", "close"}
      PROVE  /\ \E i \in DOMAIN decisions' : decisions'[i].order = q
             /\ \A i, j \in DOMAIN decisions' :
                  decisions'[i].order = q /\ decisions'[j].order = q => i = j
  <2>1. /\ \E i \in DOMAIN decisions : decisions[i].order = q
        /\ \A i, j \in DOMAIN decisions :
             decisions[i].order = q /\ decisions[j].order = q => i = j
    BY <1>2 DEF TrailInv, Explained
  <2>2. QED
    BY <1>1, <2>1, NoneIsFresh
<1>3. ASSUME NEW i \in DOMAIN decisions', decisions'[i].order # None
      PROVE  /\ Explains(decisions'[i], orders')
             /\ orders'[decisions'[i].order].status # "none"
  <2>1. i \in DOMAIN decisions /\ decisions'[i] = decisions[i]
    BY <1>1, <1>3
  <2>2. QED
    BY <1>3, <2>1 DEF TrailInv, Explained, Explains
<1>4. Explained'
  BY <1>2, <1>3 DEF Explained, Explains
<1>5. QED
  BY <1>3, <1>4 DEF TrailInv

(* An exit order has no decision, and needs none. *)
LEMMA ExitKeepsTrail ==
  ASSUME BaseInv, TrailInv, NEW p \in Positions, NEW s \in Sessions \cup {None}, Exits(p, s)
  PROVE  TrailInv'
<1>1. PICK o \in Orders : CreateOrder(o, Exit(p, s))
  BY DEF Exits
<1>2. /\ orders' \in [Orders -> OrderRows] /\ orders'[o] = Exit(p, s)
      /\ orders'[o].kind = "exit" /\ orders[o].status = "none"
      /\ \A q \in Orders \ {o} : orders'[q] = orders[q]
  BY <1>1, ExitType, CreateOrderType DEF BaseInv, TypeOK
<1>3. UNCHANGED decisions
  BY DEF Exits
<1>4. \A i \in DOMAIN decisions : decisions[i].order \in Orders \cup {None}
  BY DecisionRow
<1>5. \A i \in DOMAIN decisions : decisions[i].order # o
  BY <1>2, NoneIsFresh DEF TrailInv
<1>6. \A i \in DOMAIN decisions :
        decisions[i].order # None => orders'[decisions[i].order] = orders[decisions[i].order]
  BY <1>2, <1>4, <1>5
<1>7. \A q \in Orders : orders'[q].kind \in {"open", "close"} =>
                          orders[q].kind \in {"open", "close"}
  BY <1>2
<1>8. Explained'
  <2>1. \A i \in DOMAIN decisions : Explains(decisions[i], orders)
    BY DEF TrailInv, Explained, Explains
  <2>2. \A i \in DOMAIN decisions' : Explains(decisions'[i], orders')
    BY <1>3, <1>6, <2>1 DEF Explains
  <2>3. \A q \in Orders : orders'[q].kind \in {"open", "close"} =>
          /\ \E i \in DOMAIN decisions' : decisions'[i].order = q
          /\ \A i, j \in DOMAIN decisions' :
               decisions'[i].order = q /\ decisions'[j].order = q => i = j
    BY <1>3, <1>7 DEF TrailInv, Explained
  <2>4. QED
    BY <2>2, <2>3 DEF Explained, Explains
<1>9. QED
  BY <1>3, <1>6, <1>8 DEF TrailInv

(* Every step keeps the trail. *)
LEMMA TrailStep ==
  ASSUME BaseInv, TrailInv, [Next]_vars
  PROVE  TrailInv'
<1>1. CASE Quiet
  BY <1>1 DEF Quiet, TrailInv, Explained
<1>2. ASSUME NEW r \in Requests, Turned(r)
      PROVE  TrailInv'
  BY <1>2, RecordKeepsTrail, NoOrderKeepsTrail DEF Turned
<1>3. ASSUME NEW r \in Requests, ExecuteOpen(r)
      PROVE  TrailInv'
  <2>1. PICK o \in Orders : CreateOrder(o, Order(r, "filled")) /\ RecordDecision(r, TRUE, o)
    BY <1>3 DEF ExecuteOpen
  <2>2. QED
    BY <1>3, <2>1, RecordKeepsTrail DEF ExecuteOpen
<1>4. ASSUME NEW r \in Requests, ExecuteClose(r)
      PROVE  TrailInv'
  <2>1. PICK o \in Orders : CreateOrder(o, Order(r, "filled")) /\ RecordDecision(r, TRUE, o)
    BY <1>4 DEF ExecuteClose
  <2>2. QED
    BY <1>4, <2>1, RecordKeepsTrail DEF ExecuteClose
<1>5. QED
  BY <1>1, <1>2, <1>3, <1>4, ExitKeepsTrail, StepShapes

(* An unused position names no order. *)
UnusedNamesNothing ==
  \A p \in Positions : positions[p].status = "none" => positions[p].order = None

(* Every step keeps each position with the one order that opened it. *)
LEMMA OpenedOnceStep ==
  ASSUME BaseInv, OpenedOnce, UnusedNamesNothing, [Next]_vars
  PROVE  OpenedOnce' /\ UnusedNamesNothing'
<1>1. ASSUME NEW o \in Orders, NEW row \in OrderRows, CreateOrder(o, row)
      PROVE  \A p \in Positions :
               positions[p].status # "none" =>
                 positions[p].order # o /\ orders'[positions[p].order] = orders[positions[p].order]
  BY <1>1, CreateOrderType DEF OpenedOnce, BaseInv, TypeOK
<1>2. ASSUME \A p \in Positions :
               /\ positions'[p].order = positions[p].order
               /\ positions'[p].status = "none" <=> positions[p].status = "none",
             UNCHANGED orders \/ \E o \in Orders, row \in OrderRows : CreateOrder(o, row)
      PROVE  OpenedOnce' /\ UnusedNamesNothing'
  <2>1. \A p \in Positions : positions[p].status # "none" =>
                              orders'[positions[p].order] = orders[positions[p].order]
    BY <1>1, <1>2
  <2>2. QED
    BY <1>2, <2>1 DEF OpenedOnce, UnusedNamesNothing
<1>3. ASSUME NEW p \in Positions, NEW s \in Sessions \cup {None},
             NEW gross \in GrossPnls, OwnClose(p, s, gross)
      PROVE  \A q \in Positions :
               /\ positions'[q].order = positions[q].order
               /\ positions'[q].status = "none" <=> positions[q].status = "none"
  <2>1. positions[p] \in PositionRows /\ positions[p].status = "open"
    BY <1>3 DEF BaseInv, TypeOK, OwnClose, BookClose
  <2>2. positions'[p].order = positions[p].order /\ positions'[p].status = "closed"
    BY <1>3, <2>1, BookCloseType DEF PositionRows
  <2>3. QED
    BY <1>3, <2>1, <2>2, BookCloseType
<1>4. CASE Quiet
  BY <1>2, <1>4 DEF Quiet
<1>5. ASSUME NEW r \in Requests, Turned(r)
      PROVE  OpenedOnce' /\ UnusedNamesNothing'
  <2>1. Order(r, "rejected") \in OrderRows
    BY <1>5, OrderType DEF Turned
  <2>2. UNCHANGED orders \/ \E o \in Orders : CreateOrder(o, Order(r, "rejected"))
    BY <1>5 DEF Turned
  <2>3. QED
    BY <1>2, <1>5, <2>1, <2>2 DEF Turned
<1>6. ASSUME NEW r \in Requests, ExecuteOpen(r)
      PROVE  OpenedOnce' /\ UnusedNamesNothing'
  <2>1. PICK o \in Orders, p \in Positions :
          /\ CreateOrder(o, Order(r, "filled"))
          /\ Unused(p, positions)
          /\ positions' = [positions EXCEPT ![p] =
                             [status |-> "open", account |-> AccountOf(r),
                              session |-> r.session, symbol |-> r.symbol,
                              signal |-> r.signal, order |-> o]]
    BY <1>6 DEF ExecuteOpen
  <2>2. /\ Order(r, "filled") \in OrderRows
        /\ Order(r, "filled").status = "filled" /\ Order(r, "filled").kind = "open"
    BY <1>6, OrderType DEF ExecuteOpen, Order
  <2>3. orders'[o] = Order(r, "filled")
    BY <2>1, <2>2, CreateOrderType DEF BaseInv, TypeOK
  <2>4. /\ positions'[p].order = o /\ positions'[p].status = "open"
        /\ \A q \in Positions \ {p} : positions'[q] = positions[q]
    BY <2>1 DEF BaseInv, TypeOK
  <2>5. \A q \in Positions \ {p} : positions[q].order # o
    BY <1>1, <2>1, <2>2, NoneIsFresh DEF UnusedNamesNothing
  <2>6. \A q \in Positions \ {p} :
          positions[q].status # "none" =>
            /\ positions[q].order # o
            /\ orders'[positions[q].order] = orders[positions[q].order]
    BY <1>1, <2>1, <2>2
  <2>7. OpenedOnce'
    BY <2>2, <2>3, <2>4, <2>5, <2>6 DEF OpenedOnce
  <2>8. QED
    BY <2>4, <2>7 DEF UnusedNamesNothing
<1>7. ASSUME NEW r \in Requests, ExecuteClose(r)
      PROVE  OpenedOnce' /\ UnusedNamesNothing'
  <2>1. PICK p \in Positions, gross \in GrossPnls : OwnClose(p, r.session, gross)
    BY <1>7, RequestCloses
  <2>2. PICK o \in Orders : CreateOrder(o, Order(r, "filled"))
    BY <1>7 DEF ExecuteClose
  <2>3. Order(r, "filled") \in OrderRows /\ r.session \in Sessions
    BY <1>7, OrderType DEF ExecuteClose
  <2>4. QED
    BY <1>2, <1>3, <2>1, <2>2, <2>3
<1>8. ASSUME NEW p \in Positions, NEW s \in Sessions \cup {None}, Exits(p, s)
      PROVE  OpenedOnce' /\ UnusedNamesNothing'
  <2>1. PICK gross \in GrossPnls : OwnClose(p, s, gross)
    BY <1>8 DEF Exits
  <2>2. PICK o \in Orders : CreateOrder(o, Exit(p, s))
    BY <1>8 DEF Exits
  <2>3. QED
    BY <1>2, <1>3, <2>1, <2>2, ExitType
<1>9. QED
  BY <1>4, <1>5, <1>6, <1>7, <1>8, StepShapes

(* Every order a caller sent has exactly one decision, exits the service      *)
(* decides on have none; a refusal leaves nothing but its decision and at     *)
(* most one rejected order, and every position goes back to one filled order. *)
THEOREM DecisionsAreTheTrail == Spec => []DecisionsExplainOrders
<1>1. Init => TrailInv
  BY DEF Init, TrailInv, Explained, NoOrder
<1>2. BaseInv /\ TrailInv /\ [Next]_vars => TrailInv'
  BY TrailStep
<1>3. Init => OpenedOnce /\ UnusedNamesNothing
  BY DEF Init, OpenedOnce, UnusedNamesNothing, NoPosition
<1>4. BaseInv /\ OpenedOnce /\ UnusedNamesNothing /\ [Next]_vars
        => OpenedOnce' /\ UnusedNamesNothing'
  BY OpenedOnceStep
<1>5. TrailInv /\ OpenedOnce => DecisionsExplainOrders
  BY DEF TrailInv, Explained, Explains, OpenedOnce, DecisionsExplainOrders
<1>6. QED
  BY <1>1, <1>2, <1>3, <1>4, <1>5, BaseCorrect, PTL DEF Spec

-----------------------------------------------------------------------------
(***************************************************************************)
(* The balance covers the books.                                           *)
(***************************************************************************)

(* Besides: every account has entered finitely many positions, and none that  *)
(* is still unused.                                                           *)
CashInv ==
  /\ BalanceCoversBooks
  /\ \A a \in Accounts : IsFiniteSet(EnteredOn(a))
  /\ \A p \in Positions : positions[p].status = "none" => positions[p].account = None

(* The floor only ever adds money, and only to the account that is moved. *)
LEMMA RealizeCovers ==
  ASSUME BaseInv, NEW a \in Accounts, NEW amount \in Int, Realize(a, amount)
  PROVE  /\ balance'[a] >= balance[a] + amount
         /\ \A b \in Accounts \ {a} : balance'[b] = balance[b]
         /\ balance' \in [Accounts -> Nat]
<1>1. balance \in [Accounts -> Nat]
  BY DEF BaseInv, TypeOK
<1>2. balance[a] + amount \in Int
  BY <1>1
<1>3. balance'[a] = IF balance[a] + amount < 0 THEN 0 ELSE balance[a] + amount
  BY <1>1 DEF Realize
<1>4. balance'[a] >= balance[a] + amount
  BY <1>2, <1>3
<1>5. QED
  BY <1>1, <1>4, RealizeType DEF Realize

(* The nets of the trades are integers, and so are their sums. *)
LEMMA NetSums ==
  ASSUME BaseInv
  PROVE  /\ IsFiniteSet(DOMAIN trades)
         /\ \A i \in DOMAIN trades : Nets[i] \in Int
         /\ \A S \in SUBSET DOMAIN trades : SumFunctionOnSet(Nets, S) \in Int
<1>1. trades \in Seq(TradeRows) /\ Len(trades) \in Nat /\ DOMAIN trades = 1..Len(trades)
  BY DEF BaseInv, TypeOK
<1>2. IsFiniteSet(DOMAIN trades)
  BY <1>1, FS_Interval
<1>3. \A i \in DOMAIN trades : trades[i] \in TradeRows
  BY <1>1
<1>4. \A i \in DOMAIN trades : Nets[i] \in Int
  BY <1>3 DEF Nets, TradeRows
<1>5. \A S \in SUBSET DOMAIN trades : SumFunctionOnSet(Nets, S) \in Int
  <2> TAKE S \in SUBSET DOMAIN trades
  <2>1. IsFiniteSet(S) /\ \A i \in S : Nets[i] \in Int
    BY <1>2, <1>4, FS_Subset
  <2>2. QED
    BY <2>1, SumType
<1>6. QED
  BY <1>2, <1>4, <1>5

(* A close adds its net to the books of the account that held the position. *)
LEMMA BooksAfterClose ==
  ASSUME BaseInv, NEW p \in Positions, NEW s \in Sessions \cup {None},
         NEW gross \in GrossPnls, OwnClose(p, s, gross), NEW a \in Accounts
  PROVE  SumFunctionOnSet(Nets, TradesOn(a))' =
           SumFunctionOnSet(Nets, TradesOn(a))
             + IF a = positions[p].account THEN gross - Commission ELSE 0
<1> DEFINE D == DOMAIN trades
           n == Len(trades) + 1
           S == TradesOn(a)
           T == TradesOn(a)'
           f == Nets
           g == Nets'
           net == gross - Commission
<1>1. /\ trades \in Seq(TradeRows) /\ trades' \in Seq(TradeRows)
      /\ Len(trades) \in Nat /\ Len(trades') = n
      /\ D = 1..Len(trades) /\ DOMAIN trades' = 1..n
      /\ \A i \in 1..Len(trades) : trades'[i] = trades[i]
      /\ trades'[n].account = positions[p].account /\ trades'[n].net = net
  <2>1. trades \in Seq(TradeRows) /\ trades' \in Seq(TradeRows)
    BY BookCloseType DEF BaseInv, TypeOK
  <2>2. /\ Len(trades') = Len(trades) + 1
        /\ \A i \in 1..Len(trades) : trades'[i] = trades[i]
        /\ trades'[Len(trades) + 1].account = positions[p].account
        /\ trades'[Len(trades) + 1].net = gross - Commission
    BY TradesAfterClose
  <2>3. QED
    BY <2>1, <2>2
<1>2. n \notin D /\ DOMAIN trades' = D \cup {n} /\ net \in Int
  BY <1>1, NoneIsFresh
<1>3. /\ IsFiniteSet(D) /\ S \in SUBSET D
      /\ \A i \in D : f[i] \in Int
      /\ SumFunctionOnSet(f, S) \in Int
  BY NetSums DEF TradesOn
<1>4. /\ \A i \in D : g[i] = f[i]
      /\ g[n] = net
      /\ T = IF a = positions[p].account THEN S \cup {n} ELSE S
  BY <1>1, <1>2 DEF Nets, TradesOn
<1>5. SumFunctionOnSet(Nets, TradesOn(a))' = SumFunctionOnSet(g, T)
  OBVIOUS
<1> HIDE DEF D, n, S, T, f, g, net
<1>6. /\ SumFunctionOnSet(g, S) = SumFunctionOnSet(f, S)
      /\ SumFunctionOnSet(g, S \cup {n}) = SumFunctionOnSet(f, S) + net
  <2>1. \A i \in D : f[i] \in Int /\ g[i] = f[i]
    BY <1>3, <1>4
  <2>2. g[n] \in Int
    BY <1>2, <1>4
  <2>3. \A U \in SUBSET D :
          /\ SumFunctionOnSet(f, U) \in Int
          /\ SumFunctionOnSet(g, U) = SumFunctionOnSet(f, U)
          /\ SumFunctionOnSet(g, U \cup {n}) = SumFunctionOnSet(f, U) + g[n]
    BY <1>2, <1>3, <2>1, <2>2, SumGrow
  <2>4. QED
    BY <1>3, <1>4, <2>3
<1>7. CASE a = positions[p].account
  <2>1. T = S \cup {n}
    BY <1>4, <1>7
  <2>2. SumFunctionOnSet(g, T) = SumFunctionOnSet(g, S \cup {n})
    BY <2>1, Zenon
  <2>3. QED
    BY <1>5, <1>6, <1>7, <2>2 DEF f, S, net
<1>8. CASE a # positions[p].account
  <2>1. T = S
    BY <1>4, <1>8
  <2>2. SumFunctionOnSet(g, T) = SumFunctionOnSet(g, S)
    BY <2>1, Zenon
  <2>3. SumFunctionOnSet(g, T) = SumFunctionOnSet(f, S) + 0
    BY <1>3, <1>6, <2>2
  <2>4. QED
    BY <1>5, <1>8, <2>3 DEF f, S
<1>9. QED
  BY <1>7, <1>8

(* A close moves the balance by no less than what it adds to the books. *)
LEMMA CloseKeepsCash ==
  ASSUME BaseInv, CashInv, NEW p \in Positions, NEW s \in Sessions \cup {None},
         NEW gross \in GrossPnls, OwnClose(p, s, gross)
  PROVE  CashInv'
<1>1. /\ \A q \in Positions : positions'[q].account = positions[q].account
      /\ positions[p].account \in Accounts
  <2>1. positions[p] \in PositionRows
    BY DEF BaseInv, TypeOK
  <2>2. [positions[p] EXCEPT !.status = "closed"].account = positions[p].account
    BY <2>1 DEF PositionRows
  <2>3. QED
    BY <2>2, BookCloseType
<1>2. \A a \in Accounts : EnteredOn(a)' = EnteredOn(a)
  BY <1>1 DEF EnteredOn
<1>3. gross - Commission \in Int
  BY NoneIsFresh
<1>4. /\ balance'[positions[p].account]
           >= balance[positions[p].account] + (gross - Commission)
      /\ \A b \in Accounts \ {positions[p].account} : balance'[b] = balance[b]
      /\ balance' \in [Accounts -> Nat]
  <2>1. Realize(positions[p].account, gross - Commission)
    BY DEF OwnClose, BookClose
  <2>2. QED
    BY <1>1, <1>3, <2>1, RealizeCovers
<1>5. ASSUME NEW a \in Accounts
      PROVE  balance'[a] >= InitialBalance + SumFunctionOnSet(Nets, TradesOn(a))'
                              - Commission * Cardinality(EnteredOn(a))'
  <2> DEFINE sum == SumFunctionOnSet(Nets, TradesOn(a))
             cost == Commission * Cardinality(EnteredOn(a))
             delta == IF a = positions[p].account THEN gross - Commission ELSE 0
  <2>1. SumFunctionOnSet(Nets, TradesOn(a))' = sum + delta
    BY BooksAfterClose
  <2>2. Commission * Cardinality(EnteredOn(a))' = cost
    BY <1>2, Zenon
  <2>3. sum \in Int
    BY NetSums DEF TradesOn
  <2>4. cost \in Int
    <3>1. Cardinality(EnteredOn(a)) \in Nat
      BY FS_CardinalityType DEF CashInv
    <3>2. QED
      BY <3>1, NoneIsFresh
  <2>5. balance[a] >= InitialBalance + sum - cost
    BY DEF CashInv, BalanceCoversBooks
  <2>6. balance'[a] >= balance[a] + delta /\ balance[a] \in Nat /\ balance'[a] \in Nat
    BY <1>4 DEF BaseInv, TypeOK
  <2>7. delta \in Int
    BY <1>3
  <2> HIDE DEF sum, cost, delta
  <2>8. balance'[a] >= InitialBalance + (sum + delta) - cost
    BY <2>3, <2>4, <2>5, <2>6, <2>7, NoneIsFresh
  <2>9. QED
    BY <2>1, <2>2, <2>8
<1>6. BalanceCoversBooks'
  BY <1>5 DEF BalanceCoversBooks
<1>7. \A q \in Positions : positions'[q].status = "none" => positions'[q].account = None
  <2>1. positions[p].status = "open" /\ positions[p] \in PositionRows
    BY DEF OwnClose, BookClose, BaseInv, TypeOK
  <2>2. positions'[p].status = "closed"
    BY <2>1, BookCloseType DEF PositionRows
  <2>3. \A q \in Positions \ {p} : positions'[q] = positions[q]
    BY BookCloseType
  <2>4. QED
    BY <2>2, <2>3 DEF CashInv
<1>8. QED
  BY <1>2, <1>6, <1>7 DEF CashInv

(* An entry pays its commission, or empties the account. *)
LEMMA OpenKeepsCash ==
  ASSUME BaseInv, CashInv, NEW r \in Requests, ExecuteOpen(r)
  PROVE  CashInv'
<1>1. PICK o \in Orders, p \in Positions :
        /\ Unused(p, positions)
        /\ positions' = [positions EXCEPT ![p] =
                           [status |-> "open", account |-> AccountOf(r),
                            session |-> r.session, symbol |-> r.symbol,
                            signal |-> r.signal, order |-> o]]
  BY DEF ExecuteOpen
<1>2. AccountOf(r) \in Accounts
  BY OrderType DEF ExecuteOpen
<1>3. /\ positions'[p].account = AccountOf(r)
      /\ \A q \in Positions \ {p} : positions'[q] = positions[q]
  BY <1>1 DEF BaseInv, TypeOK
<1>4. positions'[p].status = "open" /\ positions[p].account = None
  BY <1>1 DEF Unused, CashInv, BaseInv, TypeOK
<1>5. ASSUME NEW a \in Accounts
      PROVE  /\ p \notin EnteredOn(a)
             /\ EnteredOn(a)' = IF a = AccountOf(r) THEN EnteredOn(a) \cup {p}
                                                    ELSE EnteredOn(a)
  BY <1>3, <1>4, NoneIsFresh DEF EnteredOn
<1>6. ASSUME NEW a \in Accounts
      PROVE  LET more == IF a = AccountOf(r) THEN 1 ELSE 0
             IN  /\ IsFiniteSet(EnteredOn(a)')
                 /\ Cardinality(EnteredOn(a)') = Cardinality(EnteredOn(a)) + more
                 /\ Cardinality(EnteredOn(a)) \in Nat
  <2> DEFINE S == EnteredOn(a)
             T == EnteredOn(a)'
  <2>1. IsFiniteSet(S) /\ p \notin S /\ T = IF a = AccountOf(r) THEN S \cup {p} ELSE S
    BY <1>5 DEF CashInv
  <2> HIDE DEF S, T
  <2>2. Cardinality(S) \in Nat
    BY <2>1, FS_CardinalityType
  <2>3. IsFiniteSet(S \cup {p}) /\ Cardinality(S \cup {p}) = Cardinality(S) + 1
    BY <2>1, FS_AddElement
  <2>4. IsFiniteSet(T) /\ Cardinality(T) = Cardinality(S) + IF a = AccountOf(r) THEN 1 ELSE 0
    <3>1. CASE a = AccountOf(r)
      BY <2>1, <2>3, <3>1
    <3>2. CASE a # AccountOf(r)
      BY <2>1, <2>2, <3>2
    <3>3. QED
      BY <3>1, <3>2
  <2>5. QED
    BY <2>2, <2>4 DEF S, T
<1>7. /\ balance'[AccountOf(r)] >= balance[AccountOf(r)] + (-Commission)
      /\ \A b \in Accounts \ {AccountOf(r)} : balance'[b] = balance[b]
      /\ balance' \in [Accounts -> Nat]
  <2>1. -Commission \in Int
    BY NoneIsFresh
  <2>2. QED
    BY <1>2, <2>1, RealizeCovers DEF ExecuteOpen
<1>8. UNCHANGED trades
  BY DEF ExecuteOpen
<1>9. ASSUME NEW a \in Accounts
      PROVE  balance'[a] >= InitialBalance + SumFunctionOnSet(Nets, TradesOn(a))'
                              - Commission * Cardinality(EnteredOn(a)')
  <2> DEFINE sum == SumFunctionOnSet(Nets, TradesOn(a))
             count == Cardinality(EnteredOn(a))
             more == IF a = AccountOf(r) THEN 1 ELSE 0
  <2>1. SumFunctionOnSet(Nets, TradesOn(a))' = sum
    BY <1>8 DEF Nets, TradesOn
  <2>2. Cardinality(EnteredOn(a)') = count + more /\ count \in Nat /\ more \in Nat
    BY <1>6
  <2>3. sum \in Int
    BY NetSums DEF TradesOn
  <2>4. balance[a] >= InitialBalance + sum - Commission * count
    BY DEF CashInv, BalanceCoversBooks
  <2>5. balance[a] \in Nat /\ balance'[a] \in Nat
    BY <1>7 DEF BaseInv, TypeOK
  <2>6. balance'[a] >= balance[a] - Commission * more
    <3>1. CASE a = AccountOf(r)
      BY <1>7, <2>5, <3>1, NoneIsFresh
    <3>2. CASE a # AccountOf(r)
      BY <1>7, <2>5, <3>2, NoneIsFresh
    <3>3. QED
      BY <3>1, <3>2
  <2> HIDE DEF sum, count, more
  <2>7. /\ Commission * (count + more) = Commission * count + Commission * more
        /\ Commission * count \in Int /\ Commission * more \in Int
    BY <2>2, NoneIsFresh
  <2>8. balance'[a] >= InitialBalance + sum - Commission * (count + more)
    <3> DEFINE paid == Commission * count
               pays == Commission * more
    <3>1. /\ paid \in Int /\ pays \in Int /\ Commission * (count + more) = paid + pays
          /\ balance[a] >= InitialBalance + sum - paid
          /\ balance'[a] >= balance[a] - pays
      BY <2>4, <2>6, <2>7
    <3> HIDE DEF paid, pays
    <3>2. balance'[a] >= InitialBalance + sum - (paid + pays)
      BY <2>3, <2>5, <3>1, NoneIsFresh
    <3>3. QED
      BY <3>1, <3>2
  <2>9. QED
    BY <2>1, <2>2, <2>8
<1>10. BalanceCoversBooks'
  BY <1>9 DEF BalanceCoversBooks
<1>11. \A q \in Positions : positions'[q].status = "none" => positions'[q].account = None
  BY <1>3, <1>4 DEF CashInv
<1>12. QED
  BY <1>6, <1>10, <1>11 DEF CashInv

(* Every step keeps the balance above the books. *)
LEMMA CashStep ==
  ASSUME BaseInv, CashInv, [Next]_vars
  PROVE  CashInv'
<1>1. ASSUME UNCHANGED <<balance, positions, trades>>
      PROVE  CashInv'
  BY <1>1 DEF CashInv, BalanceCoversBooks, Nets, TradesOn, EnteredOn
<1>2. ASSUME NEW r \in Requests, ExecuteClose(r)
      PROVE  CashInv'
  <2>1. PICK p \in Positions, gross \in GrossPnls : OwnClose(p, r.session, gross)
    BY <1>2, RequestCloses
  <2>2. r.session \in Sessions
    BY DEF Requests
  <2>3. QED
    BY <2>1, <2>2, CloseKeepsCash
<1>3. ASSUME NEW p \in Positions, NEW s \in Sessions \cup {None}, Exits(p, s)
      PROVE  CashInv'
  BY <1>3, CloseKeepsCash DEF Exits
<1>4. QED
  BY <1>1, <1>2, <1>3, OpenKeepsCash, StepShapes DEF Quiet, Turned

(* No money is lost: an account holds at least its initial balance, plus what *)
(* its trades netted, less a commission for each entry.                       *)
THEOREM BalanceCovers == Spec => []BalanceCoversBooks
<1>1. ASSUME Init PROVE CashInv
  <2>1. /\ trades = << >> /\ balance = [a \in Accounts |-> InitialBalance]
        /\ \A p \in Positions : positions[p].status = "none" /\ positions[p].account = None
    BY <1>1 DEF Init, NoPosition
  <2>2. ASSUME NEW a \in Accounts
        PROVE  /\ EnteredOn(a) = {} /\ TradesOn(a) = {}
    BY <2>1, NoneIsFresh DEF EnteredOn, TradesOn
  <2>3. ASSUME NEW a \in Accounts
        PROVE  balance[a] >= InitialBalance + SumFunctionOnSet(Nets, TradesOn(a))
                               - Commission * Cardinality(EnteredOn(a))
    <3>1. SumFunctionOnSet(Nets, TradesOn(a)) = SumFunctionOnSet(Nets, {})
      BY <2>2, Zenon
    <3>2. SumFunctionOnSet(Nets, {}) = 0
      BY SumEmpty
    <3>3. Cardinality(EnteredOn(a)) = 0
      BY <2>2, FS_EmptySet
    <3>4. Commission * Cardinality(EnteredOn(a)) = 0
      BY <3>3, NoneIsFresh
    <3>5. balance[a] = InitialBalance /\ InitialBalance \in Nat
      BY <2>1, NoneIsFresh
    <3>6. QED
      BY <3>1, <3>2, <3>4, <3>5
  <2>4. \A a \in Accounts : IsFiniteSet(EnteredOn(a))
    BY <2>2, FS_EmptySet
  <2>5. QED
    BY <2>1, <2>3, <2>4 DEF CashInv, BalanceCoversBooks
<1>2. BaseInv /\ CashInv /\ [Next]_vars => CashInv'
  BY CashStep
<1>3. CashInv => BalanceCoversBooks
  BY DEF CashInv
<1>4. QED
  BY <1>1, <1>2, <1>3, BaseCorrect, PTL DEF Spec

-----------------------------------------------------------------------------
(***************************************************************************)
(* The detailed core implements the ledger.                                *)
(***************************************************************************)
Holding == [p \in Positions |-> positions[p].status]
Owner == [p \in Positions |-> positions[p].account]
Spent == {g \in Signals : signalStatus[g] = "executed"}

(* Marking a signal executed spends it, once. *)
LEMMA MarkSpends ==
  ASSUME BaseInv, NEW g \in Signals \cup {None}, MarkExecuted(g)
  PROVE  IF g = None THEN Spent' = Spent
                     ELSE g \notin Spent /\ Spent' = Spent \cup {g}
<1>1. CASE g = None
  BY <1>1 DEF MarkExecuted, Spent
<1>2. CASE g # None
  <2>1. /\ g \in Signals /\ signalStatus \in [Signals -> SignalStatuses]
        /\ "executed" \in SignalTransitions[signalStatus[g]]
        /\ signalStatus' = [signalStatus EXCEPT ![g] = "executed"]
    BY <1>2 DEF MarkExecuted, BaseInv, TypeOK
  <2>2. signalStatus[g] = "approved"
    BY <2>1, TableFacts
  <2>3. QED
    BY <1>2, <2>1, <2>2 DEF Spent
<1>3. QED
  BY <1>1, <1>2

(* A close settles its position at the expense of its owner. *)
LEMMA CloseSettles ==
  ASSUME BaseInv, NEW p \in Positions, NEW s \in Sessions \cup {None},
         NEW gross \in GrossPnls, OwnClose(p, s, gross)
  PROVE  /\ Holding[p] = "open" /\ Holding' = [Holding EXCEPT ![p] = "closed"]
         /\ Owner' = Owner
         /\ balance' = [balance EXCEPT ![Owner[p]] =
                          Ledger!NotBelowZero(@ + gross - Commission)]
<1>1. /\ positions \in [Positions -> PositionRows]
      /\ positions[p].status = "open"
      /\ positions' = [positions EXCEPT ![p].status = "closed"]
      /\ balance \in [Accounts -> Nat]
      /\ positions[p].account \in Accounts
  BY BookCloseType DEF OwnClose, BookClose, BaseInv, TypeOK
<1>2. \A q \in Positions : positions'[q].account = positions[q].account
  BY <1>1 DEF PositionRows
<1>3. Owner' = Owner
  BY <1>2 DEF Owner
<1>4. Holding[p] = "open" /\ Holding' = [Holding EXCEPT ![p] = "closed"]
  <2>1. positions'[p].status = "closed" /\ \A q \in Positions \ {p} : positions'[q] = positions[q]
    BY <1>1 DEF PositionRows
  <2>2. QED
    BY <1>1, <2>1 DEF Holding
<1>5. balance' = [balance EXCEPT ![positions[p].account] =
                    IF @ + (gross - Commission) < 0 THEN 0 ELSE @ + (gross - Commission)]
  BY DEF OwnClose, BookClose, Realize
<1>6. Owner[p] = positions[p].account
  BY DEF Owner
<1>7. \A b \in Nat : b + (gross - Commission) = b + gross - Commission
  BY NoneIsFresh
<1>8. balance' = [balance EXCEPT ![Owner[p]] = Ledger!NotBelowZero(@ + gross - Commission)]
  BY <1>1, <1>5, <1>6, <1>7 DEF Ledger!NotBelowZero
<1>9. QED
  BY <1>1, <1>3, <1>4, <1>8

(* An executed OPEN enters a fresh position on the session's account. *)
LEMMA OpenEnters ==
  ASSUME BaseInv, NEW r \in Requests, ExecuteOpen(r)
  PROVE  \E p \in Positions : Ledger!Enter(p, AccountOf(r), r.signal)
<1>1. PICK o \in Orders, p \in Positions :
        /\ Unused(p, positions)
        /\ positions' = [positions EXCEPT ![p] =
                           [status |-> "open", account |-> AccountOf(r),
                            session |-> r.session, symbol |-> r.symbol,
                            signal |-> r.signal, order |-> o]]
  BY DEF ExecuteOpen
<1>2. /\ positions[p].status = "none"
      /\ positions'[p].status = "open" /\ positions'[p].account = AccountOf(r)
      /\ \A q \in Positions \ {p} : positions'[q] = positions[q]
  BY <1>1 DEF Unused, BaseInv, TypeOK
<1>3. /\ Holding[p] = "none" /\ Holding' = [Holding EXCEPT ![p] = "open"]
      /\ Owner' = [Owner EXCEPT ![p] = AccountOf(r)]
  BY <1>2 DEF Holding, Owner
<1>4. AccountOf(r) \in Accounts /\ r.signal \in Signals \cup {None}
  BY OrderType DEF ExecuteOpen
<1>5. balance' = [balance EXCEPT ![AccountOf(r)] = Ledger!NotBelowZero(@ - Commission)]
  <2>1. balance' = [balance EXCEPT ![AccountOf(r)] =
                      IF @ + (-Commission) < 0 THEN 0 ELSE @ + (-Commission)]
    BY DEF ExecuteOpen, Realize
  <2>2. \A b \in Nat : b + (-Commission) = b - Commission
    BY NoneIsFresh
  <2>3. QED
    BY <1>4, <2>1, <2>2 DEF Ledger!NotBelowZero, BaseInv, TypeOK
<1>6. Ledger!Spend(r.signal)
  BY <1>4, MarkSpends DEF ExecuteOpen, Ledger!Spend, Spent
<1>7. QED
  BY <1>3, <1>5, <1>6 DEF Ledger!Enter, Holding, Owner

(* Every step of the service is a step of the ledger or a stutter. *)
LEMMA LedgerStep ==
  ASSUME BaseInv, [Next]_vars
  PROVE  [Ledger!Next]_(Ledger!vars)
<1>1. CASE Quiet
  <2>1. Spent' = Spent
    BY <1>1 DEF Quiet, Spent
  <2>2. QED
    BY <1>1, <2>1 DEF Quiet, Ledger!vars, Spent
<1>2. ASSUME NEW r \in Requests, Turned(r)
      PROVE  UNCHANGED Ledger!vars
  BY <1>2 DEF Turned, Ledger!vars
<1>3. ASSUME NEW r \in Requests, ExecuteOpen(r)
      PROVE  Ledger!Next
  <2>1. PICK p \in Positions : Ledger!Enter(p, AccountOf(r), r.signal)
    BY <1>3, OpenEnters
  <2>2. AccountOf(r) \in Accounts /\ r.signal \in Signals \cup {None}
    BY <1>3, OrderType DEF ExecuteOpen
  <2>3. QED
    BY <2>1, <2>2 DEF Ledger!Next
<1>4. ASSUME NEW r \in Requests, ExecuteClose(r)
      PROVE  Ledger!Next
  <2>1. PICK p \in Positions, gross \in GrossPnls : OwnClose(p, r.session, gross)
    BY <1>4, RequestCloses
  <2>2. r.session \in Sessions /\ r.signal \in Signals \cup {None}
    BY DEF Requests
  <2>3. Ledger!Spend(r.signal)
    BY <1>4, <2>2, MarkSpends DEF ExecuteClose, Ledger!Spend, Spent
  <2>4. Ledger!Settle(p, r.signal)
    BY <2>1, <2>2, <2>3, CloseSettles DEF Ledger!Settle, Holding, Owner
  <2>5. QED
    BY <2>2, <2>4 DEF Ledger!Next
<1>5. ASSUME NEW p \in Positions, NEW s \in Sessions \cup {None}, Exits(p, s)
      PROVE  Ledger!Next
  <2>1. PICK gross \in GrossPnls : OwnClose(p, s, gross)
    BY <1>5 DEF Exits
  <2>2. Ledger!Spend(None)
    BY <1>5 DEF Exits, Ledger!Spend
  <2>3. Ledger!Settle(p, None)
    BY <2>1, <2>2, CloseSettles DEF Ledger!Settle, Holding, Owner
  <2>4. QED
    BY <2>3 DEF Ledger!Next
<1>6. QED
  BY <1>1, <1>2, <1>3, <1>4, <1>5, StepShapes

(* Whatever the gate, the sessions and the sweeps do, the books behave like   *)
(* the paper ledger: enter once, settle once, the owner's money, one signal.  *)
THEOREM TradingImplementsLedger == Spec => ImplementsLedger
<1>1. Init => Ledger!Init
  <2> SUFFICES ASSUME Init PROVE Ledger!Init
    OBVIOUS
  <2>1. balance \in [Accounts -> Nat]
    BY NoneIsFresh DEF Init
  <2>2. {g \in Signals : signalStatus[g] = "executed"} = {}
    BY DEF Init
  <2>3. QED
    BY <2>1, <2>2 DEF Init, Ledger!Init, NoPosition
<1>2. BaseInv /\ [Next]_vars => [Ledger!Next]_(Ledger!vars)
  BY LedgerStep
<1>3. QED
  BY <1>1, <1>2, BaseCorrect, PTL DEF Spec, ImplementsLedger, Ledger!Spec
=============================================================================
