---------------------------- MODULE PaperTrading ----------------------------
(***************************************************************************)
(* The paper-trading core with one request at a time: what                 *)
(* PaperCommandService (paper_trading/commands.py) and                     *)
(* PaperExecutionService (paper_trading/execution_service.py) do to the    *)
(* account, session, signal, order, position, trade and decision rows.     *)
(* Each action is one call in one committed transaction; the visits of one *)
(* bar sweep are the exception, and nothing interleaves with them.         *)
(* PaperRequests models what happens when transactions overlap.            *)
(*                                                                         *)
(* Prices are abstracted to the gross profit a close makes, quantities to  *)
(* whether a close asks for the quantity that is open.                     *)
(***************************************************************************)
EXTENDS Integers, Sequences, FiniteSets, Functions, PaperLifecycle

CONSTANTS
  Accounts,         \* the paper accounts
  Sessions, Signals,
  Orders, Positions,    \* ids of rows, given out in order
  Symbols,
  ModelSignals,     \* the signals that name a model
  FaultSets,        \* the sets of rules a request may break on its own
  GrossPnls,        \* what closing a position may make
  InitialBalance,
  Commission,       \* commission_per_fill
  MaxDecisions,     \* bound on the execution attempts recorded
  None              \* the absent signal, session, order or account

Faults == {"market_data", "quantity", "price", "symbol"}

ASSUME ValuesAssumption ==
  /\ FaultSets \subseteq SUBSET Faults
  /\ ModelSignals \subseteq Signals
  /\ Orders \subseteq Nat /\ Positions \subseteq Nat
  /\ GrossPnls \subseteq Int
  /\ InitialBalance \in Nat /\ Commission \in Nat /\ MaxDecisions \in Nat
  /\ None \notin Accounts \cup Sessions \cup Signals \cup Orders \cup Positions

VARIABLES
  accountStatus,    \* account -> "active" or "suspended"
  ceiling,          \* account -> its execution mode, order-capable or not
  balance,          \* account -> current_balance
  sessionStatus, sessionAccount,
  signalStatus,
  orders, positions,          \* id -> row, NoOrder / NoPosition when unused
  trades, decisions,          \* the rows in the order they were written
  sweep                       \* the bar sweep in progress

vars == <<accountStatus, ceiling, balance, sessionStatus, sessionAccount,
          signalStatus, orders, positions, trades, decisions, sweep>>
accountVars == <<accountStatus, ceiling>>
sessionVars == <<sessionStatus, sessionAccount>>

NoOrder == [status |-> "none", kind |-> "none", account |-> None,
            session |-> None, signal |-> None]
NoPosition == [status |-> "none", account |-> None, session |-> None,
               symbol |-> None, signal |-> None, order |-> None]
NoSweep == [kind |-> "idle", account |-> None, session |-> None, left |-> {}]

Init ==
  /\ accountStatus = [a \in Accounts |-> "active"]
  /\ ceiling = [a \in Accounts |-> "auto_trade"]
  /\ balance = [a \in Accounts |-> InitialBalance]
  /\ sessionStatus = [s \in Sessions |-> "none"]
  /\ sessionAccount = [s \in Sessions |-> None]
  /\ signalStatus = [g \in Signals |-> "none"]
  /\ orders = [o \in Orders |-> NoOrder]
  /\ positions = [p \in Positions |-> NoPosition]
  /\ trades = << >>
  /\ decisions = << >>
  /\ sweep = NoSweep

Idle == sweep.kind = "idle"

(* The id of a new row.  The code's ids are random and never compared, so     *)
(* giving them out in order loses nothing.                                    *)
Unused(id, table) ==
  /\ table[id].status = "none"
  /\ \A other \in DOMAIN table : other < id => table[other].status # "none"

-----------------------------------------------------------------------------
(***************************************************************************)
(* Accounts (accounts/repositories.py: update_account).                    *)
(***************************************************************************)
SetAccountStatus(a, to) ==
  /\ Idle
  /\ accountStatus' = [accountStatus EXCEPT ![a] = to]
  /\ UNCHANGED <<ceiling, balance, sessionVars, signalStatus, orders,
                 positions, trades, decisions, sweep>>

SetExecutionMode(a, to) ==
  /\ Idle
  /\ ceiling' = [ceiling EXCEPT ![a] = to]
  /\ UNCHANGED <<accountStatus, balance, sessionVars, signalStatus, orders,
                 positions, trades, decisions, sweep>>

(***************************************************************************)
(* Sessions: open_session refuses an account without money, command_session*)
(* goes through the transition table.                                      *)
(***************************************************************************)
OpenSession(s, a) ==
  /\ Idle
  /\ sessionStatus[s] = "none"
  /\ balance[a] > 0
  /\ sessionStatus' = [sessionStatus EXCEPT ![s] = "created"]
  /\ sessionAccount' = [sessionAccount EXCEPT ![s] = a]
  /\ UNCHANGED <<accountVars, balance, signalStatus, orders, positions, trades,
                 decisions, sweep>>

CommandSession(s, command) ==
  /\ Idle
  /\ SessionCommands[command] \in SessionTransitions[sessionStatus[s]]
  /\ sessionStatus' = [sessionStatus EXCEPT ![s] = SessionCommands[command]]
  /\ UNCHANGED <<accountVars, balance, sessionAccount, signalStatus, orders,
                 positions, trades, decisions, sweep>>

(***************************************************************************)
(* Signals: creation and the decisions of SignalLifecycle, whose audit     *)
(* trail is left out here.                                                 *)
(***************************************************************************)
CreateSignal(g, to) ==
  /\ Idle
  /\ signalStatus[g] = "none"
  /\ signalStatus' = [signalStatus EXCEPT ![g] = to]
  /\ UNCHANGED <<accountVars, balance, sessionVars, orders, positions, trades,
                 decisions, sweep>>

DecideSignal(g, to) ==
  /\ Idle
  /\ to # "executed"
  /\ to \in SignalTransitions[signalStatus[g]]
  /\ signalStatus' = [signalStatus EXCEPT ![g] = to]
  /\ UNCHANGED <<accountVars, balance, sessionVars, orders, positions, trades,
                 decisions, sweep>>

-----------------------------------------------------------------------------
(***************************************************************************)
(* The eligibility gate (paper_trading/eligibility.py).  A request is      *)
(* submitted inside a session and trades on that session's account; its    *)
(* faults are the rules it breaks on its own, before any row is consulted. *)
(***************************************************************************)
Requests == [session : Sessions,
             action  : {"open", "close"},
             symbol  : Symbols,
             signal  : Signals \cup {None},
             faults  : FaultSets]

AccountOf(r) == sessionAccount[r.session]

HasExecution(a, g) ==
  \E o \in Orders : /\ orders[o].account = a
                    /\ orders[o].signal = g
                    /\ orders[o].status \notin NonBlockingOrderStatuses

RuleFails(r) ==
  [account_status |-> accountStatus[AccountOf(r)] # "active",
   market_data    |-> "market_data" \in r.faults,
   quantity       |-> "quantity" \in r.faults,
   price          |-> "price" \in r.faults,
   symbol         |-> "symbol" \in r.faults,
   duplicate      |-> r.signal # None /\ HasExecution(AccountOf(r), r.signal),
   lifecycle      |-> r.signal # None /\ signalStatus[r.signal] # "approved",
   promotion      |-> r.signal \in ModelSignals,
   execution_mode |-> ceiling[AccountOf(r)] # "auto_trade"]

GateOrder == <<"account_status", "market_data", "quantity", "price", "symbol",
               "duplicate", "lifecycle", "promotion", "execution_mode">>

Allowed(r) == LET fails == RuleFails(r)
              IN  \A rule \in DOMAIN fails : ~fails[rule]

(* Every rule runs, and the first that blocks is the primary reason. *)
PrimaryRule(r) ==
  LET fails == RuleFails(r)
  IN  GateOrder[CHOOSE i \in DOMAIN GateOrder :
                  /\ fails[GateOrder[i]]
                  /\ \A j \in 1..(i - 1) : ~fails[GateOrder[j]]]

RejectionReason ==
  [account_status |-> "account_not_active",
   market_data    |-> "invalid_symbol",
   quantity       |-> "invalid_quantity",
   price          |-> "invalid_price",
   symbol         |-> "invalid_symbol",
   duplicate      |-> "duplicate_execution",
   lifecycle      |-> "unsafe_action",
   promotion      |-> "execution_not_allowed",
   execution_mode |-> "execution_not_allowed"]

UnpersistableReasons == {"invalid_quantity", "invalid_symbol",
                         "account_not_paper", "missing_required_field"}

CanPersistRejection(r, reason) ==
  /\ reason \notin UnpersistableReasons
  /\ "quantity" \notin r.faults
  /\ accountStatus[AccountOf(r)] = "active"

(* submit_order's own guards, and the bound on recorded attempts.  The       *)
(* foreign key of the decision row makes the signal one that exists.         *)
Submitted(r) ==
  /\ Idle
  /\ sessionStatus[r.session] = "running"
  /\ r.signal # None => signalStatus[r.signal] # "none"
  /\ Len(decisions) < MaxDecisions

Order(r, status) ==
  [status |-> status, kind |-> r.action, account |-> AccountOf(r),
   session |-> r.session, signal |-> r.signal]

CreateOrder(o, row) ==
  /\ Unused(o, orders)
  /\ orders' = [orders EXCEPT ![o] = row]

(* Mutant: the decision is never attached to its order. *)
RecordDecisionUnattached(r, allowed, order) ==
  decisions' = Append(decisions, [account |-> AccountOf(r),
                                  session |-> r.session, signal |-> r.signal,
                                  allowed |-> allowed, order |-> None])

RecordDecision(r, allowed, order) ==
  decisions' = Append(decisions, [account |-> AccountOf(r),
                                  session |-> r.session, signal |-> r.signal,
                                  allowed |-> allowed, order |-> order])
-----------------------------------------------------------------------------
(***************************************************************************)
(* Refusals by the gate: the decision is recorded either way, a rejected   *)
(* order only when the row can hold the rejection.                         *)
(***************************************************************************)
RefuseWithOrder(r) ==
  /\ Submitted(r) /\ ~Allowed(r)
  /\ CanPersistRejection(r, RejectionReason[PrimaryRule(r)])
  /\ \E o \in Orders : /\ CreateOrder(o, Order(r, "rejected"))
                       /\ RecordDecision(r, FALSE, o)
  /\ UNCHANGED <<accountVars, balance, sessionVars, signalStatus, positions,
                 trades, sweep>>

RefuseWithoutOrder(r) ==
  /\ Submitted(r) /\ ~Allowed(r)
  /\ ~CanPersistRejection(r, RejectionReason[PrimaryRule(r)])
  /\ RecordDecision(r, FALSE, None)
  /\ UNCHANGED <<accountVars, balance, sessionVars, signalStatus, orders,
                 positions, trades, sweep>>

(* Mutant: the balance column's floor is forgotten. *)
RealizeUnfloored(a, amount) == balance' = [balance EXCEPT ![a] = @ + amount]

(* _apply_realized_pnl: the balance stops at zero. *)
Realize(a, amount) ==
  balance' = [balance EXCEPT ![a] = IF @ + amount < 0 THEN 0 ELSE @ + amount]

(* Mutant: the signal is left approved. *)
MarkExecutedForgotten(g) == UNCHANGED signalStatus

(* _mark_signal_executed. *)
MarkExecuted(g) ==
  IF g = None
    THEN UNCHANGED signalStatus
    ELSE /\ "executed" \in SignalTransitions[signalStatus[g]]
         /\ signalStatus' = [signalStatus EXCEPT ![g] = "executed"]

(***************************************************************************)
(* _execute_open: order, position, fill, commission, signal.               *)
(***************************************************************************)
ExecuteOpen(r) ==
  /\ Submitted(r) /\ Allowed(r) /\ r.action = "open"
  /\ \E o \in Orders, p \in Positions :
       /\ CreateOrder(o, Order(r, "filled"))
       /\ Unused(p, positions)
       /\ positions' = [positions EXCEPT ![p] =
                          [status |-> "open", account |-> AccountOf(r),
                           session |-> r.session, symbol |-> r.symbol,
                           signal |-> r.signal, order |-> o]]
       /\ RecordDecision(r, TRUE, o)
  /\ Realize(AccountOf(r), -Commission)
  /\ MarkExecuted(r.signal)
  /\ UNCHANGED <<accountVars, sessionVars, trades, sweep>>

(* Mutant: an already closed position is booked again. *)
BookCloseAgain(p, a, s, gross) ==
  LET net == gross - Commission
  IN  /\ positions[p].status # "none"
      /\ positions' = [positions EXCEPT ![p].status = "closed"]
      /\ Realize(a, net)
      /\ trades' = Append(trades, [position |-> p, account |-> positions[p].account,
                                   session |-> s, net |-> net,
                                   balanceAfter |-> balance'[a]])

(* Mutant: the trade's net result leaves the commission out. *)
BookCloseGross(p, a, s, gross) ==
  /\ positions[p].status = "open"
  /\ positions' = [positions EXCEPT ![p].status = "closed"]
  /\ Realize(a, gross - Commission)
  /\ trades' = Append(trades, [position |-> p, account |-> positions[p].account,
                               session |-> s, net |-> gross,
                               balanceAfter |-> balance'[a]])

(***************************************************************************)
(* close_position, the part every close shares: the position is closed in  *)
(* full, the net result moves the balance of the account the caller brought*)
(* and one trade is booked, on the account of the position and under the   *)
(* session of the request.                                                 *)
(***************************************************************************)
BookClose(p, a, s, gross) ==
  LET net == gross - Commission
  IN  /\ positions[p].status = "open"
      /\ positions' = [positions EXCEPT ![p].status = "closed"]
      /\ Realize(a, net)
      /\ trades' = Append(trades, [position |-> p, account |-> positions[p].account,
                                   session |-> s, net |-> net,
                                   balanceAfter |-> balance'[a]])

(* Mutant: the open positions of every account are listed. *)
OpenPositionsAnywhere(a, symbol) ==
  {p \in Positions : /\ positions[p].status = "open"
                     /\ positions[p].symbol = symbol}

OpenPositions(a, symbol) ==
  {p \in Positions : /\ positions[p].status = "open"
                     /\ positions[p].account = a
                     /\ positions[p].symbol = symbol}

(***************************************************************************)
(* _execute_close takes the first open position by opened_at_utc, a time   *)
(* the clients supply: any of them may be first.                           *)
(***************************************************************************)
ExecuteClose(r) ==
  /\ Submitted(r) /\ Allowed(r) /\ r.action = "close"
  /\ \E p \in OpenPositions(AccountOf(r), r.symbol), gross \in GrossPnls :
       BookClose(p, AccountOf(r), r.session, gross)
  /\ \E o \in Orders : /\ CreateOrder(o, Order(r, "filled"))
                       /\ RecordDecision(r, TRUE, o)
  /\ MarkExecuted(r.signal)
  /\ UNCHANGED <<accountVars, sessionVars, sweep>>

(* The gate allowed it, and there is nothing to close. *)
CloseNothing(r) ==
  /\ Submitted(r) /\ Allowed(r) /\ r.action = "close"
  /\ OpenPositions(AccountOf(r), r.symbol) = {}
  /\ \E o \in Orders : /\ CreateOrder(o, Order(r, "rejected"))
                       /\ RecordDecision(r, TRUE, o)
  /\ UNCHANGED <<accountVars, balance, sessionVars, signalStatus, positions,
                 trades, sweep>>

(* The gate allowed it, and the quantity is not the open one. *)
CloseMismatch(r) ==
  /\ Submitted(r) /\ Allowed(r) /\ r.action = "close"
  /\ OpenPositions(AccountOf(r), r.symbol) # {}
  /\ RecordDecision(r, TRUE, None)
  /\ UNCHANGED <<accountVars, balance, sessionVars, signalStatus, orders,
                 positions, trades, sweep>>

Exit(p, s) ==
  [status |-> "filled", kind |-> "exit", account |-> positions[p].account,
   session |-> s, signal |-> positions[p].signal]

(***************************************************************************)
(* POST .../positions/{id}/close: no gate and no look at the session's     *)
(* status, only that it exists and the position belongs to it.  The money  *)
(* moves on the session's account.                                         *)
(***************************************************************************)
ClosePosition(s, p) ==
  /\ Idle
  /\ sessionStatus[s] # "none" /\ positions[p].session = s
  /\ \E gross \in GrossPnls : BookClose(p, sessionAccount[s], s, gross)
  /\ \E o \in Orders : CreateOrder(o, Exit(p, s))
  /\ UNCHANGED <<accountVars, sessionVars, signalStatus, decisions, sweep>>

(***************************************************************************)
(* process_bar and close_all_positions: list the open positions of the     *)
(* account and symbol, then visit them.  A bar closes the ones whose stop  *)
(* or target it hits, a flatten all of them.  The caller's service books   *)
(* under a session of the account or under none; its status is not read.   *)
(***************************************************************************)
StartSweep(kind, a, symbol, s) ==
  /\ Idle
  /\ OpenPositions(a, symbol) # {}
  /\ s # None => sessionStatus[s] # "none" /\ sessionAccount[s] = a
  /\ sweep' = [kind |-> kind, account |-> a, session |-> s,
               left |-> OpenPositions(a, symbol)]
  /\ UNCHANGED <<accountVars, balance, sessionVars, signalStatus, orders,
                 positions, trades, decisions>>

Visited(p) == sweep' = IF sweep.left = {p} THEN NoSweep
                       ELSE [sweep EXCEPT !.left = @ \ {p}]

SweepCloses(p) ==
  /\ p \in sweep.left
  /\ \E gross \in GrossPnls : BookClose(p, sweep.account, sweep.session, gross)
  /\ \E o \in Orders : CreateOrder(o, Exit(p, sweep.session))
  /\ Visited(p)
  /\ UNCHANGED <<accountVars, sessionVars, signalStatus, decisions>>

SweepPasses(p) ==
  /\ p \in sweep.left
  /\ sweep.kind = "bar"
  /\ Visited(p)
  /\ UNCHANGED <<accountVars, balance, sessionVars, signalStatus, orders,
                 positions, trades, decisions>>

Next ==
  \/ \E a \in Accounts :
       \/ \E to \in {"active", "suspended"} : SetAccountStatus(a, to)
       \/ \E to \in {"auto_trade", "signal_only"} : SetExecutionMode(a, to)
       \/ \E s \in Sessions : OpenSession(s, a)
       \/ \E kind \in {"bar", "flatten"}, symbol \in Symbols,
             s \in Sessions \cup {None} : StartSweep(kind, a, symbol, s)
  \/ \E s \in Sessions :
       \/ \E command \in DOMAIN SessionCommands : CommandSession(s, command)
       \/ \E p \in Positions : ClosePosition(s, p)
  \/ \E g \in Signals :
       \/ \E to \in CreatableSignalStatuses : CreateSignal(g, to)
       \/ \E to \in SignalStatuses : DecideSignal(g, to)
  \/ \E r \in Requests :
       \/ RefuseWithOrder(r)
       \/ RefuseWithoutOrder(r)
       \/ ExecuteOpen(r)
       \/ ExecuteClose(r)
       \/ CloseNothing(r)
       \/ CloseMismatch(r)
  \/ \E p \in Positions : SweepCloses(p) \/ SweepPasses(p)

Spec == Init /\ [][Next]_vars

-----------------------------------------------------------------------------
OrderRows == [status  : OrderStatuses,
              kind    : {"none", "open", "close", "exit"},
              account : Accounts \cup {None},
              session : Sessions \cup {None},
              signal  : Signals \cup {None}]
PositionRows == [status  : PositionStatuses,
                 account : Accounts \cup {None},
                 session : Sessions \cup {None},
                 symbol  : Symbols \cup {None},
                 signal  : Signals \cup {None},
                 order   : Orders \cup {None}]
TradeRows == [position : Positions, account : Accounts,
              session : Sessions \cup {None}, net : Int, balanceAfter : Nat]
DecisionRows == [account : Accounts, session : Sessions,
                 signal : Signals \cup {None}, allowed : BOOLEAN,
                 order : Orders \cup {None}]
Sweeps == [kind : {"idle", "bar", "flatten"}, account : Accounts \cup {None},
           session : Sessions \cup {None}, left : SUBSET Positions]

(* Types of every row. *)
TypeOK ==
  /\ accountStatus \in [Accounts -> {"active", "suspended"}]
  /\ ceiling \in [Accounts -> {"auto_trade", "signal_only"}]
  /\ balance \in [Accounts -> Nat]
  /\ sessionStatus \in [Sessions -> SessionStatuses]
  /\ sessionAccount \in [Sessions -> Accounts \cup {None}]
  /\ signalStatus \in [Signals -> SignalStatuses]
  /\ orders \in [Orders -> OrderRows]
  /\ positions \in [Positions -> PositionRows]
  /\ trades \in Seq(TradeRows)
  /\ decisions \in Seq(DecisionRows)
  /\ sweep \in Sweeps

(* The orders a request of a caller filled for signal g; the exit orders the  *)
(* service writes carry the signal of their position and are left out.        *)
FillsOf(g) == {o \in Orders : /\ orders[o].signal = g
                              /\ orders[o].status = "filled"
                              /\ orders[o].kind # "exit"}

(* "So retrying after a rejection stays allowed", and a second fill does not: *)
(* whatever was rejected, closed or retried, on whichever account, a signal   *)
(* is executed exactly when one order was filled for it, and never two; and   *)
(* as long as it is approved no order of an earlier attempt blocks the next.  *)
SignalConsumedOnce ==
  \A g \in Signals :
    /\ signalStatus[g] = "executed" <=> FillsOf(g) # {}
    /\ \A o, q \in FillsOf(g) : o = q
    /\ signalStatus[g] = "approved" => \A a \in Accounts : ~HasExecution(a, g)

(* Every way to close -- a CLOSE order, the close endpoint, a bar, a flatten  *)
(* -- leaves the books in step: a closed position has exactly one trade, an   *)
(* open one none, and the trade is on the account that held it.               *)
TradesOf(p) == {i \in DOMAIN trades : trades[i].position = p}

BookedOnce ==
  \A p \in Positions :
    /\ positions[p].status = "closed" <=> TradesOf(p) # {}
    /\ \A i, j \in TradesOf(p) : i = j
    /\ \A i \in TradesOf(p) : trades[i].account = positions[p].account

(* "Activity cannot be ... smuggled onto a different account": orders,        *)
(* positions and trades sit on the account of the session they were booked    *)
(* under, also when a CLOSE order closes a position another session opened.   *)
SameAccount(row) == row.session # None => row.account = sessionAccount[row.session]

BookedOnSessionAccount ==
  /\ \A o \in Orders : SameAccount(orders[o])
  /\ \A p \in Positions : SameAccount(positions[p])
  /\ \A i \in DOMAIN trades : SameAccount(trades[i])

(* "Exactly one new decision is expected": every order a caller sent has      *)
(* exactly one decision.  What a refusal leaves behind besides its decision   *)
(* is at most one rejected order (commands.py:140 says none, _reject writes   *)
(* it): a fill needs a decision that allowed it, and every position goes back *)
(* to a filled order of its own.                                              *)
DecisionsExplainOrders ==
  /\ \A o \in Orders :
       orders[o].kind \in {"open", "close"} =>
         /\ \E i \in DOMAIN decisions : decisions[i].order = o
         /\ \A i, j \in DOMAIN decisions :
              decisions[i].order = o /\ decisions[j].order = o => i = j
  /\ \A i \in DOMAIN decisions :
       decisions[i].order # None =>
         LET row == orders[decisions[i].order]
         IN  /\ row.account = decisions[i].account
             /\ row.session = decisions[i].session
             /\ row.signal = decisions[i].signal
             /\ ~decisions[i].allowed => row.status = "rejected"
  /\ \A p \in Positions :
       positions[p].status # "none" =>
         /\ positions[p].order \in Orders
         /\ LET row == orders[positions[p].order]
            IN  row.status = "filled" /\ row.kind = "open"
         /\ \A q \in Positions : positions[q].order = positions[p].order => q = p

(* No loss of money: the balance is at least what the account started with    *)
(* plus the net of its trades less the commission of each entry; only the     *)
(* floor at zero may leave more.                                              *)
Nets == [i \in DOMAIN trades |-> trades[i].net]
TradesOn(a) == {i \in DOMAIN trades : trades[i].account = a}
EnteredOn(a) == {p \in Positions : positions[p].account = a}

BalanceCoversBooks ==
  \A a \in Accounts :
    balance[a] >= InitialBalance + SumFunctionOnSet(Nets, TradesOn(a))
                    - Commission * Cardinality(EnteredOn(a))

(* The paper ledger: every step above enters or settles one position, moves   *)
(* its owner's money once and spends at most one fresh signal.                *)
Ledger == INSTANCE PaperLedger WITH
            holding <- [p \in Positions |-> positions[p].status],
            owner   <- [p \in Positions |-> positions[p].account],
            cash    <- balance,
            spent   <- {g \in Signals : signalStatus[g] = "executed"}

ImplementsLedger == Ledger!Spec

(* "A paused or finished run must not silently accept more activity"          *)
(* (session_service.py:444): once a session ended, nothing is booked under it.*)
BookedUnder(s) == <<{o \in Orders : orders[o].session = s},
                    {i \in DOMAIN trades : trades[i].session = s}>>

FinishedRunIsFrozen ==
  [][\A s \in Sessions :
       sessionStatus[s] \in TerminalSessionStatuses =>
         BookedUnder(s)' = BookedUnder(s)]_vars
=============================================================================
