---------------------------- MODULE MemoryBroker ----------------------------
(* InMemoryPaperBroker (paper_trading/memory_broker.py): orders filled by     *)
(* explicit calls, wholly or in part, on one symbol.  Nothing is undone when  *)
(* a call raises, so what it booked before stays.  Times and prices are the   *)
(* caller's; commissions and prices are small integers.                       *)
EXTENDS Integers, Sequences, FiniteSetsExt, Functions

CONSTANTS Quantities, Prices, Commissions,
          Times,            \* client-supplied times
          StartingBalance,
          MaxOrders,        \* bound: submitted orders
          MaxFills          \* bound: fill_order calls that book a fill

ASSUME BrokerConfig ==
  /\ Quantities \subseteq Nat \ {0} /\ Prices \subseteq Nat \ {0}
  /\ Commissions \subseteq Nat /\ Times \subseteq Nat
  /\ StartingBalance \in Nat \ {0}

VARIABLES orders,     \* _orders, in insertion order
          fills,      \* _fills
          positions,  \* _positions, in insertion order
          trades,     \* _trades
          balance,    \* current_balance
          orphans     \* observer: fills that found no position to close

vars == <<orders, fills, positions, trades, balance, orphans>>

Actions == {"buy", "sell", "close"}
Terminal == {"filled", "cancelled"}

Init ==
  /\ orders = <<>> /\ fills = <<>> /\ positions = <<>> /\ trades = <<>>
  /\ balance = StartingBalance
  /\ orphans = {}

OpenQuantity(p) == positions[p].quantity - positions[p].closed
OpenPositions == {p \in DOMAIN positions : OpenQuantity(p) > 0}

\* list_open_positions sorts by opened_at_utc; ties keep their insertion order.
Before(p, q) == \/ positions[p].opened < positions[q].opened
                \/ positions[p].opened = positions[q].opened /\ p <= q
FirstOpen == CHOOSE p \in OpenPositions : \A q \in OpenPositions : Before(p, q)

(* submit_order accepts at once.  A close needs an open position now, not when *)
(* it is filled; a refused request, and a negative balance that makes          *)
(* get_account_state raise, change nothing.                                    *)
Submit(action, quantity) ==
  /\ Len(orders) < MaxOrders
  /\ action = "close" => OpenPositions # {}
  /\ orders' = Append(orders, [action |-> action, quantity |-> quantity,
                               filled |-> 0, status |-> "accepted"])
  /\ UNCHANGED <<fills, positions, trades, balance, orphans>>

Cancel(o) ==
  /\ orders[o].status \notin Terminal
  /\ orders' = [orders EXCEPT ![o].status = "cancelled"]
  /\ UNCHANGED <<fills, positions, trades, balance, orphans>>

\* A fill may not exceed what is left of its order.
Fits(o, quantity) == quantity <= orders[o].quantity - orders[o].filled

\* The part of fill_order before the positions: it is never taken back.
BookFill(o, quantity, price, at, commission) ==
  /\ Len(fills) < MaxFills
  /\ orders[o].status \notin Terminal
  /\ Fits(o, quantity)
  /\ fills' = Append(fills, [order |-> o, quantity |-> quantity, price |-> price,
                             at |-> at, commission |-> commission])
  /\ LET total == orders[o].filled + quantity IN
     orders' = [orders EXCEPT
       ![o].filled = total,
       ![o].status = IF total >= orders[o].quantity THEN "filled" ELSE "partially_filled"]

\* _open_position: every fill of an opening order is a position of its own.
FillOpening(o, quantity, price, at, commission) ==
  /\ orders[o].action # "close"
  /\ BookFill(o, quantity, price, at, commission)
  /\ positions' = Append(positions,
       [side |-> orders[o].action, quantity |-> quantity, entry |-> price,
        opened |-> at, closed |-> 0, realized |-> 0])
  /\ balance' = balance - commission
  /\ UNCHANGED <<trades, orphans>>

\* The position was closed by another order since: the call raises, the fill
\* and the order stay.
FillNothingToClose(o, quantity, price, at, commission) ==
  /\ orders[o].action = "close" /\ OpenPositions = {}
  /\ BookFill(o, quantity, price, at, commission)
  /\ orphans' = orphans \cup {Len(fills')}
  /\ UNCHANGED <<positions, trades, balance>>

\* Mutant: any fill closes the whole position.
TakenOpen(p, quantity) == OpenQuantity(p)
\* What a fill takes off the position it closes.
Taken(p, quantity) == Min({quantity, OpenQuantity(p)})

Gross(p, quantity, price) ==
  (price - positions[p].entry) * quantity * (IF positions[p].side = "buy" THEN 1 ELSE -1)

\* Mutant: the commission of a closing fill is not charged.
CreditedGross(gross, commission) == balance + gross
Credited(gross, commission) == balance + gross - commission

\* Mutant: a position closed in the instant it opened has no trade.
TradeFitsStrictly(p, at) == at > positions[p].opened
\* PaperTrade refuses to be closed before it was opened.
TradeFits(p, at) == at >= positions[p].opened

\* updated_position: the status follows from the quantities.
Updated(row, quantity, gross) ==
  [row EXCEPT !.closed = @ + quantity, !.realized = @ + gross]

(* _close_position: the oldest open position takes the fill up to what it has  *)
(* open; the rest of the fill is dropped.  A trade closed before it opened     *)
(* cannot be built, and raises after position and balance changed.             *)
FillClosing(o, quantity, price, at, commission) ==
  /\ orders[o].action = "close" /\ OpenPositions # {}
  /\ BookFill(o, quantity, price, at, commission)
  /\ LET p == FirstOpen
         taken == Taken(p, quantity)
         gross == Gross(p, taken, price)
     IN /\ positions' = [positions EXCEPT ![p] = Updated(@, taken, gross)]
        /\ balance' = Credited(gross, commission)
        /\ trades' = IF ~TradeFits(p, at) THEN trades
                     ELSE Append(trades, [position |-> p, quantity |-> taken, gross |-> gross,
                                          commission |-> commission, after |-> balance'])
  /\ UNCHANGED orphans

Fill(o) ==
  \E quantity \in Quantities, price \in Prices, at \in Times, commission \in Commissions :
    \/ FillOpening(o, quantity, price, at, commission)
    \/ FillNothingToClose(o, quantity, price, at, commission)
    \/ FillClosing(o, quantity, price, at, commission)

Next ==
  \/ \E action \in Actions, quantity \in Quantities : Submit(action, quantity)
  \/ \E o \in DOMAIN orders : Cancel(o) \/ Fill(o)

Spec == Init /\ [][Next]_vars

\* Columns of the tables, to be summed over some of their rows.
Opened == [p \in DOMAIN positions |-> positions[p].quantity]
Closed == [p \in DOMAIN positions |-> positions[p].closed]
Realized == [p \in DOMAIN positions |-> positions[p].realized]
Filled == [i \in DOMAIN fills |-> fills[i].quantity]
Charged == [i \in DOMAIN fills |-> fills[i].commission]
Traded == [i \in DOMAIN trades |-> trades[i].quantity]
Earned == [i \in DOMAIN trades |-> trades[i].gross]

ClosingFills == {i \in DOMAIN fills : orders[fills[i].order].action = "close"}
TradesOf(p) == {i \in DOMAIN trades : trades[i].position = p}

(* What is open is what opening fills opened less what closing fills took:     *)
(* nothing is closed without a closing fill, or beyond its quantity, however   *)
(* fills, cuts and orphaned fills follow each other.                           *)
NothingClosedUnfilled ==
  /\ \A p \in DOMAIN positions : positions[p].closed \in 0 .. positions[p].quantity
  /\ SumFunction(Opened) = SumFunctionOnSet(Filled, DOMAIN fills \ ClosingFills)
  /\ SumFunction(Closed) <= SumFunctionOnSet(Filled, ClosingFills \ orphans)

(* The balance is the starting balance plus what the positions realised less   *)
(* the commissions of every fill but those that found nothing to close: also   *)
(* after a call that raised half-way.                                          *)
BalanceAddsUp ==
  balance = StartingBalance + SumFunction(Realized)
            - SumFunctionOnSet(Charged, DOMAIN fills \ orphans)

(* The trades of a position account for everything closed of it, unless some   *)
(* fill of the account is dated before that position was opened: then a trade  *)
(* may be missing, never one too many.                                         *)
TradesExplainPositions ==
  \A p \in DOMAIN positions :
    LET traded == SumFunctionOnSet(Traded, TradesOf(p))
        earned == SumFunctionOnSet(Earned, TradesOf(p))
    IN /\ traded <= positions[p].closed
       /\ (\A i \in ClosingFills : fills[i].at >= positions[p].opened)
            => traded = positions[p].closed /\ earned = positions[p].realized
=============================================================================
