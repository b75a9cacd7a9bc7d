------------------------- MODULE BacktestSimulator -------------------------
(* The functions of backtesting/simulator.py over a simulation state: a      *)
(* record of the balance, the open positions, the orders and the trades.     *)
(* Prices and money are integers; a level of 0 is a level that is not set.   *)
(* Orders and positions are known by the bar of their entry (order_index), so *)
(* the tuple of open positions is a set that is walked in the order of ids.   *)
(* `raised` stands for a ValueError, which ends the run.                     *)
EXTENDS Integers, Sequences, FiniteSets, Functions

CONSTANTS InitialBalance,
          AdverseCost,       \* half of spread_points plus slippage_points
          Commission,        \* commission_per_trade, charged twice per trade
          FixedQuantity,     \* fixed_quantity, or 0: sized by the risk fraction
          RiskQuantities,    \* what the risk fraction may yield
          AllowShort, MaxOpenPositions,
          Timing             \* execution_timing

ASSUME SimulatorConfig ==
  /\ InitialBalance \in Nat \ {0} /\ AdverseCost \in Nat /\ Commission \in Nat
  /\ FixedQuantity \in Nat /\ RiskQuantities \subseteq Nat \ {0}
  /\ AllowShort \in BOOLEAN /\ MaxOpenPositions \in Nat \ {0}
  /\ Timing \in {"current_close", "next_open"}

Policies == {"stop_loss_first", "take_profit_first"}
Unset == 0

InitialState == [balance |-> InitialBalance, open |-> {}, orders |-> <<>>,
                 trades |-> <<>>, raised |-> FALSE]

\* Entering long and leaving short pay the cost on top, the others below.
MarketPrice(side, base, entering) ==
  IF (side = "long") <=> entering THEN base + AdverseCost ELSE base - AdverseCost

\* Also with "next_open" it is the bar at hand whose price is taken.
BarPrice(bar) == IF Timing = "current_close" THEN bar.close ELSE bar.open

StopHit(p, bar) ==
  p.stop # Unset /\ IF p.side = "long" THEN bar.low <= p.stop ELSE bar.high >= p.stop

TargetHit(p, bar) ==
  p.target # Unset /\ IF p.side = "long" THEN bar.high >= p.target ELSE bar.low <= p.target

ExitReason(p, bar, policy) ==
  IF StopHit(p, bar) /\ (TargetHit(p, bar) => policy = "stop_loss_first")
  THEN "stop_loss" ELSE "take_profit"

GrossPnl(p, exit) ==
  (exit - p.entry) * p.quantity * (IF p.side = "long" THEN 1 ELSE -1)

\* Mutant: every position on the symbol leaves the list, one trade is booked.
WithoutSymbol(open, p) == {q \in open : q.symbol # p.symbol}
Without(open, p) == {q \in open : q.id # p.id}

(* close_backtest_position_at_price.  A price that is not positive and a      *)
(* balance below zero raise.                                                  *)
Close(s, p, base, reason, at) ==
  LET exit == MarketPrice(p.side, base, FALSE)
      net  == GrossPnl(p, exit) - 2 * Commission
  IN IF s.raised \/ exit <= 0 \/ s.balance + net < 0 THEN [s EXCEPT !.raised = TRUE]
     ELSE [balance |-> s.balance + net,
           open |-> Without(s.open, p),
           orders |-> s.orders,
           trades |-> Append(s.trades, [position |-> p, at |-> at, exit |-> exit,
                                        net |-> net, reason |-> reason]),
           raised |-> FALSE]

\* The turn of the n-th position in the loops below: it leaves if it is due.
CloseDue(s, exits, n, at) ==
  LET due == {p \in DOMAIN exits : p.id = n}
      p   == CHOOSE q \in due : TRUE
  IN IF due = {} THEN s ELSE Close(s, p, exits[p].base, exits[p].reason, at)

(* The loop over the open positions as they were: those in the domain of      *)
(* `exits` leave, each at the price and for the reason given there.           *)
CloseEach(s, exits, at) ==
  LET closed[n \in 0 .. at] ==
        IF n = 0 THEN s ELSE CloseDue(closed[n - 1], exits, n, at)
  IN closed[at]

\* Mutant: the loop over the positions ends at the first that leaves.
FirstTouched(s, bar) ==
  LET touched == {p \in s.open : StopHit(p, bar) \/ TargetHit(p, bar)}
  IN {p \in touched : \A q \in touched : p.id <= q.id}
Touched(s, bar) == {p \in s.open : StopHit(p, bar) \/ TargetHit(p, bar)}

\* apply_position_lifecycle_on_bar: at the level that was reached.
ApplyLifecycle(s, bar, policy, at) ==
  LET Exit(p) == LET reason == ExitReason(p, bar, policy)
                 IN [base |-> IF reason = "stop_loss" THEN p.stop ELSE p.target,
                     reason |-> reason]
  IN CloseEach(s, [p \in Touched(s, bar) |-> Exit(p)], at)

\* close_all_backtest_positions: those that leave, all or those of one symbol.
CloseAll(s, leaving, bar, reason, at) ==
  CloseEach(s, [p \in leaving |-> [base |-> BarPrice(bar), reason |-> reason]], at)

Order(signal, status, at) ==
  [id |-> at, side |-> signal.side, symbol |-> signal.symbol, status |-> status]

\* build_rejected_backtest_order, and the order kept.
Refuse(s, signal, at) == [s EXCEPT !.orders = Append(@, Order(signal, "rejected", at))]

Refused(s, signal) ==
  \/ Cardinality(s.open) >= MaxOpenPositions
  \/ signal.side = "short" /\ ~AllowShort

(* calculate_backtest_position_quantity: no quantity when it raises, for a    *)
(* balance of zero or a stop at the entry price.                              *)
QuantitiesFor(s, entry, stop) ==
  IF s.balance = 0 THEN {}
  ELSE IF FixedQuantity # 0 THEN {FixedQuantity}
  ELSE IF stop = entry THEN {}
  ELSE RiskQuantities

EntryPrice(signal, bar) == MarketPrice(signal.side, BarPrice(bar), TRUE)

\* fill_market_order_from_signal and open_position_from_filled_order.
Enter(s, signal, bar, quantity, at) ==
  LET position == [id |-> at, symbol |-> signal.symbol, side |-> signal.side,
                   entry |-> EntryPrice(signal, bar), quantity |-> quantity,
                   stop |-> signal.stop, target |-> signal.target]
  IN [balance |-> s.balance,
      open |-> s.open \cup {position},
      orders |-> Append(s.orders, Order(signal, "filled", at)),
      trades |-> s.trades,
      raised |-> s.raised]
=============================================================================
