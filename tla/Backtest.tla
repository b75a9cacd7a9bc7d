------------------------------ MODULE Backtest ------------------------------
(* A backtest run (backtesting/runner.py and strategy_runner.py): one bar    *)
(* after the other, first the stops and targets of the open positions, then  *)
(* the signal of the bar, then a point of the equity curve; at the end of    *)
(* the data every position left is closed.  What raises ends the run before  *)
(* it writes any result.                                                     *)
EXTENDS BacktestSimulator

CONSTANTS Bars,       \* records open, high, low, close
          Signals,    \* entries: records side, symbol, stop, target
          Symbols,
          MaxBars     \* bound: rows of the data

\* A price is positive; a level is positive or not set.
Candles == [open : Nat \ {0}, high : Nat \ {0}, low : Nat \ {0}, close : Nat \ {0}]
Entries == [side : {"long", "short"}, symbol : Symbols, stop : Nat, target : Nat]

ASSUME BacktestInputs ==
  /\ Bars \subseteq Candles
  /\ \A b \in Bars : b.low <= b.open /\ b.low <= b.close
                    /\ b.open <= b.high /\ b.close <= b.high
  /\ Signals \subseteq Entries
  /\ MaxBars \in Nat

VARIABLES policy,     \* intrabar_exit_policy
          state,      \* BacktestSimulationState
          bars,       \* the bars so far
          curve,      \* equity_points
          peak,       \* peak_equity
          phase       \* where the loop stands

backtestVars == <<policy, state, bars, curve, peak, phase>>

Now == Len(bars)
Bar == bars[Now]

BacktestInit ==
  /\ policy \in Policies
  /\ state = InitialState
  /\ bars = <<>> /\ curve = <<>>
  /\ peak = InitialBalance
  /\ phase = "bar"

\* What follows a step of the loop: the next one, or nothing after a raise.
Continue(next) == phase' = IF state'.raised THEN "failed" ELSE next

NextBar(bar) ==
  /\ phase = "bar" /\ Now < MaxBars
  /\ bars' = Append(bars, bar)
  /\ state' = ApplyLifecycle(state, bar, policy, Now + 1)
  /\ Continue("signal")
  /\ UNCHANGED <<policy, curve, peak>>

(* apply_backtest_signal.                                                     *)
Hold ==
  /\ phase = "signal"
  /\ phase' = "point"
  /\ UNCHANGED <<policy, state, bars, curve, peak>>

ExitSignal(symbol) ==
  /\ phase = "signal"
  /\ state' = CloseAll(state, {p \in state.open : p.symbol = symbol}, Bar,
                       "signal_exit", Now)
  /\ Continue("point")
  /\ UNCHANGED <<policy, bars, curve, peak>>

EntryRefused(signal) ==
  /\ phase = "signal"
  /\ Refused(state, signal)
  /\ state' = Refuse(state, signal, Now)
  /\ phase' = "point"
  /\ UNCHANGED <<policy, bars, curve, peak>>

EntryFilled(signal) ==
  /\ phase = "signal"
  /\ ~Refused(state, signal)
  /\ EntryPrice(signal, Bar) > 0
  /\ \E quantity \in QuantitiesFor(state, EntryPrice(signal, Bar), signal.stop) :
       state' = Enter(state, signal, Bar, quantity, Now)
  /\ phase' = "point"
  /\ UNCHANGED <<policy, bars, curve, peak>>

EntryRaises(signal) ==
  /\ phase = "signal"
  /\ ~Refused(state, signal)
  /\ \/ EntryPrice(signal, Bar) <= 0
     \/ QuantitiesFor(state, EntryPrice(signal, Bar), signal.stop) = {}
  /\ phase' = "failed"
  /\ UNCHANGED <<policy, state, bars, curve, peak>>

(* build_backtest_equity_point_from_state: open positions at the close; a     *)
(* negative equity raises.                                                    *)
Equity(s) ==
  s.balance + SumFunctionOnSet([p \in s.open |-> GrossPnl(p, Bar.close)], s.open)

PointOf(s) == [at |-> Now, balance |-> s.balance, equity |-> Equity(s),
               fall |-> IF Equity(s) >= peak THEN 0 ELSE peak - Equity(s), from |-> peak]

\* Mutant: the peak follows the equity down.
LastPeak(equity) == equity
NewPeak(equity) == IF equity > peak THEN equity ELSE peak

RecordPoint ==
  /\ phase = "point"
  /\ IF Equity(state) < 0
     THEN phase' = "failed" /\ UNCHANGED <<curve, peak>>
     ELSE /\ curve' = Append(curve, PointOf(state))
          /\ peak' = NewPeak(Equity(state))
          /\ phase' = "bar"
  /\ UNCHANGED <<policy, state, bars>>

(* The end of the data: positions left are closed on the last bar, and a      *)
(* second point of that bar ends the curve.                                   *)
EndOfData ==
  /\ phase = "bar"
  /\ IF state.open = {} THEN phase' = "finished" /\ UNCHANGED <<state, curve>>
     ELSE /\ state' = CloseAll(state, state.open, Bar, "end_of_data", Now)
          /\ curve' = IF state'.raised THEN curve ELSE Append(curve, PointOf(state'))
          /\ Continue("finished")
  /\ UNCHANGED <<policy, bars, peak>>

BacktestNext ==
  \/ \E bar \in Bars : NextBar(bar)
  \/ Hold
  \/ \E symbol \in Symbols : ExitSignal(symbol)
  \/ \E signal \in Signals :
       EntryRefused(signal) \/ EntryFilled(signal) \/ EntryRaises(signal)
  \/ RecordPoint
  \/ EndOfData

BacktestSpec == BacktestInit /\ [][BacktestNext]_backtestVars

-----------------------------------------------------------------------------
(* build_backtest_equity_curve: the worst fall and the worst fraction, as a   *)
(* pair, found in one pass with a peak of its own.                            *)
Worse(a, b) == a.fall * b.from >= b.fall * a.from

PassStart == [top |-> InitialBalance, amount |-> 0,
              worst |-> [fall |-> 0, from |-> InitialBalance]]
PassPoint(c, point) ==
  LET top  == IF point.equity > c.top THEN point.equity ELSE c.top
      fall == top - point.equity
  IN [top |-> top,
      amount |-> IF fall > c.amount THEN fall ELSE c.amount,
      worst |-> IF Worse(c.worst, point) THEN c.worst
                ELSE [fall |-> point.fall, from |-> point.from]]

BuildCurve ==
  LET pass[n \in 0 .. Len(curve)] ==
        IF n = 0 THEN PassStart ELSE PassPoint(pass[n - 1], curve[n])
  IN pass[Len(curve)]

-----------------------------------------------------------------------------
Trades == Range(state.trades)

Touches(p, i) == StopHit(p, bars[i]) \/ TargetHit(p, bars[i])

(* A position leaves the market on the first bar after its own that touches   *)
(* its stop or its target, at the policy's choice of the two, unless a signal *)
(* or the end of the data took it out on an earlier bar; none outlives such a *)
(* bar.                                                                       *)
LeavesAtFirstTouch ==
  phase # "failed" =>
    /\ \A p \in state.open : \A i \in p.id + 1 .. Now : ~Touches(p, i)
    /\ \A t \in Trades :
         LET p == t.position
             atLevel == t.reason \in {"stop_loss", "take_profit"}
         IN /\ \A i \in p.id + 1 .. t.at - 1 : ~Touches(p, i)
            /\ atLevel <=> (t.at > p.id /\ Touches(p, t.at))
            /\ t.reason = "take_profit" =>
                 (policy = "stop_loss_first" => ~StopHit(p, bars[t.at]))

(* Every filled order has exactly one fate: its position is open, or it was   *)
(* closed by exactly one trade; a run that finished has no open position, and *)
(* its balance is the initial one plus the net result of the trades.  Never   *)
(* are more positions open than max_open_positions, whatever order the exits  *)
(* and entries of a bar come in.                                              *)
OneFate ==
  LET filled == {i \in DOMAIN state.orders : state.orders[i].status = "filled"}
      nets   == [i \in DOMAIN state.trades |-> state.trades[i].net]
  IN /\ Cardinality(state.open) <= MaxOpenPositions
     /\ {state.orders[i].id : i \in filled}
          = {p.id : p \in state.open} \cup {t.position.id : t \in Trades}
     /\ Cardinality(state.open) + Len(state.trades) = Cardinality(filled)
     /\ phase = "finished" => state.open = {}
     /\ state.balance = InitialBalance + SumFunctionOnSet(nets, DOMAIN nets)

(* The drawdown a report states is the worst fall of the equity from any      *)
(* earlier point, or from the initial balance, in amount and in fraction; and *)
(* a finished curve ends on the balance of the account.                       *)
EquityAt(i) == IF i = 0 THEN InitialBalance ELSE curve[i].equity
DrawdownIsWorst ==
  LET c == BuildCurve
      Falls == {f \in (0 .. Len(curve)) \X (0 .. Len(curve)) : f[1] <= f[2]}
  IN /\ \A f \in Falls : LET fall == EquityAt(f[1]) - EquityAt(f[2])
                         IN /\ fall <= c.amount
                            /\ fall * c.worst.from <= c.worst.fall * EquityAt(f[1])
     /\ \E f \in Falls : c.amount = EquityAt(f[1]) - EquityAt(f[2])
     /\ \E f \in Falls : /\ c.worst.from = EquityAt(f[1])
                         /\ c.worst.fall = EquityAt(f[1]) - EquityAt(f[2])
     /\ phase = "finished" /\ curve # <<>> =>
          /\ curve[Len(curve)].equity = state.balance
          /\ curve[Len(curve)].balance = state.balance
=============================================================================
