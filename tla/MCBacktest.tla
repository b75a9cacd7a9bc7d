----------------------------- MODULE MCBacktest -----------------------------
(* A flat bar, a wide one that reaches every level, and a bar above and one   *)
(* below the others; entries with a stop and a target on either side, a stop  *)
(* on the wrong side, and none.                                               *)
EXTENDS Backtest

Candle(open, high, low, close) ==
  [open |-> open, high |-> high, low |-> low, close |-> close]
Entry(side, symbol, stop, target) ==
  [side |-> side, symbol |-> symbol, stop |-> stop, target |-> target]

MCBars == {Candle(3, 3, 3, 3), Candle(3, 5, 2, 3), Candle(4, 5, 4, 5), Candle(2, 2, 1, 1)}
MCSignals == {Entry("long", "x", 2, 5), Entry("short", "y", 5, 2),
              Entry("long", "x", 4, 0), Entry("short", "x", 0, 0)}
MCSymbols == {"x", "y"}
=============================================================================
