\* Four bars, two positions, a cost of one per entry and exit.
SPECIFICATION BacktestSpec
CONSTANTS
  InitialBalance = 4
  AdverseCost = 1
  Commission = 0
  FixedQuantity = 0
  RiskQuantities = {1}
  AllowShort = TRUE
  MaxOpenPositions = 2
  Timing = "next_open"
  MaxBars = 4
  Bars <- MCBars
  Signals <- MCSignals
  Symbols <- MCSymbols
INVARIANTS
  LeavesAtFirstTouch
  OneFate
  DrawdownIsWorst
CHECK_DEADLOCK FALSE
