\* Two accounts without commission: sessions, positions, trades and money of both.
CONSTANTS
  Accounts = {a1, a2}
  Sessions = {s1, s2}
  Signals = {}
  Orders = {1, 2, 3, 4}
  Positions = {1, 2}
  Symbols = {x}
  ModelSignals = {}
  InitialBalance = 1
  Commission = 0
  MaxDecisions = 2
  None = None
  GrossPnls <- MCGrossPnls
  FaultSets <- MCFaultSets
SPECIFICATION Spec
SYMMETRY Identical
CHECK_DEADLOCK FALSE
INVARIANTS
  BookedOnce
  BookedOnSessionAccount
