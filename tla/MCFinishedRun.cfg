\* Does anything get booked under a session that has ended?
CONSTANTS
  Accounts = {a1}
  Sessions = {s1}
  Signals = {g1}
  Orders = {1, 2}
  Positions = {1}
  Symbols = {x}
  ModelSignals = {}
  InitialBalance = 2
  Commission = 1
  MaxDecisions = 1
  None = None
  GrossPnls <- MCGrossPnls
  FaultSets <- MCFaultSets
SPECIFICATION Spec
SYMMETRY Identical
CHECK_DEADLOCK FALSE
PROPERTY
  FinishedRunIsFrozen
