\* One account with a commission: a session, a signal, four orders, two positions.
CONSTANTS
  Accounts = {a1}
  Sessions = {s1}
  Signals = {g1}
  Orders = {1, 2, 3, 4}
  Positions = {1, 2}
  Symbols = {x}
  ModelSignals = {}
  InitialBalance = 2
  Commission = 1
  MaxDecisions = 2
  None = None
  GrossPnls <- MCGrossPnls
  FaultSets <- MCFaultSets
SPECIFICATION Spec
CHECK_DEADLOCK FALSE
INVARIANTS
  TypeOK
  SignalConsumedOnce
  DecisionsExplainOrders
  BalanceCoversBooks
PROPERTY
  ImplementsLedger
