SPECIFICATION Spec
CONSTANTS
  Quantities = {1, 2}
  Prices = {1, 2}
  Commissions = {1}
  Times = {1, 2}
  StartingBalance = 1
  MaxOrders = 3
  MaxFills = 3
INVARIANTS
  NothingClosedUnfilled
  BalanceAddsUp
  TradesExplainPositions
CHECK_DEADLOCK FALSE
