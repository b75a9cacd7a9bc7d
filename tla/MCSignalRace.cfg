\* Can overlapping requests spend one signal twice?
CONSTANTS
  Txns = {t1, t2}
  Account = acct
  Sessions = {s1}
  Signals = {g1}
  Held = {p1}
  InitialBalance = 1
  None = None
  GrossPnls <- MCGrossPnls
SPECIFICATION Spec
CHECK_DEADLOCK FALSE
PROPERTY
  FillsSpendApproved
