\* Two overlapping requests over a run, two signals and two held positions.
CONSTANTS
  Txns = {t1, t2}
  Account = acct
  Sessions = {s1}
  Signals = {g1, g2}
  Held = {p1, p2}
  InitialBalance = 1
  None = None
  GrossPnls <- MCGrossPnls
SPECIFICATION FairSpec
CHECK_DEADLOCK FALSE
INVARIANTS
  TypeOK
  ClosedIffTraded
  LastEventIsStatus
  BalanceIsReported
PROPERTIES
  EndedRunStaysEnded
  EveryRequestEnds
