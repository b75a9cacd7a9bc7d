\* Two requests at a time of one user with two sessions; a lock after two failures.
SPECIFICATION Spec
SYMMETRY Identical
CONSTANTS
  Users = {u1}
  Clients = {c1, c2}
  MaxSessions = 2
  MaxFailed = 2
  LockoutTicks = 1
  SessionTicks = 1
  MaxClock = 1
  None = None
CHECK_DEADLOCK FALSE
INVARIANTS
  CountIsExact
  LoggedOutEverywhere
PROPERTY
  FirstRevocationStands
