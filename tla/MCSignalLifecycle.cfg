\* Two signals over two seconds; three event ids let each trail grow to three rows,
\* which reaches every status (a signal may be created awaiting approval).
CONSTANTS
  Signals = {g1, g2}
  EventIds = {1, 2, 3}
  MaxClock = 1
SPECIFICATION Spec
CHECK_DEADLOCK FALSE
INVARIANTS
  TypeOK
  TrailExplainsStatus
  ExpiredWasDue
  ExecutedWasApproved
PROPERTY
  EndedIsFinal
