\* One extra ceiling on top of the five the gate gathers itself.
CONSTANT MaxExtra = 1
SPECIFICATION ModeSpec
CHECK_DEADLOCK FALSE
INVARIANTS
  StrictestWins
  DowngradeIsExplained
  BreachForbidsOrders
  NeverUnchecked
