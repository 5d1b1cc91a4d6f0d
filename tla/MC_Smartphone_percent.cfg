CONSTANTS
  Undefined = Undefined
  MaxToggles = 6
  MaxPending = 1
  Levels = {29, 80}
  PercentInputs = {29}

SPECIFICATION Spec
CHECK_DEADLOCK FALSE
INVARIANT ReportsOnlyBelowThreshold
