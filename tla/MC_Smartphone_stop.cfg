CONSTANTS
  Undefined = Undefined
  MaxToggles = 6
  MaxPending = 1
  Levels = {10, 30}
  PercentInputs = {2}

SPECIFICATION Spec
CHECK_DEADLOCK FALSE
INVARIANT RetrievalStopsWhenDisabled
