CONSTANTS
  Undefined = Undefined
  MaxToggles = 6
  MaxPending = 1
  Levels = {10, 30}
  PercentInputs = {2}

SPECIFICATION Spec
\* An idle page (nothing switched on, nothing pending) really stops.
CHECK_DEADLOCK FALSE
INVARIANT TypeOK
INVARIANT LeakBoundedBySessions
PROPERTY TimedReadingsDelivered
