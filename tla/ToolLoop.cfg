SPECIFICATION Spec
CONSTANTS
  Settings <- MCSettings
  MaxCalls = 2

INVARIANTS RanAsAsked CallsAnswered RoundsSpent UsageWhole ImagesNamed
\* a request that has its answer has no further step
CHECK_DEADLOCK FALSE
