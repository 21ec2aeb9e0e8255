SPECIFICATION Spec
CONSTANTS
  NumOps = 2
  NumWrites = 1
  MaxMissed = 1
  MaxStops = 0
\* The number of operations is bounded: the model ends.
CHECK_DEADLOCK FALSE
INVARIANTS
  ReturnsAfterRun
