SPECIFICATION FairSpec
CONSTANTS
  NumOps = 2
  NumWrites = 2
  MaxMissed = 1
  MaxStops = 1
\* The number of operations is bounded: the model ends.
CHECK_DEADLOCK FALSE
INVARIANTS
  TypeOK
  OwnAnswer
  DriftBounded
PROPERTIES
  Atomic
  EveryOperationEnds
