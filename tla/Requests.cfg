SPECIFICATION Spec
CONSTANTS
  MaxReqs = 2
  Numbers = {1, 2}
  MaxLines = 2
  MaxRows = 2
  Qtys = {1, 2}
  Bins = {1}
  InitStock <- ScarceStock
  Pallets = {p1}
  Held <- HeldMC
  BinOf <- BinMC
  Deltas <- UpAndDown
  MaxStock = 2
  MaxShort = 1
\* The numbers of requests and of tasks are bounded: the model ends.
CHECK_DEADLOCK FALSE
INVARIANTS
  TypeOK
  NeverOverIssued
  TaskAgrees
  ApprovedBeforeIssue
  IssuedIsComplete
  CompleteIsIssued
  StockReconciles
PROPERTIES
  IssuedIsFinal
