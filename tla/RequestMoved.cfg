SPECIFICATION Spec
CONSTANTS
  MaxReqs = 1
  Numbers = {1}
  MaxLines = 1
  MaxRows = 1
  Qtys = {1, 2}
  Bins = {1}
  InitStock <- ScarceStock
  Pallets = {p1, p2}
  Held <- HeldMC
  BinOf <- BinMC
  Deltas <- Recount
  MaxStock = 4
  MaxShort = 2
\* The numbers of requests and of tasks are bounded: the model ends.
CHECK_DEADLOCK FALSE
INVARIANTS
  MovedWithinRequest
