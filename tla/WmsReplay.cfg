SPECIFICATION Spec
CONSTANTS
  NumUnits = 2
  NumBins = 1
  BinOf <- Layout
  InitUnits = {1, 2}
  Customers = {c1}
  Demands = {}
  Keys = {k1}
  Kinds <- KindsMC
  Plans <- PlansMC
  Windows <- WindowsMC
  Requests = {}
  Reasons = {"OTHER"}
  Deltas = {}
  ItemStates = {}
  MaxHU = 1
  MaxRes = 2
  MaxStock = 0
  MaxTime = 0
  Never = 9
\* The numbers of pallets and reservations are bounded: the model ends.
CHECK_DEADLOCK FALSE
PROPERTIES
  ReserveIdempotent
