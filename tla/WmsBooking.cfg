SPECIFICATION Spec
CONSTANTS
  NumUnits = 2
  NumBins = 1
  BinOf <- Layout
  InitUnits = {1}
  Customers = {c1, c2}
  Demands = {}
  Keys = {}
  Kinds <- KindsMC
  Plans <- PlansMC
  Windows <- WindowsMC
  Requests = {}
  Reasons = {"OTHER"}
  Deltas = {}
  ItemStates = {}
  MaxHU = 2
  MaxRes = 2
  MaxStock = 0
  MaxTime = 1
  Never = 9
SYMMETRY Symmetric
\* The clock and the number of handling units are bounded: the model ends.
CHECK_DEADLOCK FALSE
INVARIANTS
  TypeOK
  PositionsSound
  BookingsSound
  BilledOnce
