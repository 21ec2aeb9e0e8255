SPECIFICATION Spec
CONSTANTS
  NumUnits = 3
  NumBins = 2
  BinOf <- SharedBin
  InitUnits = {1, 2, 3}
  Customers = {c1}
  Demands = {d1, d2}
  Keys = {}
  Kinds <- KindsMC
  Plans <- PlansMC
  Windows = {}
  Requests <- RequestsMC
  Reasons = {"SHIPPED", "OTHER"}
  Deltas <- UpAndDown
  ItemStates = {TRUE, FALSE}
  MaxHU = 2
  MaxRes = 0
  MaxStock = 1
  MaxTime = 0
  Never = 9
SYMMETRY Symmetric
INVARIANTS
  AllocationsCovered
  OnlyAcceptedStockPosted
  LedgerReconciles
PROPERTIES
  ShippedIsFinal
