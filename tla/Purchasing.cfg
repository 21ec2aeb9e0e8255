SPECIFICATION Spec
CONSTANTS
  Requests = {p1, p2}
  Orders = {o1, o2}
  Invoices = {}
  LineIds = {l1, l2}
  Centres = {"c1"}
  Budgets = {"b1", "b2"}
  MaxYear = 2
  BudgetOf <- YearByYear
  NoBudget = NoBudget
  Allotted <- Small
  Ceilings = {1}
  Prices = {1}
  MaxTotal = 2
  Sums = {}
  NoOrder = NoOrder
SYMMETRY Symmetric
\* The numbers of requests, orders and years are bounded: the model ends.
CHECK_DEADLOCK FALSE
INVARIANTS
  CountersAgree
  OrderAsApproved
  OneLiveOrder
  OrderFunded
PROPERTIES
  NeverOverCommitted
