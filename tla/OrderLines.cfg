SPECIFICATION Spec
CONSTANTS
  Requests = {p1}
  Orders = {o1}
  Invoices = {}
  LineIds = {l1, l2}
  Centres = {"c1"}
  Budgets = {"b1"}
  MaxYear = 1
  BudgetOf <- OneYear
  NoBudget = NoBudget
  Allotted <- Small
  Ceilings = {}
  Prices = {1}
  MaxTotal = 2
  Sums = {}
  NoOrder = NoOrder
\* The numbers of requests, orders and years are bounded: the model ends.
CHECK_DEADLOCK FALSE
INVARIANTS
  OrderWithinReservation
