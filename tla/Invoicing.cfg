SPECIFICATION Spec
CONSTANTS
  Requests = {p1}
  Orders = {o1}
  Invoices = {i1}
  LineIds = {l1}
  Centres = {"c1", "c2"}
  Budgets = {"b1", "b2"}
  MaxYear = 2
  BudgetOf <- Mixed
  NoBudget = NoBudget
  Allotted <- Small
  Ceilings = {1}
  Prices = {1}
  MaxTotal = 1
  Sums = {1, 2}
  NoOrder = NoOrder
\* The numbers of requests, orders and years are bounded: the model ends.
CHECK_DEADLOCK FALSE
INVARIANTS
  TypeOK
  PaidIsConsumed
