--------------------------- MODULE MCPurchaseToPay ---------------------------
(* One cost centre over two years, each with its budget; or two centres    *)
(* that share a budget through their department in the first year, after   *)
(* which one of them has a budget of its own and the other none.           *)
EXTENDS PurchaseToPay, TLC

OneYear == <<[c \in Centres |-> "b1"]>>
YearByYear == <<[c \in Centres |-> "b1"], [c \in Centres |-> "b2"]>>
Mixed == <<[c \in Centres |-> "b1"], ("c1" :> "b2" @@ "c2" :> NoBudget)>>
Small == [b \in Budgets |-> 2]
\* The specification never tells one request, order or line from another.
Symmetric == Permutations(Requests) \cup Permutations(Orders) \cup Permutations(LineIds)
=============================================================================
