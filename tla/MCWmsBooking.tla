--------------------------- MODULE MCWmsBooking ---------------------------
(* The floor seen from its positions: two customers book and use them over *)
(* time with goods that are not stock-kept, so that the ledger is still.   *)
(* One position exists at start and has no bin; the other is created, by   *)
(* hand or from the one bin.                                               *)
EXTENDS WmsFloor, TLC

Layout == <<0, 1>>
\* Inspected, so that release is by acceptance, rejection or for another reason.
KindsMC == {[item |-> FALSE, qc |-> TRUE, qty |-> 2, expiry |-> 9]}
\* A stay that leaves for certain, and one without a date.
PlansMC == {[until |-> 1, firm |-> TRUE], [until |-> 9, firm |-> FALSE]}
\* From now on, later, and both positions later.
WindowsMC == {[from |-> 0, until |-> 2, n |-> 1], [from |-> 1, until |-> 2, n |-> 1],
              [from |-> 1, until |-> 2, n |-> 2]}
\* The specification never tells one customer from another.
Symmetric == Permutations(Customers)
=============================================================================
