--------------------------- MODULE MCWmsInventory ---------------------------
(* The floor seen from the ledger: stock-keeping pallets of one customer,  *)
(* without reservations, so that no action depends on the clock. Positions *)
(* 1 and 2 share a bin, as createWmsCapacityUnit allows; position 3 has    *)
(* the other. A pallet of two can be split by inspection; a demand can ask *)
(* for more than one pallet holds.                                         *)
EXTENDS WmsFloor, TLC

SharedBin == <<1, 1, 2>>
KindsMC == {[item |-> TRUE, qc |-> TRUE, qty |-> 2, expiry |-> 2],
            [item |-> TRUE, qc |-> FALSE, qty |-> 1, expiry |-> 1]}
PlansMC == {[until |-> 9, firm |-> FALSE]}
RequestsMC == {[n |-> 1, short |-> FALSE], [n |-> 2, short |-> TRUE]}
UpAndDown == {-1, 1}
\* The specification never tells one demand from another.
Symmetric == Permutations(Demands)
=============================================================================
