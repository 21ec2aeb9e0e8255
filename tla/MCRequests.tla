------------------------------ MODULE MCRequests ------------------------------
(* Two requests drafted within a second of each other may get one number. *)
(* Two lines may ask for more than the scarce stock; the ample stock has  *)
(* more than one request needs.                                            *)
EXTENDS RequestFulfilment

ScarceStock == [b \in Bins |-> 2]
AmpleStock == [b \in Bins |-> 3]
HeldMC == [p \in Pallets |-> 1]
BinMC == [p \in Pallets |-> 1]
UpAndDown == {-1, 1}
\* One of the two is counted missing, and more found later.
Recount == {-1, 3}
=============================================================================
