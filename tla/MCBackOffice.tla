---------------------------- MODULE MCBackOffice ----------------------------
(***************************************************************************)
(* Values of the constants of BackOffice for TLC.                          *)
(***************************************************************************)
EXTENDS BackOffice, TLC

\* Two bins of 10, 2 of them reserved; a hand adjustment takes 7 of one.
MCShelved == [b \in Bins |-> 10]
MCPromises == [b \in Bins |-> 2]
MCHandDeltas == {-7}

\* Two lines of 2, delivered whole or damaged piece by piece.
MCOrdered == [l \in OrderLines |-> 2]
MCDeliveries ==
  {[received |-> 2, damaged |-> 0, short |-> 0], [received |-> 0, damaged |-> 1, short |-> 0]}

\* The batch issues what is there only when the receipt before it came to the
\* same bin, and counts in the end.
MCSyncTasks ==
  <<[kind |-> "RECEIVE", qty |-> 3], [kind |-> "ISSUE", qty |-> 9],
    [kind |-> "COUNT", qty |-> 1]>>

\* No definition tells two batches, or two count sessions, from each other.
Interchangeable == Permutations(Batches) \cup Permutations(Counts)
=============================================================================
