---------------------------- MODULE AccessReview ----------------------------
(***************************************************************************)
(* The access reviews of opstrax-supplyops-v1 (src/services.js): a review  *)
(* lists the active users of a tenant, and each of them is confirmed,      *)
(* revoked or modified. Neither handler opens a transaction: a statement   *)
(* that fails, or a death of the process, leaves those before it.          *)
(***************************************************************************)
EXTENDS Integers, FiniteSets

CONSTANTS
  Staff,       \* users of the tenant
  Reviews,     \* bound: access reviews ever started
  MaxHalts     \* bound: handlers cut short

ASSUME ReviewAssumption == IsFiniteSet(Staff) /\ MaxHalts \in Nat

VARIABLES
  access,      \* rows of access_reviews, and their access_review_entries
  halts        \* handlers that were cut short so far

ReviewVars == <<access, halts>>

Decisions == {"CONFIRMED", "REVOKED", "MODIFIED"}
Open == "open"          \* a null decision
AccessRow ==
  [status : {"NONE", "IN_PROGRESS", "COMPLETED"},
   total : Nat, reviewed : Nat, revoked : Nat,   \* total_entries and so on
   entries : SUBSET Staff,                       \* the rows, by subject_user_id
   decision : [Staff -> Decisions \cup {Open}]]

ReviewInit ==
  /\ access = [r \in Reviews |->
       [status |-> "NONE", total |-> 0, reviewed |-> 0, revoked |-> 0,
        entries |-> {}, decision |-> [u \in Staff |-> Open]]]
  /\ halts = 0

-----------------------------------------------------------------------------
Decided(row) == {u \in row.entries : row.decision[u] # Open}
Revoked(row) == {u \in row.entries : row.decision[u] = "REVOKED"}

\* A handler runs to its end, or is cut short.
ToTheEnd == UNCHANGED halts
CutShort == halts < MaxHalts /\ halts' = halts + 1

(* The review is written with the number of its entries, and then they are *)
(* written one by one, in no stated order.                                 *)
CreateAccessReview(r, people) ==
  /\ access[r].status = "NONE"
  /\ people # {}
  /\ \E entries \in SUBSET people :
       /\ access' = [access EXCEPT ![r].status = "IN_PROGRESS",
                                   ![r].total = Cardinality(people),
                                   ![r].entries = entries]
       /\ IF entries = people THEN ToTheEnd ELSE CutShort

Counted(row) ==
  LET reviewed == Cardinality(Decided(row))
  IN [row EXCEPT !.reviewed = reviewed, !.revoked = Cardinality(Revoked(row)),
                 !.status = IF reviewed >= row.total THEN "COMPLETED" ELSE "IN_PROGRESS"]

\* Fault for ReviewAccessEntry: the counters are raised instead of counted.
ReviewAccessEntryRaised(r, u, decision) ==
  LET raised == [access[r] EXCEPT !.decision[u] = decision, !.reviewed = @ + 1]
  IN /\ access[r].status = "IN_PROGRESS"
     /\ u \in access[r].entries
     /\ access' = [access EXCEPT ![r] = [raised EXCEPT !.status =
                     IF raised.reviewed >= raised.total THEN "COMPLETED" ELSE @]]
     /\ ToTheEnd
(* The entry is written, then the review with what its entries add up to;  *)
(* an entry that is decided may be decided again until the review is done. *)
ReviewAccessEntry(r, u, decision) ==
  LET written == [access[r] EXCEPT !.decision[u] = decision]
  IN /\ access[r].status = "IN_PROGRESS"
     /\ u \in access[r].entries
     /\ \/ access' = [access EXCEPT ![r] = Counted(written)] /\ ToTheEnd
        \/ access' = [access EXCEPT ![r] = written] /\ CutShort

ReviewNext ==
  \E r \in Reviews :
    \/ \E people \in SUBSET Staff : CreateAccessReview(r, people)
    \/ \E u \in Staff, decision \in Decisions : ReviewAccessEntry(r, u, decision)

ReviewSpec == ReviewInit /\ [][ReviewNext]_ReviewVars

-----------------------------------------------------------------------------
(* Properties.                                                             *)

ReviewTypes == access \in [Reviews -> AccessRow] /\ halts \in 0..MaxHalts

\* The row of a review says what its entries say.
AddsUp(row) ==
  /\ row.reviewed = Cardinality(Decided(row)) /\ row.revoked = Cardinality(Revoked(row))
  /\ row.total = Cardinality(row.entries)
(* Handlers cut short and entries decided over again included: a review is *)
(* completed only when everybody on it was decided on, and its figures are *)
(* then exact. As long as no handler is cut short they always are, and a   *)
(* review that is not completed has somebody left to decide on.            *)
ReviewIsHonest ==
  \A r \in Reviews :
    /\ access[r].status = "COMPLETED" =>
         Decided(access[r]) = access[r].entries /\ AddsUp(access[r])
    /\ halts = 0 /\ access[r].status = "IN_PROGRESS" =>
         Decided(access[r]) # access[r].entries /\ AddsUp(access[r])
=============================================================================
