---------------------------- MODULE SyncReview ----------------------------
(***************************************************************************)
(* The older kind of offline work in opstrax-supplyops-v1 (services.js): a *)
(* sync batch, in the database from the start, that a supervisor approves  *)
(* or rejects, and its conflict. Every handler is one transaction.         *)
(***************************************************************************)
EXTENDS StockBook, SequencesExt

CONSTANTS
  SyncTasks    \* the tasks of the batch, in their order

ASSUME SyncAssumption ==
  SyncTasks \in Seq([kind : {"RECEIVE", "ISSUE", "COUNT"}, qty : Nat \ {0}])

VARIABLES
  review,      \* review_status of the row of sync_batches
  conflict     \* status of the row of sync_conflicts

SyncVars == <<review, conflict, StockVars>>

SyncInit == StockInit /\ review = "PENDING" /\ conflict = "PENDING"

-----------------------------------------------------------------------------
\* Each applySync* works on the fullest balance, whose row is `row`. What is
\* issued is written as a movement of type ISSUE, whose quantity counts down.
Applied(row, task) ==
  CASE task.kind = "RECEIVE" -> Gained(row, task.qty)
    [] task.kind = "ISSUE" -> Gained(row, -task.qty)
    [] task.kind = "COUNT" -> Recounted(row, task.qty)
ShortOf(row, task) == task.kind = "ISSUE" /\ row.available < task.qty

\* The states that a task may leave: none, when stock is short for it.
ApplySyncTask(s, task) ==
  {[bal |-> [s.bal EXCEPT ![bin] = Applied(@, task)],
    moved |-> Explained(s.moved, "sync_batch", bin,
                        Applied(s.bal[bin], task).onHand - s.bal[bin].onHand)] :
     bin \in {f \in Fullest(s.bal) : ~ShortOf(s.bal[f], task)}}

\* The states that the tasks may leave, one after the other.
AppliedTasks ==
  LET after[n \in 0..Len(SyncTasks)] ==
        IF n = 0 THEN {[bal |-> bal, moved |-> moved]}
        ELSE UNION {ApplySyncTask(s, SyncTasks[n]) : s \in after[n - 1]}
  IN after[Len(SyncTasks)]

\* All tasks or nothing.
ApproveSyncBatch ==
  /\ review = "PENDING"
  /\ \E s \in AppliedTasks :
       bal' = s.bal /\ moved' = s.moved
  /\ review' = "APPROVED"
  /\ UNCHANGED conflict

RejectSyncBatch ==
  /\ review = "PENDING"
  /\ review' = "REJECTED"
  /\ UNCHANGED <<conflict, StockVars>>

ResolveSyncConflict(status) ==
  /\ conflict = "PENDING"
  /\ conflict' = status
  /\ UNCHANGED <<review, StockVars>>

SyncNext ==
  \/ ApproveSyncBatch \/ RejectSyncBatch
  \/ \E status \in {"RESOLVED", "IGNORED"} : ResolveSyncConflict(status)
  \/ AdjustStock /\ UNCHANGED <<review, conflict>>

SyncSpec == SyncInit /\ [][SyncNext]_SyncVars

-----------------------------------------------------------------------------
SyncTypes ==
  /\ review \in {"PENDING", "APPROVED", "REJECTED"}
  /\ conflict \in {"PENDING", "RESOLVED", "IGNORED"}
  /\ StockTypes
=============================================================================
