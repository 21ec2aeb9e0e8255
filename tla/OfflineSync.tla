---------------------------- MODULE OfflineSync ----------------------------
(***************************************************************************)
(* Work done offline in opstrax-supplyops-v1 (services.js): devices and    *)
(* their trust, and the batches of tasks they upload, which are validated  *)
(* and replayed against stock.                                             *)
(* Every handler is one transaction.                                       *)
(*                                                                         *)
(* A task that does not validate would get a row of sync_conflicts that    *)
(* names the offline batch where a sync batch is required                  *)
(* (db/migrations/002_gap_closure.sql:6): the insertion fails and the      *)
(* validation with it. Hence no batch is ever REVIEW_PENDING, APPROVED or  *)
(* POSTED, and nothing can be done with a conflict.                        *)
(***************************************************************************)
EXTENDS StockBook, SequencesExt

CONSTANTS
  Devices,     \* the devices
  Batches,     \* bound: offline batches ever made
  Amounts,     \* quantities a task may carry
  MaxTasks,    \* bound: tasks of a batch
  MaxRounds    \* bound: validations of a batch

Kinds == {"RECEIVE", "ISSUE", "COUNT"}
Work == [kind : Kinds, qty : Amounts]

ASSUME OfflineAssumption ==
  /\ IsFiniteSet(Devices) /\ IsFiniteSet(Batches)
  /\ Amounts \subseteq Nat \ {0}
  /\ MaxTasks \in Nat /\ MaxRounds \in Nat

VARIABLES
  trust,       \* trust_state of each device
  offline      \* rows of offline_batches with their tasks

OfflineVars == <<trust, offline, StockVars>>

TrustStates == {"UNTRUSTED", "TRUSTED", "SUSPENDED", "REVOKED"}
TaskStatus == {"CAPTURED", "VALIDATED", "POSTED", "FAILED"}
\* payload_hash is the hash of what is carried, not of what is to be done with
\* it: of two tasks of one quantity it is equal. applied counts, for the
\* properties, how often the task changed stock.
TaskRow == [kind : Kinds, qty : Amounts, status : TaskStatus, applied : Nat]
NoBatch == [status |-> "NONE"]
BatchRow == [status : {"CAPTURED", "UPLOADED", "VALIDATING", "REJECTED"},
             device : Devices, tasks : Seq(TaskRow), rounds : 0..MaxRounds]

OfflineInit ==
  /\ StockInit
  /\ trust = [d \in Devices |-> "UNTRUSTED"]
  /\ offline = [b \in Batches |-> NoBatch]

IsBatch(rows, b) == rows[b] # NoBatch
TasksOf(rows, b) == IF IsBatch(rows, b) THEN DOMAIN rows[b].tasks ELSE {}

-----------------------------------------------------------------------------
Trust(d, from, to) ==
  /\ trust[d] \in from
  /\ trust' = [trust EXCEPT ![d] = to]
  /\ UNCHANGED <<offline, StockVars>>
TrustDevice(d) == Trust(d, {"UNTRUSTED", "SUSPENDED"}, "TRUSTED")
SuspendDevice(d) == Trust(d, {"UNTRUSTED", "TRUSTED"}, "SUSPENDED")
RevokeDevice(d) == Trust(d, {"UNTRUSTED", "TRUSTED", "SUSPENDED"}, "REVOKED")

\* Sent again with its key, a batch is answered as it is and nothing changes.
CreateOfflineBatch(b, d) ==
  /\ trust[d] # "REVOKED"
  /\ ~IsBatch(offline, b)
  /\ offline' = [offline EXCEPT ![b] =
       [status |-> "CAPTURED", device |-> d, tasks |-> <<>>, rounds |-> 0]]
  /\ UNCHANGED <<trust, StockVars>>

\* The tasks replace those of an earlier upload.
UploadOfflineBatch(b, tasks) ==
  /\ offline[b].status \in {"CAPTURED", "UPLOADED"}
  /\ trust[offline[b].device] # "REVOKED"
  /\ offline' = [offline EXCEPT ![b].status = "UPLOADED",
       ![b].tasks = [i \in DOMAIN tasks |->
         [kind |-> tasks[i].kind, qty |-> tasks[i].qty,
          status |-> "CAPTURED", applied |-> 0]]]
  /\ UNCHANGED <<trust, StockVars>>

\* Fault for AlreadyPosted: what another task with the payload became is not asked.
AlreadySeen(rows, b, i) ==
  \E c \in Batches : \E j \in TasksOf(rows, c) :
    <<c, j>> # <<b, i>> /\ rows[c].tasks[j].qty = rows[b].tasks[i].qty
AlreadyPosted(rows, b, i) ==
  \E c \in Batches : \E j \in TasksOf(rows, c) :
    /\ <<c, j>> # <<b, i>>
    /\ rows[c].tasks[j].qty = rows[b].tasks[i].qty
    /\ rows[c].tasks[j].status = "POSTED"

MostAvailable == Max({bal[b].available : b \in Bins})

(* The tasks of a batch are stamped alike and read in no certain order: one *)
(* that was posted before may be read, and set back to VALIDATED, before   *)
(* its like is. The batch may be validated again, as long as it stays      *)
(* VALIDATING.                                                             *)
ValidateOfflineBatch(b) ==
  LET tasks == offline[b].tasks
      read == [offline EXCEPT ![b].tasks =
                 [i \in DOMAIN tasks |-> [tasks[i] EXCEPT !.status = "VALIDATED"]]]
  IN /\ offline[b].status \in {"UPLOADED", "VALIDATING"}
     /\ offline[b].rounds < MaxRounds
     /\ trust[offline[b].device] # "REVOKED"
     /\ \A i \in DOMAIN tasks :
          /\ ~AlreadyPosted(read, b, i)
          /\ tasks[i].status = "POSTED" => ~AlreadyPosted(offline, b, i)
          /\ tasks[i].kind = "ISSUE" => tasks[i].qty <= MostAvailable
     /\ offline' = [read EXCEPT ![b].status = "VALIDATING", ![b].rounds = @ + 1]
     /\ UNCHANGED <<trust, StockVars>>

-----------------------------------------------------------------------------
(* Replay. A task works on what the tasks before it left; a state of the   *)
(* replay holds the rows of the tables that it writes.                     *)

\* What a task makes of the fullest balance.
Change(task, row) ==
  CASE task.kind = "RECEIVE" -> task.qty
    [] task.kind = "ISSUE" -> -task.qty
    [] task.kind = "COUNT" -> task.qty - row.onHand
Short(task, row) == task.kind = "ISSUE" /\ row.available < task.qty

Ended(s, b, i, status) == [s EXCEPT !.rows[b].tasks[i].status = status]
ReplayTask(s, b, i) ==
  LET task == s.rows[b].tasks[i]
      Posted(bin) ==
        LET n == Change(task, s.bal[bin])
        IN [rows |-> [s.rows EXCEPT ![b].tasks[i] =
                        [task EXCEPT !.status = "POSTED", !.applied = @ + 1]],
            bal |-> [s.bal EXCEPT ![bin] = Gained(@, n)],
            moved |-> Explained(s.moved, "offline_batch", bin, n)]
  IN IF AlreadyPosted(s.rows, b, i) THEN {Ended(s, b, i, "POSTED")}
     ELSE {IF Short(task, s.bal[bin]) THEN Ended(s, b, i, "FAILED") ELSE Posted(bin) :
             bin \in Fullest(s.bal)}

\* The states that the tasks may leave in this order.
Replayed(b, order) ==
  LET after[n \in 0..Len(order)] ==
        IF n = 0 THEN {[rows |-> offline, bal |-> bal, moved |-> moved]}
        ELSE UNION {ReplayTask(s, b, order[n]) : s \in after[n - 1]}
  IN after[Len(order)]

\* The device may have been revoked since.
ReplayOfflineBatch(b) ==
  /\ offline[b].status = "VALIDATING"
  /\ \E order \in SetToSeqs({i \in DOMAIN offline[b].tasks :
                               offline[b].tasks[i].status = "VALIDATED"}) :
       \E s \in Replayed(b, order) :
         offline' = s.rows /\ bal' = s.bal /\ moved' = s.moved
  /\ UNCHANGED trust

RejectOfflineBatch(b) ==
  /\ offline[b].status \in {"CAPTURED", "UPLOADED", "VALIDATING"}
  /\ offline' = [offline EXCEPT ![b].status = "REJECTED"]
  /\ UNCHANGED <<trust, StockVars>>

OfflineNext ==
  \/ \E d \in Devices : TrustDevice(d) \/ SuspendDevice(d) \/ RevokeDevice(d)
  \/ \E b \in Batches :
       \/ \E d \in Devices : CreateOfflineBatch(b, d)
       \/ \E n \in 1..MaxTasks : \E tasks \in [1..n -> Work] : UploadOfflineBatch(b, tasks)
       \/ ValidateOfflineBatch(b) \/ ReplayOfflineBatch(b) \/ RejectOfflineBatch(b)
  \/ AdjustStock /\ UNCHANGED <<trust, offline>>

OfflineSpec == OfflineInit /\ [][OfflineNext]_OfflineVars

-----------------------------------------------------------------------------
(* Properties.                                                             *)

OfflineTypes ==
  /\ trust \in [Devices -> TrustStates]
  /\ offline \in [Batches -> BatchRow \cup {NoBatch}]
  /\ StockTypes

(* However batches are uploaded, validated, replayed and rejected in turn, *)
(* a task is called posted only when stock was changed for it, or for      *)
(* another task with the same payload: none is lost because another with   *)
(* its payload was refused or failed.                                      *)
SkippedWasApplied ==
  \A b \in Batches : \A i \in TasksOf(offline, b) :
    offline[b].tasks[i].status = "POSTED" =>
      \E c \in Batches : \E j \in TasksOf(offline, c) :
        /\ offline[c].tasks[j].applied > 0
        /\ offline[c].tasks[j].qty = offline[b].tasks[i].qty

(* A batch is idempotent: no task of it changes stock twice                 *)
(* (docs/phase-0-foundation-contract.md:477).                              *)
AppliedOnce ==
  \A b \in Batches : \A i \in TasksOf(offline, b) : offline[b].tasks[i].applied <= 1
=============================================================================
