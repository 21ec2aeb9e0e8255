--------------------------- MODULE FinanceExport ---------------------------
(***************************************************************************)
(* One finance export batch of opstrax-supplyops-v1 (services.js): made,   *)
(* validated, approved, generated, dispatched as jobs and transfers, and   *)
(* cancelled. No handler touches the rows of two batches, and each is one  *)
(* transaction. What may be exported changes under it all the while. The   *)
(* one blocking error that running code can cause is to have nothing to    *)
(* export: an order has lines and, once submitted, an accounting code.     *)
(***************************************************************************)
EXTENDS Integers, FiniteSets, Sequences

CONSTANTS
  Documents,      \* purchase orders and receipts that may be exported
  MaxDispatches   \* bound: dispatches of the batch

ASSUME ExportAssumption == IsFiniteSet(Documents) /\ MaxDispatches \in Nat

VARIABLES
  books,       \* orders APPROVED or ISSUED, and sessions POSTED, that it selects
  export,      \* the row of export_batches, and its open errors
  jobs         \* rows of integration_jobs, each with its row of export_transfers

ExportVars == <<books, export, jobs>>

Blocking == {"NO_EXPORTABLE_RECORDS"}
ExportRow == [status : {"NONE", "DRAFT", "VALIDATED", "FAILED_VALIDATION", "APPROVED",
                        "GENERATED", "DISPATCH_QUEUED", "DISPATCH_FAILED", "CANCELLED"},
              errors : SUBSET Blocking,      \* open ERROR rows of export_validation_errors
              payload : SUBSET Documents]    \* what generated_payload_hash is the hash of
JobRow == [job : {"QUEUED", "BLOCKED", "RETRYING", "CANCELLED"},
           transfer : {"QUEUED", "FAILED", "CANCELLED"},
           payload : SUBSET Documents]

ExportInit ==
  /\ books = {}
  /\ export = [status |-> "NONE", errors |-> {}, payload |-> {}]
  /\ jobs = <<>>

-----------------------------------------------------------------------------
\* An order is approved or a session posted; an order whose goods arrive is
\* neither APPROVED nor ISSUED any more.
BooksChange(d) ==
  /\ books' = IF d \in books THEN books \ {d} ELSE books \cup {d}
  /\ UNCHANGED <<export, jobs>>

CreateExportBatch ==
  /\ export.status = "NONE"
  /\ export' = [export EXCEPT !.status = "DRAFT"]
  /\ UNCHANGED <<books, jobs>>

ExportIssues == IF books = {} THEN Blocking ELSE {}
\* Fault for ValidateExportBatch: the errors of the last validation stay open.
ValidateExportBatchOnTop ==
  /\ export.status \notin {"NONE", "CANCELLED"}
  /\ export' = [export EXCEPT !.errors = @ \cup ExportIssues,
       !.status = IF ExportIssues = {} THEN "VALIDATED" ELSE "FAILED_VALIDATION"]
  /\ UNCHANGED <<books, jobs>>
\* Whatever became of the batch before, a dispatched one included.
ValidateExportBatch ==
  /\ export.status \notin {"NONE", "CANCELLED"}
  /\ export' = [export EXCEPT !.errors = ExportIssues,
       !.status = IF ExportIssues = {} THEN "VALIDATED" ELSE "FAILED_VALIDATION"]
  /\ UNCHANGED <<books, jobs>>

ApproveExportBatch ==
  /\ export.errors = {}
  /\ export.status \in {"DRAFT", "FAILED_VALIDATION", "VALIDATED"}
  /\ export' = [export EXCEPT !.status = "APPROVED"]
  /\ UNCHANGED <<books, jobs>>

\* What is exported is read again, and not validated again.
GenerateExportBatch ==
  /\ export.status \in {"APPROVED", "VALIDATED"}
  /\ export.errors = {}
  /\ export' = [export EXCEPT !.status = "GENERATED", !.payload = books]
  /\ UNCHANGED <<books, jobs>>

DispatchExportBatch(connected) ==
  /\ export.status = "GENERATED"
  /\ export.errors = {}
  /\ Len(jobs) < MaxDispatches
  /\ jobs' = Append(jobs, [job |-> IF connected THEN "QUEUED" ELSE "BLOCKED",
                           transfer |-> IF connected THEN "QUEUED" ELSE "FAILED",
                           payload |-> export.payload])
  /\ export' = [export EXCEPT !.status = IF connected THEN "DISPATCH_QUEUED"
                                                      ELSE "DISPATCH_FAILED"]
  /\ UNCHANGED books

CancelExportBatch ==
  /\ export.status \notin {"NONE", "CANCELLED"}
  /\ export' = [export EXCEPT !.status = "CANCELLED"]
  /\ jobs' = [j \in DOMAIN jobs |->
       [jobs[j] EXCEPT !.job = "CANCELLED", !.transfer = "CANCELLED"]]
  /\ UNCHANGED books

\* Of a cancelled batch too.
RetryIntegrationJob(j) ==
  /\ jobs[j].job \in {"BLOCKED", "CANCELLED", "QUEUED"}
  /\ jobs' = [jobs EXCEPT ![j].job = "RETRYING"]
  /\ UNCHANGED <<books, export>>

CancelIntegrationJob(j) ==
  /\ jobs' = [jobs EXCEPT ![j].job = "CANCELLED"]
  /\ UNCHANGED <<books, export>>

ExportNext ==
  \/ \E d \in Documents : BooksChange(d)
  \/ CreateExportBatch \/ ValidateExportBatch \/ ApproveExportBatch
  \/ GenerateExportBatch \/ CancelExportBatch
  \/ \E connected \in BOOLEAN : DispatchExportBatch(connected)
  \/ \E j \in DOMAIN jobs : RetryIntegrationJob(j) \/ CancelIntegrationJob(j)

ExportSpec == ExportInit /\ [][ExportNext]_ExportVars

-----------------------------------------------------------------------------
ExportTypes ==
  /\ books \subseteq Documents
  /\ export \in ExportRow
  /\ jobs \in Seq(JobRow) /\ Len(jobs) <= MaxDispatches

Carried(transfer) == \E j \in DOMAIN jobs : /\ jobs[j].transfer = transfer
                                            /\ jobs[j].payload = export.payload
(* Whatever is validated again, dispatched again, retried and cancelled: a  *)
(* batch that may go on has no blocking error open and one that failed has *)
(* one; a batch that says it is dispatched has a transfer of what it last  *)
(* generated; and nothing of a cancelled batch is still to be sent, unless *)
(* its job was retried by hand.                                            *)
ExportsAgree ==
  /\ export.status = "FAILED_VALIDATION" => export.errors # {}
  /\ export.status \in {"VALIDATED", "APPROVED", "GENERATED", "DISPATCH_QUEUED",
                        "DISPATCH_FAILED"} => export.errors = {}
  /\ export.status = "DISPATCH_QUEUED" => Carried("QUEUED")
  /\ export.status = "DISPATCH_FAILED" => Carried("FAILED")
  /\ export.status = "CANCELLED" =>
       \A j \in DOMAIN jobs : /\ jobs[j].transfer = "CANCELLED"
                              /\ jobs[j].job \in {"CANCELLED", "RETRYING"}
=============================================================================
