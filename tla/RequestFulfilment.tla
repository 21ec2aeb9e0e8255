-------------------------- MODULE RequestFulfilment --------------------------
(***************************************************************************)
(* Internal requests of opstrax-supplyops-v1 (src/services.js): a          *)
(* department drafts, submits and gets approved a request of one or more   *)
(* lines; the warehouse makes a task of it, picks and issues its lines     *)
(* from stock, and closes or cancels the task.                             *)
(*                                                                         *)
(* Every handler is one transaction, so one action. Users are left out:    *)
(* an administrator may do whatever some role may do. issueInternalRequest *)
(* only calls the handlers of the task one after the other, each in its    *)
(* own transaction, so every state it can leave is one of theirs.          *)
(***************************************************************************)
EXTENDS Integers, FiniteSets, Functions

CONSTANTS
  MaxReqs,     \* bound: internal requests ever made
  Numbers,     \* request numbers: seconds of the clock, their last four digits
  MaxLines,    \* bound: lines of a request
  MaxRows,     \* bound: lines of all requests together
  Qtys,        \* quantities a client may ask for, pick or issue
  Bins,        \* bins with a stock_balances row of the item
  InitStock,   \* what each of them holds at start
  Pallets,     \* accepted handling units of the item on the warehouse floor
  Held,        \* the quantity each of them holds
  BinOf,       \* the bin under each of them
  Deltas,      \* hand adjustments of a balance
  MaxStock,    \* bound: on-hand quantity a hand adjustment may reach
  MaxShort     \* bound: short_quantity of a task line

Reqs == 1..MaxReqs
Lines == 1..MaxLines
None == 0       \* a null reference: no request, no number

ASSUME BoundAssumption ==
  /\ MaxReqs \in Nat /\ MaxLines \in Nat /\ MaxRows \in Nat
  /\ MaxStock \in Nat /\ MaxShort \in Nat
ASSUME NumberAssumption == Numbers \subseteq Nat \ {0} /\ IsFiniteSet(Numbers)
ASSUME QuantityAssumption == Qtys \subseteq Nat \ {0} /\ Deltas \subseteq Int
ASSUME StockAssumption ==
  /\ InitStock \in [Bins -> Nat]
  /\ Held \in [Pallets -> Nat]
  /\ BinOf \in [Pallets -> Bins]

VARIABLES
  req,      \* rows of internal_requests
  line,     \* rows of request_lines, by request
  task,     \* rows of warehouse_tasks, by task_no: a UNIQUE column
  pick,     \* rows of warehouse_task_lines, by task
  bal,      \* rows of stock_balances of the item, by bin
  out,      \* ISSUE rows of stock_movements, summed by task, line and bin
  adjusted, \* ADJUSTMENT rows of stock_movements, summed by bin
  free      \* what of each pallet is not allocated to a demand

paperVars == <<req, line>>
taskVars == <<task, pick>>
stockVars == <<bal, out, adjusted, free>>
vars == <<paperVars, taskVars, stockVars>>

ReqStatus == {"NONE", "DRAFT", "SUBMITTED", "APPROVED", "REJECTED", "CANCELLED",
              "PICKING", "PARTIALLY_ISSUED", "ISSUED"}
TaskState == {"NONE", "ASSIGNED", "IN_PROGRESS", "PICKED", "PARTIALLY_ISSUED", "ISSUED",
              "EXCEPTION", "CLOSED", "CANCELLED"}
PickState == {"PICK_PENDING", "PICKED", "SHORTED", "PARTIALLY_ISSUED", "ISSUED",
              "CANCELLED"}
LineState == PickState \cup {"DRAFT", "REQUESTED", "ISSUE_READY", "REJECTED"}
ReqRow == [status : ReqStatus, no : Numbers \cup {None}, approved : BOOLEAN]
\* A line that asks for nothing is a line that does not exist.
LineRow == [status : LineState, asked : Nat, issued : Int]
TaskRow == [status : TaskState, req : Reqs \cup {None}]
PickRow == [status : PickState, asked : Nat, picked : Int, issued : Int, short : Nat]
Balance == [onHand : Int, reserved : Int, available : Int]

NoLine == [status |-> "DRAFT", asked |-> 0, issued |-> 0]
NoPick == [status |-> "PICK_PENDING", asked |-> 0, picked |-> 0, issued |-> 0, short |-> 0]
Lesser(a, b) == IF a < b THEN a ELSE b
Greater(a, b) == IF a > b THEN a ELSE b

-----------------------------------------------------------------------------
(* Queries of the code.                                                    *)

Rows(rows) == {i \in Lines : rows[i].asked > 0}
Drafted(r) == req[r].status = "DRAFT"

\* What the handlers do to a row of a request line or a task line.
Marked(row, s) == IF row.asked > 0 THEN [row EXCEPT !.status = s] ELSE row
Edited(row, q) == [row EXCEPT !.asked = q, !.status = "DRAFT"]
Served(row, q, s) == [row EXCEPT !.issued = @ + q, !.status = s]
Dropped(row) ==
  IF row.asked > 0 THEN [row EXCEPT !.status = "CANCELLED", !.short = row.asked] ELSE row
SetStatus(rows, s) == [i \in Lines |-> Marked(rows[i], s)]

\* What they do to a row of a balance: a new quantity on hand, a promise of it.
Counted(row, onHand) ==
  [row EXCEPT !.onHand = onHand, !.available = Greater(0, onHand - row.reserved)]
Promised(row, q) == [row EXCEPT !.reserved = @ + q, !.available = @ - q]

\* Fault for ReadyForTask: a request is picked before it is approved.
ReadyOnceSubmitted ==
  {"SUBMITTED", "APPROVED", "ISSUE_READY", "PICKING", "PARTIALLY_ISSUED"}
ReadyForTask == {"APPROVED", "ISSUE_READY", "PICKING", "PARTIALLY_ISSUED"}

OpenTasks(r) ==
  {n \in Numbers : task[n].status \notin {"NONE", "CANCELLED", "CLOSED"} /\ task[n].req = r}

\* warehouseRequestLineStatus
LineStatus(asked, issued, short, picked) ==
  IF issued >= asked /\ short = 0 THEN "ISSUED"
  ELSE IF issued > 0 /\ issued < asked THEN "PARTIALLY_ISSUED"
  ELSE IF short > 0 /\ issued = 0 THEN "SHORTED"
  ELSE IF picked >= asked THEN "PICKED"
  ELSE "PICK_PENDING"

\* warehouseTaskRequestStatus: the status of a task, from those of its lines.
TaskStatus(rows, status) ==
  LET seen == {rows[i].status : i \in Rows(rows)}
  IN IF seen = {} THEN status
     ELSE IF seen = {"ISSUED"} THEN "ISSUED"
     ELSE IF seen = {"CANCELLED"} THEN "CANCELLED"
     ELSE IF "PARTIALLY_ISSUED" \in seen THEN "PARTIALLY_ISSUED"
     ELSE IF "SHORTED" \in seen THEN "EXCEPTION"
     ELSE IF "PICKED" \in seen THEN "PICKED"
     ELSE status

\* syncWarehouseTaskStatus: a task that is over stays so.
SyncedTask(rows, status) ==
  IF status \in {"CANCELLED", "CLOSED"} THEN status ELSE TaskStatus(rows, status)

Total(rows) == SumFunction([i \in Lines |-> rows[i].issued])
Complete(rows) == \A i \in Rows(rows) : rows[i].issued >= rows[i].asked
\* Fault for SyncedStatus: the status of the task is written to the request.
SyncedCopied(rows, taskStatus) == taskStatus
\* Fault for SyncedStatus: one complete line completes the request.
SyncedOnFirstLine(rows, taskStatus) ==
  IF taskStatus = "CANCELLED" THEN "CANCELLED"
  ELSE IF Total(rows) <= 0 THEN "PICKING"
  ELSE IF \E i \in Rows(rows) : rows[i].issued >= rows[i].asked THEN "ISSUED"
  ELSE "PARTIALLY_ISSUED"
\* Fault for SyncedStatus: the request keeps a status once something was issued.
SyncedPartly(rows, taskStatus) ==
  IF taskStatus = "CANCELLED" THEN "CANCELLED"
  ELSE IF Total(rows) <= 0 THEN "PICKING" ELSE "PARTIALLY_ISSUED"
\* syncWarehouseRequest, with the lines of the request and the task's new status.
SyncedStatus(rows, taskStatus) ==
  IF taskStatus = "CANCELLED" THEN "CANCELLED"
  ELSE IF Total(rows) <= 0 THEN "PICKING"
  ELSE IF Complete(rows) THEN "ISSUED"
  ELSE "PARTIALLY_ISSUED"

-----------------------------------------------------------------------------
Init ==
  /\ req = [r \in Reqs |-> [status |-> "NONE", no |-> None, approved |-> FALSE]]
  /\ task = [n \in Numbers |-> [status |-> "NONE", req |-> None]]
  /\ line = [r \in Reqs |-> [i \in Lines |-> NoLine]]
  /\ pick = [n \in Numbers |-> [i \in Lines |-> NoPick]]
  /\ bal = [b \in Bins |-> [onHand |-> InitStock[b], reserved |-> 0,
                            available |-> InitStock[b]]]
  /\ out = [n \in Numbers |-> [i \in Lines |-> [b \in Bins |-> 0]]]
  /\ adjusted = [b \in Bins |-> 0]
  /\ free = Held

\* The lines that there are, of all requests.
AllRows == {x \in Reqs \X Lines : line[x[1]][x[2]].asked > 0}

(* createInternalRequest, and convertRecommendationToRequest with its own   *)
(* numbering and a line status, PENDING, that nothing reads: nothing keeps  *)
(* two requests from having one number.                                    *)
CreateRequest(r, n, asked) ==
  /\ req[r].status = "NONE"
  /\ \A q \in Reqs : q < r => req[q].status # "NONE"
  /\ \E i \in Lines : asked[i] > 0
  /\ Cardinality(AllRows) + Cardinality({i \in Lines : asked[i] > 0}) <= MaxRows
  /\ req' = [req EXCEPT ![r] = [status |-> "DRAFT", no |-> n, approved |-> FALSE]]
  /\ line' = [line EXCEPT ![r] = [i \in Lines |-> [NoLine EXCEPT !.asked = asked[i]]]]
  /\ UNCHANGED <<taskVars, stockVars>>

(* createRequestLine, updateRequestLine and deleteRequestLine: q = 0 deletes. *)
\* Fault for CreateLine: any request gets a further line, whatever its status.
CreateLineAnytime(r, i, q) ==
  /\ req[r].status # "NONE"
  /\ line[r][i].asked = 0 /\ q > 0
  /\ Cardinality(AllRows) < MaxRows
  /\ line' = [line EXCEPT ![r][i] = [NoLine EXCEPT !.asked = q]]
  /\ UNCHANGED <<req, taskVars, stockVars>>
CreateLine(r, i, q) ==
  /\ Drafted(r)
  /\ line[r][i].asked = 0 /\ q > 0
  /\ Cardinality(AllRows) < MaxRows
  /\ line' = [line EXCEPT ![r][i] = [NoLine EXCEPT !.asked = q]]
  /\ UNCHANGED <<req, taskVars, stockVars>>

UpdateLine(r, i, q) ==
  /\ Drafted(r)
  /\ line[r][i].asked > 0 /\ q > 0
  /\ line' = [line EXCEPT ![r][i] = Edited(@, q)]
  /\ UNCHANGED <<req, taskVars, stockVars>>

DeleteLine(r, i) ==
  /\ Drafted(r)
  /\ line[r][i].asked > 0
  /\ line' = [line EXCEPT ![r][i] = NoLine]
  /\ UNCHANGED <<req, taskVars, stockVars>>

(* submitInternalRequest *)
Submit(r) ==
  /\ Drafted(r)
  /\ Rows(line[r]) # {}
  /\ req' = [req EXCEPT ![r].status = "SUBMITTED"]
  /\ line' = [line EXCEPT ![r] = SetStatus(@, "REQUESTED")]
  /\ UNCHANGED <<taskVars, stockVars>>

(* approveInternalRequest *)
Approve(r) ==
  /\ req[r].status = "SUBMITTED"
  /\ req' = [req EXCEPT ![r].status = "APPROVED", ![r].approved = TRUE]
  /\ line' = [line EXCEPT ![r] = SetStatus(@, "ISSUE_READY")]
  /\ UNCHANGED <<taskVars, stockVars>>

(* rejectInternalRequest *)
Reject(r) ==
  /\ req[r].status = "SUBMITTED"
  /\ req' = [req EXCEPT ![r].status = "REJECTED"]
  /\ line' = [line EXCEPT ![r] = SetStatus(@, "REJECTED")]
  /\ UNCHANGED <<taskVars, stockVars>>

(* cancelInternalRequest: an administrator may cancel a request whose task  *)
(* is under way; the task is left as it is.                                *)
CancelRequest(r) ==
  /\ req[r].status \notin {"NONE", "ISSUED", "CANCELLED"}
  /\ req' = [req EXCEPT ![r].status = "CANCELLED"]
  /\ line' = [line EXCEPT ![r] = SetStatus(@, "CANCELLED")]
  /\ UNCHANGED <<taskVars, stockVars>>

-----------------------------------------------------------------------------
(* The warehouse task.                                                     *)

\* Fault for NewTask: task_no is not UNIQUE, and a new task takes the number over.
NewTaskAnyway(r) == OpenTasks(r) = {}
\* No open task of the request is found, and task_no, made from the request's
\* number, is not in use: otherwise the insert throws.
NewTask(r) == OpenTasks(r) = {} /\ task[req[r].no].status = "NONE"

(* createWarehouseTaskFromRequest. An open task is returned as it is. *)
CreateTask(r) ==
  LET n == req[r].no
  IN /\ req[r].status \in ReadyForTask
     /\ NewTask(r)
     /\ task' = [task EXCEPT ![n] = [status |-> "ASSIGNED", req |-> r]]
     /\ pick' = [pick EXCEPT ![n] =
                  [i \in Lines |-> [NoPick EXCEPT !.asked = line[r][i].asked]]]
     /\ line' = [line EXCEPT ![r] = SetStatus(@, "PICK_PENDING")]
     /\ req' = [req EXCEPT ![r].status = "PICKING"]
     /\ UNCHANGED stockVars

(* startWarehouseTask *)
StartTask(n) ==
  /\ task[n].status = "ASSIGNED"
  /\ task' = [task EXCEPT ![n].status = "IN_PROGRESS"]
  /\ UNCHANGED <<paperVars, pick, stockVars>>

\* What every change of a task line ends with: the line of the request, the
\* status of the task and that of the request follow.
Sync(n, rows, lines, status) ==
  LET r == task[n].req
      synced == SyncedTask(rows, status)
  IN /\ pick' = [pick EXCEPT ![n] = rows]
     /\ line' = [line EXCEPT ![r] = lines]
     /\ task' = [task EXCEPT ![n].status = synced]
     /\ req' = [req EXCEPT ![r].status = SyncedStatus(lines, synced)]

(* pickWarehouseTaskLine *)
PickLine(n, i, q) ==
  LET r == task[n].req
      p == pick[n][i]
      picked == Lesser(q, p.asked)
      short == p.asked - picked
      status == LineStatus(p.asked, 0, short, picked)
  IN /\ task[n].status \in {"ASSIGNED", "IN_PROGRESS"}
     /\ i \in Rows(pick[n]) /\ p.status # "ISSUED"
     /\ Sync(n, [pick[n] EXCEPT ![i] = [p EXCEPT !.picked = picked, !.short = short,
                                                 !.status = status]],
             [line[r] EXCEPT ![i].status = status], task[n].status)
     /\ UNCHANGED stockVars

\* Fault for Taken: what is asked is taken, whatever the balance says.
TakenAsAsked(q, b) == q
\* What an issue takes of a balance when q are to be issued.
Taken(q, b) == Lesser(q, bal[b].available)

\* issueWarehouseTaskLine on the balance of bin b, when it takes something.
Withdraw(n, i, b, q) ==
  /\ bal' = [bal EXCEPT ![b] = Counted(@, @.onHand - q)]
  /\ out' = [out EXCEPT ![n][i][b] = @ + q]
  /\ UNCHANGED <<adjusted, free>>

(* issueWarehouseTaskLine. The bin is the client's choice, the bin of the   *)
(* line or the fullest one: any bin. Without a quantity, all that remains. *)
IssueLine(n, i, q, b) ==
  LET r == task[n].req
      p == pick[n][i]
      target == Lesser(q, p.asked - p.issued)
      taken == Taken(target, b)
      short == p.short + Greater(0, target - taken)
      issued == p.issued + taken
      picked == Greater(p.picked, issued + short)
      status == LineStatus(p.asked, taken, short, picked)
  IN /\ task[n].status \in {"IN_PROGRESS", "PICKED", "PARTIALLY_ISSUED", "EXCEPTION"}
     /\ i \in Rows(pick[n])
     /\ target > 0
     /\ short <= MaxShort
     /\ IF taken > 0 THEN Withdraw(n, i, b, taken) ELSE UNCHANGED stockVars
     /\ Sync(n, [pick[n] EXCEPT ![i] = [p EXCEPT !.picked = picked, !.issued = issued,
                                                 !.short = short, !.status = status]],
             [line[r] EXCEPT ![i] = Served(@, taken, status)],
             task[n].status)

(* closeWarehouseTask: no check of the status of the task. *)
CloseTask(n) ==
  /\ task[n].status # "NONE"
  /\ \A i \in Rows(pick[n]) : pick[n][i].status \notin {"PICK_PENDING", "PICKED"}
  /\ Sync(n, pick[n], line[task[n].req], "CLOSED")
  /\ UNCHANGED stockVars

\* Fault for Cancellable: what was issued already does not matter.
CancellableAnyway(n) == task[n].status # "NONE"
Cancellable(n) ==
  task[n].status # "NONE" /\ \A i \in Rows(pick[n]) : pick[n][i].issued <= 0

(* cancelWarehouseTask: no check of the status of the task or the request. *)
CancelTask(n) ==
  LET r == task[n].req
  IN /\ Cancellable(n)
     /\ task' = [task EXCEPT ![n].status = "CANCELLED"]
     /\ pick' = [pick EXCEPT ![n] =
                  [i \in Lines |-> Dropped(pick[n][i])]]
     /\ line' = [line EXCEPT ![r] = SetStatus(@, "ISSUE_READY")]
     /\ req' = [req EXCEPT ![r].status = "APPROVED"]
     /\ UNCHANGED stockVars

-----------------------------------------------------------------------------
(* The other writers of the balances that a request can meet.              *)

(* createStockAdjustment *)
AdjustStock(b, delta) ==
  LET onHand == bal[b].onHand + delta
  IN /\ onHand >= 0 /\ onHand <= MaxStock
     /\ bal' = [bal EXCEPT ![b] = Counted(@, onHand)]
     /\ adjusted' = [adjusted EXCEPT ![b] = @ + delta]
     /\ UNCHANGED <<paperVars, taskVars, out, free>>

(* allocateWmsInventorySafe: a demand takes some of several pallets. Each   *)
(* entry of its plan is checked against the balance as it was before all.  *)
Allocate(take) ==
  LET promised == [b \in Bins |->
        SumFunctionOnSet(take, {p \in Pallets : BinOf[p] = b})]
  IN /\ \A p \in Pallets : take[p] <= free[p] /\ take[p] <= bal[BinOf[p]].available
     /\ promised \in [Bins -> Nat] /\ \E p \in Pallets : take[p] > 0
     /\ free' = [p \in Pallets |-> free[p] - take[p]]
     /\ bal' = [b \in Bins |-> Promised(bal[b], promised[b])]
     /\ UNCHANGED <<paperVars, taskVars, out, adjusted>>

Next ==
  \/ \E r \in Reqs, n \in Numbers, asked \in [Lines -> Qtys \cup {0}] :
       CreateRequest(r, n, asked)
  \/ \E r \in Reqs, i \in Lines, q \in Qtys : CreateLine(r, i, q)
  \/ \E r \in Reqs, i \in Lines, q \in Qtys : UpdateLine(r, i, q)
  \/ \E r \in Reqs, i \in Lines : DeleteLine(r, i)
  \/ \E r \in Reqs : Submit(r)
  \/ \E r \in Reqs : Approve(r)
  \/ \E r \in Reqs : Reject(r)
  \/ \E r \in Reqs : CancelRequest(r)
  \/ \E r \in Reqs : CreateTask(r)
  \/ \E n \in Numbers : StartTask(n)
  \/ \E n \in Numbers, i \in Lines, q \in Qtys : PickLine(n, i, q)
  \/ \E n \in Numbers, i \in Lines, q \in Qtys, b \in Bins : IssueLine(n, i, q, b)
  \/ \E n \in Numbers : CloseTask(n)
  \/ \E n \in Numbers : CancelTask(n)
  \/ \E b \in Bins, delta \in Deltas : AdjustStock(b, delta)
  \/ \E take \in [Pallets -> Qtys \cup {0}] : Allocate(take)

Spec == Init /\ [][Next]_vars

-----------------------------------------------------------------------------
(* Properties.                                                             *)

(* Every table holds the columns and statuses that the code writes to it.  *)
TypeOK ==
  /\ req \in [Reqs -> ReqRow]
  /\ line \in [Reqs -> [Lines -> LineRow]]
  /\ task \in [Numbers -> TaskRow]
  /\ pick \in [Numbers -> [Lines -> PickRow]]
  /\ bal \in [Bins -> Balance]
  /\ out \in [Numbers -> [Lines -> [Bins -> Nat]]]
  /\ adjusted \in [Bins -> Int]
  /\ free \in [Pallets -> Nat]

(* No line is ever issued more than was approved of it, however often its   *)
(* task is closed, cancelled or made again: "Each line must never exceed   *)
(* requested quantity" (docs/phase-0-foundation-contract.md:371). Nothing  *)
(* in the handlers says so: a task starts from zero, and it is the UNIQUE  *)
(* task_no that keeps a request from having a second one.                  *)
NeverOverIssued ==
  \A r \in Reqs, i \in Lines : line[r][i].issued <= line[r][i].asked

(* A request and its task say the same of each line, in two tables: what is *)
(* to be issued and what has been. Without a task nothing was issued.      *)
TaskAgrees ==
  /\ \A n \in Numbers : task[n].status # "NONE" =>
       /\ task[n].req \in Reqs /\ req[task[n].req].no = n
       /\ \A i \in Lines : /\ pick[n][i].asked = line[task[n].req][i].asked
                           /\ pick[n][i].issued = line[task[n].req][i].issued
  /\ \A r \in Reqs : (\A n \in Numbers : task[n].status # "NONE" => task[n].req # r)
       => \A i \in Lines : line[r][i].issued = 0

(* Nothing leaves stock for a request that no one approved, though a task   *)
(* is never told apart from the request it was made of, and a cancelled    *)
(* task makes any request APPROVED.                                        *)
ApprovedBeforeIssue ==
  \A n \in Numbers, i \in Lines, b \in Bins :
    out[n][i][b] > 0 => task[n].req \in Reqs /\ req[task[n].req].approved

(* A request that is ISSUED has had every line issued in full, and stays    *)
(* so whatever is done to it, to its task or to another's.                 *)
IssuedIsComplete ==
  \A r \in Reqs : req[r].status = "ISSUED" => Complete(line[r])
IssuedIsFinal ==
  [][\A r \in Reqs : req[r].status = "ISSUED"
       => req'[r] = req[r] /\ \A i \in Lines : line'[r][i].issued = line[r][i].issued]_vars

(* A request with every line issued in full is ISSUED: the status, which is *)
(* recomputed from the lines, is never left behind by a cancellation, a    *)
(* close or a shortage.                                                    *)
CompleteIsIssued ==
  \A r \in Reqs :
    (req[r].approved /\ Complete(line[r])) => req[r].status = "ISSUED"

\* What left bin b on behalf of requests, by the rows of a table of movements.
Withdrawn(rows, b) ==
  SumFunction([x \in Numbers \X Lines |-> rows[x[1]][x[2]][b]])

(* A balance is what the movements of its bin add up to, and never negative, *)
(* whatever mixture of issues, adjustments and allocations made it.        *)
StockReconciles ==
  \A b \in Bins : /\ bal[b].onHand = InitStock[b] + adjusted[b] - Withdrawn(out, b)
                  /\ bal[b].onHand >= 0

(* docs/phase-0-foundation-contract.md:371: "Each line must never exceed     *)
(* requested quantity." So the goods that leave stock for a line do not.   *)
MovedWithinRequest ==
  \A n \in Numbers, i \in Lines :
    SumFunction(out[n][i]) <= pick[n][i].asked
=============================================================================
