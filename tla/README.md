# A verification project for opstrax-supplyops-v1

This directory holds TLA+ modules that model the state-changing core of
`src/opstrax-supplyops-v1` (the Node program that `railway.json` and
`render.yaml` deploy as one web service), the TLC configurations that check them
on small instances, and TLAPS proofs of their main properties for all values of
the constants. `PROJECT.json` lists the runs, the faults that each property is
known to detect, the source lines behind each definition, the hazards and the
findings.

## 1. The system

### 1.1 How it runs

One Node process serves every request (`wms-server.js` around `server.js`).
Every database call blocks the thread: on SQLite directly, on PostgreSQL through
`src/sync-rpc.js`, which parks the main thread on `Atomics.wait` until a worker
answers. Once its body is parsed, a handler therefore runs without any other
handler in between; only the callback of a login (`src/auth.js`) awaits something, the
identity provider. What can go wrong is elsewhere:

* **a handler is several transactions.** `src/wms-safety.js` wraps the handlers of
  `src/wms.js`: each wrapper calls the base handler, which commits, and then opens
  a transaction or two of its own. The process may die between them (the
  deployment restarts it), or a later one may throw and answer with an error
  after an earlier one was committed. The handlers of `src/asset-custody.js` and most of
  `src/inventory-optimization.js` open no transaction at all: each statement is one;
* **handlers come in any order.** Most of them check the status of one row and
  write the status of several. Long sequences of legal calls (cancel a request
  whose task is under way, then issue the task; close a task twice) reach
  states nobody wrote a test for;
* **one fact is kept in several tables.** Where a pallet is: three tables. What was
  issued of a request line: two. What is in a bin: a balance and its movements;
* **clients retry.** Some handlers take a request key, and use it differently. Batches of
  offline work are uploaded again, and validated and replayed in any order;
* **things are kept outside the database:** sessions in a cache, binaries in an object store.

### 1.2 Inventory

The components, their state, operations and what makes them correct. Line numbers
are those of `src/services.js` unless another file is named.

| Component | State | Operations | Correct when | Status |
|---|---|---|---|---|
| Warehouse floor: `wms.js`, `wms-safety.js`, `wms-engine.js` | positions, handling units, occupancies, inspections, reservations, allocations, events, bills (migration 029) | create and sync positions, reserve, check in, inspect, allocate, release | a position holds one pallet; the tables agree; no double booking; each service billed once; nothing promised twice | `WmsFloor` |
| Requests and warehouse tasks, 1433-2572 | `internal_requests`, `request_lines`, `warehouse_tasks`, `warehouse_task_lines` | draft, edit, submit, approve, reject, cancel; create, start, pick, issue, close, cancel a task | nothing over-issued or issued unapproved; tables agree; the status of a request says what was issued | `RequestFulfilment` |
| Stock: `stock_balances`, `stock_movements` | on hand, reserved, available by bin | written by the two above, by hand adjustments (1176), receiving (6301), sync batches (6492-6548), offline replay (9269-9292), cycle counts (`inventory-optimization.js` 434) | a balance is the sum of its movements | `WmsFloor`, `RequestFulfilment`, `StockBook` |
| Item master, 1083 | status of items | create, update | an inactive item is not posted | its one effect in `WmsFloor` |
| Receiving, 6053-6388 | receive sessions and lines, order totals | create, start, record, post, cancel | the totals of an order are what its posted sessions say | `Receiving` |
| Procurement, 3841-4490, and budgets, 2710-3041 | purchase requests and orders with their lines, budget counters and ledger, waivers | draft, edit, submit, approve, reject, cancel; order, approve, issue, cancel; gate, reserve, consume | an order is what was approved, is funded and is made once; counters equal the ledger; no budget is committed beyond what it has | `PurchaseToPay` |
| Invoices, 4580-5390 | invoices, match exceptions | create, upload, extract, edit, match, waive, approve, reject, cancel, export | what is paid has no open exception and was consumed | `PurchaseToPay` |
| RFQ, 5424-5807 | requests for quotation, lines, quotes | create, edit, send, quote, shortlist, evaluate, award, reject, expire, cancel | an award stands and keeps its total | `Sourcing` |
| Offline batches 8887-9346 and sync batches 6409-6567 | devices and their trust, batches, tasks, conflicts | trust, upload, validate, replay, reject; approve, reject, resolve | what is called posted was applied | `OfflineSync`, `SyncReview` |
| Exports and jobs, 7117-7745 | export batches, their errors, integration jobs | validate, approve, generate, dispatch, cancel; retry or cancel a job | status, errors, payload and jobs agree | `FinanceExport` |
| Worker bridge: `sync-rpc.js`, `postgres-db-worker.js`, `transaction()` of `db.js` | two shared control words, one shared buffer, one connection | ask for a statement; answer it; time out; commit or roll back | an answer belongs to its call; an operation is done whole or not at all; every call ends | `WorkerBridge`, `AtomicOperations` |
| Cycle counts, `inventory-optimization.js` | plans, sessions, variances | plan, count, submit, approve, decide, post | only decided variances are posted, each once | `CycleCount` |
| Asset custody, `asset-custody.js` | an asset, its assignments, transfers, returns, cases, disposals | assign, transfer, return, damage, lose, quarantine, repair, dispose | the record is backed by the open rows; a disposal takes two persons | `AssetCustody` |
| Evidence, 7889-8190, `evidence-storage.js` | binaries, documents, links, custody events | upload, link, verify, archive | a record has its binary and a true trail | `Evidence` |
| Sessions, `auth.js` | login requests, sessions, the cache | start, complete, read, log out, restart | no answer for a session that ended, but for the time of the cache | `SignIn` |
| Access reviews, 8391-8457 | reviews and their entries | create, decide | a completed review decided on everybody it lists | `AccessReview` |
| AI recommendations 9563-9917, controls, risks and incidents 8291-8600, replenishment and ABC classes (`inventory-optimization.js` 560-1245), labels and scans 8992-9086 | rows with a status | | | not modelled |
| Reporting, platform, seed, front ends | read-only, or rows of access rights | | | not modelled |
| `opstrax-enterprise-build/`, `vantelyx-clm-suite-complete/` | separate demonstrations over mock or in-memory data | | | not modelled |

How they interact: the floor and the tasks meet in `stock_balances`. The floor adds
to it when a pallet is accepted, reserves when it is allocated and takes away when
it is shipped; the tasks take away what they issue; an administrator corrects it by
hand. Recommendations create requests. Purchase requests become orders, which are
invoiced; requests and invoices meet in the budgets. Receiving, offline work and counts
write stock balances too.

### 1.3 What is hard in each part

* **Floor.** A check-in is up to three transactions, a split decision up to three, a
  release up to three. A crash or a throw between two of them must not put two
  pallets in a position, charge a stay twice or lose what was reserved.
  Reservations are chosen from a snapshot and check-ins come before and after
  them. Clients retry with a key.
* **Requests.** No handler looks at more than it needs: cancelling does not look at
  the task, closing does not look at the task's status, the task's number comes from
  a clock. What keeps a line from being issued twice is spread over all of them.
* **Purchasing.** Gate, reservation and consumption read the ledger of a budget at
  different times, of different years, with waivers that expire; invoices can be edited,
  matched, rejected and cancelled from nearly every status.
* **Stock.** Issues and adjustments write absolute values computed from a read,
  receipts and allocations increment; `available` is clamped at zero by one of them
  only.
* **Receiving, counts, offline work.** Each changes balances in its own way: increments,
  absolute values, a sum written to every bin. Two sessions of an order may be open at once; a
  count is posted long after it expected a quantity; a task is recognised by the hash of what
  it carries.
* **Custody.** A handler is up to four writes without a transaction, and decides by one row:
  an approval looks at its request and not at what became of the asset meanwhile.
* **Exports, sourcing.** Most handlers accept nearly every status, and batches are validated
  again, jobs retried, quotes awarded again.
* **Evidence, sessions.** Two stores that no transaction covers: the binary is written before
  its row; a session is answered from a cache that no other table knows of.
* **Bridge.** Two threads share three words without a lock. A late answer stays on its
  way when its call has given up, and every later call meets it.

The line at which each of these bites, and the properties that would notice, are the
`hazards` of `PROJECT.json`.

## 2. The modules

```
AtomicOperations  <-- implemented by --  WorkerBridge  <--  WorkerBridgeProofs
        | (what a transaction is, for the modules below)
        v
     WmsFloor  <--  MCWmsBooking, MCWmsInventory          (model checking)
               <--  WmsFloorProofs  <--  WmsLedgerProofs   (proofs)
     RequestFulfilment  <--  MCRequests,  RequestProofs
     PurchaseToPay      <--  MCPurchaseToPay,  PurchaseProofs

     StockBook  <--  Receiving, CycleCount, OfflineSync, SyncReview  <--+
     AssetCustody, FinanceExport, Sourcing, Evidence, SignIn,           |
     AccessReview  <------------------------------------------------------+--  BackOffice  <--  MCBackOffice
     Receiving, CycleCount, OfflineSync, SyncReview  <--  StockProofs
     BackOffice, StockProofs  <--  DeskProofs

     SumTheorems  <--  WmsLedgerProofs, RequestProofs, PurchaseProofs, StockProofs
```

Arrows point to the module that is extended; only `WorkerBridge` instantiates
`AtomicOperations`.

### 2.1 `WmsFloor`

State: one variable per table, or per column when it is written on its own
(`unitStatus`). A row of a table is a record of the columns that some guard or
property reads. There is one item: rows of `stock_balances` of two items never mix.
Other choices:

| In the model | In the code |
|---|---|
| `request` and `Idle` | the transactions the handler in progress still owes. An action with `request = Idle` starts a handler; `ActivateReservations`, `PostReceipt`, `Segregate`, `PostShipment`, `CloseRelease` are later transactions of one |
| `Abort` | the process dies between two transactions, or the next one throws and rolls back |
| `CheckIn`, then `ActivateReservations`, `PostReceipt` | `checkInWmsHandlingUnitSafe` around `checkInWmsHandlingUnit` |
| `DecideWhole`, `DecideSplit`, then `Segregate`, `PostReceipt` | `recordWmsQualitySafe` around `recordWmsQuality` |
| `Release`, then `PostShipment`, `CloseRelease` | `releaseWmsHandlingUnitSafe` around `releaseWmsHandlingUnit` |
| `Allocate`, `FefoTake` | `allocateWmsInventorySafe`, `allocateFefo` of `wms-engine.js` |
| `Reserve`, `Bookable`, `StatusOf` | `reserveWmsCapacity`, `selectBookableUnits`, `refreshCapacityStatus` |
| `moved`, `adjusted` | rows of `stock_movements`: each posting of a pallet as a row, adjustments summed by bin |
| `events` | the idempotency keys of `wms_operational_events` that two calls can share |
| `now`, `Never` | the clock in ticks between two handlers; a null date |

An error answer that changes nothing is an action that is not enabled. A handler that
throws inside its only transaction changes nothing either.

### 2.2 `RequestFulfilment`

Every handler of `services.js` 1433-2572 is one transaction, so one action.
`CreateRequest`, `CreateLine`, `UpdateLine`, `DeleteLine`, `Submit`, `Approve`, `Reject`
and `CancelRequest` are the handlers of the department; `CreateTask`, `StartTask`,
`PickLine`, `IssueLine`, `CloseTask` and `CancelTask` those of the warehouse. `Sync` is
what every change of a task line ends with: `syncWarehouseTaskStatus` and
`syncWarehouseRequest`. `LineStatus`, `TaskStatus` and `SyncedStatus` are the pure
functions they call. `AdjustStock` and `Allocate` are the other writers a
request can meet in a balance. `issueInternalRequest` calls the handlers of the task
one after another, each in its own transaction, and so adds no state of its own. A
request line that asks for 0 does not exist; the table of tasks is indexed by
`task_no`, which is UNIQUE and made from the number of the request.

### 2.3 `PurchaseToPay`

From a purchase request to an exported invoice, and the budgets in between; every
handler of `services.js` 3841-5390 on them is one transaction, so one action.

| In the model | In the code |
|---|---|
| `Gate`, `Reserve`, `Consume` | `procurementApprovalGate`, `reserveBudgetForEntity`, `consumeBudgetForEntity`. The gate passes a centre without a budget; the other two refuse it |
| `Available`, `Posted`, `posted` | what the gate computes from the rows of `budget_ledger_entries`, and the counters of `department_budgets`, which are kept beside them |
| `BudgetOf`, `NewYear` | `getDepartmentBudgetRecord`: the row of the cost centre in the fiscal year of the call, or one of its department, or none |
| `waived` | `procurement_waivers` of type BUDGET_EXCEPTION, which may expire |
| `pr`, `po`, `inv` | the rows with their lines. A line is what it comes to; an absent row is `NoRow` |
| `open` | rows of `invoice_match_exceptions` that are not waived |

Left out, because it can only make the gate refuse more: the state of suppliers,
contracts and items. Left open: whether an extraction completes, and what a match finds
in lines and receipts, which the model does not hold. `ISSUED` of an order stands for
what receiving makes of it. `MATCHING_PENDING` and `APPROVAL_PENDING` are written and
overwritten within one transaction and so are no states here; `TypeOK` says that they
never stay. `updatePurchaseOrder` writes a note, and the review of an extraction run its
own row. Budgets start without the demonstration entries of `seed.js`.

### 2.4 `WorkerBridge` and `AtomicOperations`

One action is one access to shared memory. The main thread goes through `Clear`,
`Fill`, `Post`, `Wait`, `ReadStatus`, `ReadLength`, `Decode` (the body of `request()`),
or `Timeout`; the worker through `Erase`, `WriteBody`, `StoreLength`, `StoreStatus`,
`Notify` (`writeSynchronousWorkerResponse`). `Execute` is the connection: it runs
statements in the order of their messages and knows open and aborted transactions.
`AfterAnswer` and `AfterThrow` are `transaction()`: where the handler goes when a
statement is answered or throws. A statement is named by the number of its message and
an answer by that of its statement, so that whose answer a call takes can be seen;
the code has no such number. Only success and failure of an answer are told apart.
`WorkerDies`, `Crash` and `Restart` are the failures.

A call ends before its answer is there in two ways: it times out (`late` counts these), or
the worker is held up between storing an earlier answer and notifying of it, and that
notify wakes the call, which then reads a status of 0 (`ReadStatus`; `early` counts
these). Both can happen in every run and in the theorems, and `MaxMissed` bounds their number in a
run; `BridgeWake` shows the second happening without the first. `Punctual` is the condition
that neither has happened in this life of the process: it is part of what `OwnAnswer` and
`Atomic` say, not an assumption about the code.

`AtomicOperations` is what `transaction(handler)` means to its callers: an operation
asks for writes, then they are applied at once or never, and its caller is told of a
return only in the first case and of an error only in the second. The modules above
rely on it by having one action for each transaction. `Atomic` says it of every step of a
behaviour as long as it is `Punctual` and no worker died: after either, a transaction may be
left open, its COMMIT answered too late or a failed write taken for a success, and nothing is
promised.

### 2.5 The desks: `StockBook`, ten components, `BackOffice`

The components that work beside the three above are small, and nearly independent: each has a
module with its own variables, `...Init`, `...Next` and `...Spec`, and properties.

| Module | Stands for | Choices |
|---|---|---|
| `StockBook` | balances of one item by bin, movements summed by what they refer to; `AdjustStock` | extended by the four modules that write stock; for each of them, a hand adjustment stands for whatever the others do to stock meanwhile |
| `Receiving` | 6053-6388 | `tally` is `order_receipt_totals`; whether the user has `over_receive_stock` is chosen at each call |
| `CycleCount` | plans to postings | `SubmitSessionForReview` may stop after its first statement; a posting writes `HoldingAfter` to every bin, in any order of its variances |
| `OfflineSync` | 8887-8991, 9087-9346 | a payload is its quantity: what the hash is made of. `applied` counts how often a task changed stock |
| `SyncReview` | 6409-6567 | the batch of the seed data, since no handler makes one |
| `AssetCustody` | one asset | an action gives the sequence of states that its statements make, and `Commit` keeps the last or, if the handler is cut short, an earlier one |
| `FinanceExport` | one batch and its jobs | `books` is what there is to export, which changes at any time |
| `Sourcing` | one request and its quotes | a quote's lines come to its total |
| `Evidence` | documents | `whole = FALSE` is an upload whose transaction does not come about |
| `AccessReview` | one review of the users that are active | each statement may be the last: entries are a set, so a creation cut short leaves any of them; the counters are written with the decision or not at all |
| `SignIn` | one user, one surface | the three waits of a callback are one: nothing is read or written between them |

`BackOffice` composes them. They meet in the rows of stock and nowhere else, and there the
others are hand adjustments; so a behaviour of `BackOffice` has one desk at work, chosen at
the start, and its behaviours are those of each desk. `StockIsExplained` is stated there for all that
write stock.

## 3. The runs

| Run | Module | Question | Result |
|---|---|---|---|
| `WmsBooking` | `MCWmsBooking` | do positions, stays, bookings and bills stay right over time, with two customers and crashes? | holds |
| `WmsInventory` | `MCWmsInventory` | is a pallet promised, posted and shipped at most once, split or not, and do balances agree with movements and allocations? | holds |
| `WmsReplay` | `MCWmsBooking` | is a reservation idempotent under its request key? | violated |
| `Requests` | `MCRequests` | can two requests that may share a number and compete for scarce stock be over-issued, mixed up, issued unapproved or changed once issued, and do status and balance say what was issued? | holds |
| `RequestMoved` | `MCRequests` | do the goods that leave for a line stay within what it asks for? | violated |
| `Purchasing` | `MCPurchaseToPay` | is an order what was approved, funded and made once, over years, changed budgets, waivers and repeated calls? | holds |
| `Invoicing` | `MCPurchaseToPay` | was what is paid consumed and free of exceptions, whatever an invoice went through? | holds |
| `OrderLines` | `MCPurchaseToPay` | is what is ordered what was reserved? | violated |
| `Bridge` | `WorkerBridge` | does the bridge implement `AtomicOperations`, whose answer does a call take after a timeout or an early wake-up, and does every operation end? | holds |
| `BridgeWake` | `WorkerBridge` | can a call return before its statement has run, without any timeout? | violated |
| `BackOffice` | `MCBackOffice` | do the ten desks keep their rows, and stock, in agreement, whatever is cut short, repeated or decided late? | holds |
| `OfflineReplay` | `MCBackOffice` | does a task of an offline batch change stock once at most? | violated |

Every property of a passing run has a fault of the code in `PROJECT.json` (`mutants`)
under which the same run finds it violated.

### 3.1 Bounds, and why they are enough

* `WmsBooking`: two positions are needed for a pallet to be moved and for the choice
  of the first free one to matter; one exists at start without bin, the other is made
  by hand or by the synchronisation. Two pallets and two bookings meet each other
  and themselves in every order; two customers, since every rule is about "the same"
  or "another". The windows are now, later, and later for both positions; the clock
  ticks once, which makes a window start, a stay pass its date, and a half-open end
  be met exactly. Goods here are not stock-kept: the ledger is the next run's.
* `WmsInventory`: two pallets, of which one may come from splitting the other; 2 is the
  smallest quantity that splits. Two demands compete, and a request of two with
  `allowShort` spans pallets. Two positions share a bin and a third has another;
  adjustments by hand of one up or down, up to at most one on hand (`MaxStock`), are
  enough for `available` to be clamped and for a shipment to be starved. The item may be
  deactivated and activated at any time. The clock stands still, since nothing here
  reads it.
* `Requests`: two requests over two numbers share one or not. `MaxRows` allows two lines in all,
  of 1 or 2: either two requests of one line, which compete, or one request of two, whose
  status depends on whether all or some are complete; issues in parts occur in both; one bin of 2, a pallet of 1 and adjustments of one keep stock scarce in every
  way. `MaxShort` bounds a counter that repeated failing issues would raise for ever.
  `RequestMoved` has two pallets, which a negative `available` needs.
* `Purchasing`: two requests compete for one budget a year and two orders can be made of
  one request; two lines of 1, so that a total and its lines can differ; a budget of 2 is
  used up by two lines and may be lowered to 1. `MaxTotal` is the largest total a request
  can start with. Two years are needed for an order to be reserved twice. No invoice: that
  `CountersAgree` and `NeverOverCommitted` hold while invoices consume is shown by their theorems.
* `Invoicing`: one request, order and invoice; a request of 1 and an invoice of 1 or 2 in
  a budget of 2, so that the invoice may leave too little for a reservation and the
  other way round; two centres that share a budget in the first year, of which one
  has its own and the other none in the second.
* `OrderLines`: one request of two lines, one order.
* `Bridge`: two operations of up to two writes, of which one may fail after the other
  succeeded; one call that ends before its answer, by timeout or early wake-up, and one death of the
  worker, at any step and both in one behaviour, or else one death of the process at any step: what
  follows it begins like a new run, with fewer operations. At most eight messages
  follow one another, so that several calls follow the one that ended early. The theorems of section 4
  hold for any number of all of these.
* `BackOffice`: two users, since an approval needs one who is not the requester; one open row
  of a kind and one handler cut short (a second cut finds nothing the first has not made). Two bins of 10 with 2
  reserved, so that a hand adjustment of -7 leaves one short of what is reserved and makes the fullest
  bin change; two receive sessions over two lines of 2, delivered whole or damaged piece by
  piece; two counts of up to two variances, one below and one above the 20% that block; two
  offline batches of up to two tasks of one quantity (6), so that all payloads are alike, and
  one sync batch whose three tasks depend on one another; two documents, two quotes, two
  prices; two callbacks and two sessions over three ticks, with lifetimes of one; one review of up to
  three users with one handler cut short, so that some are decided, some not and some missing.
  Symmetry: offline batches and count sessions, which no definition tells apart.
* `OfflineReplay`: the same, with two validations of a batch and the other desks empty.
* `MaxHU`, `MaxRes`, `MaxStock`, `MaxTime`, `MaxReqs`, `MaxRows`, `MaxShort`, `MaxYear`, `MaxTotal`,
  `NumOps`, `MaxMissed`, `MaxStops`, `MaxOpen`, `MaxCuts`, `MaxHalts`, `MaxFound`, `MaxTasks`,
  `MaxRounds`, `MaxGot`, `MaxDispatches`, `LastTick` and the sets of rows of the desks are the bounds; each occurs in a guard of
  the action it bounds. Symmetry is used for customers in `WmsBooking`, for demands in
  `WmsInventory` and for requests, orders and lines in `Purchasing`, where no liveness
  property is checked.

### 3.2 Fairness

Only `FairSpec` of `WorkerBridge`, which the run `Bridge` checks, has any: weak fairness of each
thread. The main thread is scheduled, its handlers end and `Atomics.wait` has a finite timeout
(`Handle`, `Call`, `Timeout`); the worker is scheduled (`Work`). Nothing
is assumed of `Begin`, of the failures, or of a restart. It is used for
`EveryOperationEnds`: a wake-up that is lost, or a worker that died, holds no request
for ever. The other specifications are about safety alone: no handler of theirs has
to be called, and the code has no timer or background task that would make one happen: jobs of
exports are queued and nothing in the repository takes them up.

## 4. The proofs

All theorems hold for every value of the constants allowed by the named assumptions of
the modules, which only say of what kind each constant is (`SizeAssumption`,
`LayoutAssumption`, `InputAssumption` of the floor; `BoundAssumption`,
`NumberAssumption`, `QuantityAssumption`, `StockAssumption` of requests;
`BoundAssumption`, `AmountAssumption`, `BudgetAssumption`, `OrderAssumption` of purchasing;
`BridgeAssumption`; `StockAssumption` of the book of stock, and one of each desk). A
set over which a property sums is assumed finite where nothing else makes it so (`Demands`, `Numbers`,
`Lines`, `Batches` and their like: identifiers of rows, of which a table has finitely many).

| Theorem | Says |
|---|---|
| `WmsFloorProofs`: `TypeCorrect`, `FloorInvariant` | the type and inductive invariants of the floor |
| `PositionsSafe` | `PositionsSound`: one pallet for each position; three tables agree |
| `BookingsSafe` | `BookingsSound`: no double booking; no stay across another customer's booking |
| `BillingExact` | one charge for each receipt and each stay |
| `ShippedForGood` | a shipped pallet never changes |
| `WmsLedgerProofs`: `PostingsSound` | postings only of accepted stock, once, in full, from where it was received |
| `LedgerAddsUp` | `LedgerReconciles`: each bin holds what its movements and adjustments add up to |
| `AllocationsSafe` | `AllocationsCovered`: no pallet over-allocated, all that is allocated in a bin is reserved there |
| `RequestProofs`: `RequestInvariant`, `RequestTypes` | the inductive invariant and types of requests |
| `NothingOverIssued`, `TablesAgree`, `IssueNeedsApproval`, `IssuedMeansComplete`, `IssuedForGood` | no over-issue; two tables agree; approval before issue; ISSUED is complete, and for good |
| `StockAddsUp` | `StockReconciles`: each bin holds what adjustments and movements leave of its start |
| `CompleteMeansIssued` | `CompleteIsIssued`: a request issued in full says so |
| `PurchaseProofs`: `PurchaseInvariant`, `PurchaseTypes` | the inductive invariant and types from request to invoice |
| `OrdersAreApproved`, `OrderedOnce`, `OrdersAreFunded`, `PaidFromBudget` | `OrderAsApproved`, `OneLiveOrder`, `OrderFunded` and `PaidIsConsumed` |
| `CountersAddUp`, `CommittedWithinBudget` | `CountersAgree`; `NeverOverCommitted`, an action property |
| `WorkerBridgeProofs`: `BridgeInvariant`, `BridgeTypes` | the inductive invariant and types of the bridge |
| `AnswersOwned`, `DriftIsBounded` | whose answer a call takes, before and after timeouts and early wake-ups |
| `OperationsAreAtomic` | `Atomic`: the bridge implements `AtomicOperations` while every call waits for its answer and no worker died |
| `StockProofs`: `ReceiptsAddUp` | `ReceiptsAgree`: orders and stock add up to the posted sessions |
| `CountsDecided`, `CountsExplained` | `CountIsDecided`; the movements of counts are the variances posted |
| `PostedWasApplied` | `SkippedWasApplied`: a posted task had its payload applied, by itself or by another |
| `DeskProofs`: `AssetInvariant`, `CustodyBacked`, `DisposalsSound` | the inductive invariant of custody; types with `StatusIsBacked`; `DisposalIsSound` |
| `ExportsSound`, `AwardsStand`, `EvidenceKept`, `SessionsCurrent`, `ReviewsHonest` | types and property of exports, sourcing, evidence, sign-in and access reviews |
| `BackOfficeInvariant`, `DesksTyped`, `StockExplained`, `DesksSound` | the invariant of the composition; `DesksTypeOK`; `StockIsExplained`; the ten other properties of the run `BackOffice` |
| `SumTheorems` | the lemmas about sums and replays that the above rest on |

Arguments:

* **Floor.** The properties are not inductive as they stand. A new pallet could
  inherit the stay of its number: `FreshRows` says numbers not yet given out have
  empty rows. A crash of a split leaves a rejected part without a stay, and the
  transaction that gives it one does not check the destination again: `PendingSplit`
  says the destination is still free, because no other handler starts while
  `request` is owed. `QualityAgrees` is what keeps a late decision from reviving a
  shipped pallet. With these, `FloorInv` is inductive. `LedgerInv` adds where a pallet
  that is on the floor was posted (`PostedWhereStored`) and what a posting that is
  still owed will find (`OwedPostings`). For `AllocationsCovered` two more facts are needed:
  only an accepted pallet has allocations (`AllocatedAccepted`), and between the transactions of a
  shipment, when the pallet has left its position but its goods are still in the balance, the bin
  has its quantity reserved beyond what the pallets that are left there need (`OwedShipment`).
  `AllocInv` is inductive over crashes because what `Abort` leaves reserved is never too little.
* **Requests.** `NeverOverIssued` needs that a request gets one task at most in its
  life (its number is UNIQUE among tasks: `TaskAgrees`, `Numbered`), and that a line is
  not edited once a task has copied it (`Begun`: a request with a task is never a draft
  again). `IssuedIsComplete` needs that a request marked ISSUED is never recomputed to
  something less: a complete line is never picked again (`CompleteRows`, `QuietRows`),
  so closing and cancelling recompute ISSUED. `StockReconciles` needs that no reservation is
  negative and that `available` is never above what is on hand (`Balanced`): that bounds what an
  issue, which looks at `available` only, takes away. `CompleteIsIssued` needs what a row is before
  it is asked for anything (`BlankRow`) and that a request not yet approved has nothing issued (`Unapproved`).
* **Purchasing.** A reservation that is already booked is not looked at again, so
  `OrderFunded` holds only because whatever was booked for a request is the amount of
  its order. `ReservedAsApproved` says so: an entry exists only for a request that is
  approved, at its total, and an approved request never changes. Most actions have one of
  three shapes (`RequestChanges`, `OrderMoves`, `InvoiceChanges`), each of which keeps the
  invariant; only approval, ordering, issuing and paying write to the ledger. `MoneyInv` says that the ledger
  is finite and that counters are its sums; `CommitStep`, what one entry does to both, is used for
  every action that writes one, and gives `NeverOverCommitted` from the guards of `Reserve` and `Consume`.
* **Bridge.** What a call will read depends on how many status words were stored when
  it began. `Behind` counts, at every step of a call, the answers that are owed: at most
  one for each call that timed out or was woken early, besides its own. `InStep` is the same count for a call that
  began with none owed, and `Bytes` says which answer the memory then holds.
* **Custody.** `Sound` holds in every state that a handler passes through, `Backed` in the
  last if it held in the first; a lemma for each length says what `Commit` makes of that, so
  that a cut needs no case of its own. That one of several rows is closed, and which, never
  matters: the counters of transfers and disposals are at most 1 (`OneMore`, `OneLess`).
* **Counts.** A session gets variances only while it is open and is approved only without a
  blocking one, so a late decision can only reject what does not block. That needs no
  quantity: `CountShape` says what the rows are otherwise. What a posting writes to the bins
  (`HoldingAfter`) goes through its variances one by one, and only its type matters;
  `CountsExplained` is about the movements, which a posting writes by bin: their sum
  is that over its variances, grouped by their bins.
* **Desks.** `ExportsAgree` and `AwardStands` are inductive with the types. Evidence needs that
  a document without a row has no trail (`NoTrailYet`). Sessions need what the cache holds:
  that it was true when it was stored, and for how long (`CacheIsRecent`). A review that was cut
  short while it was made says a total that its entries never reach; all others say as many
  as they have.
* **Stock.** A handler of a desk writes a balance and a movement together (`Entry`), which keeps
  the book: on hand is the start with all movements of the bin. Each desk then relates the movements under
  its own reference to its own rows: posted sessions in `ReceivingInv`, with lines that no order
  has empty (`AbsentLinesEmpty`); posted variances in `CountStockInv`; tasks that changed stock in
  `OfflineReach` and `SyncReach`. `SkippedWasApplied` is not inductive: an upload
  replaces the tasks of a batch, and a posted task elsewhere may rest on one of them. `Accounted`
  adds that a batch that can still be uploaded has had nothing applied (`Fresh`, `NotBegun`), and every
  other handler keeps what was applied on record.
* **Sums and replays.** `SumTheorems` proves what a sum over a finite set does when one
  value changes (`SumChanged`), a member is added (`SumAdded`), or members are grouped
  (`SumByClass`), and that a property which every step of a replay keeps holds at its end
  (`StepsWithin`). None of it is by induction over data: the sum of the library is the value of a function
  chosen to satisfy its recursion, so its existence is shown by taking a smallest subset on
  which it fails (`MinimalSubset`), and a replay fails at a first step. In `StockProofs` a chosen function
  stands for the local one of `HoldingAfter`, `AppliedTasks` and `Replayed`.
* **The composition.** `BackOfficeInv` has every desk's invariant at once. A desk at rest keeps its
  own because the one at work writes none of its variables (`RowDesks`), and writes of the
  movements only those under another reference (`StockDesks`, `Kept`). So each step of the composition is a
  step of one desk, to which that desk's lemmas apply.
* **The promise of `transaction()`.** `Atomic` is a refinement: every step of the bridge is a
  step of `AtomicOperations` or changes none of its variables. It needs where the connection
  is at every step of a call (`InHand`): before the statement asked for has run (`Before`),
  after it succeeded (`Done`) or failed (`Failed`), and that nothing else is under way
  (`AllRan`, from `Behind`). Three steps only are more than a stutter: asking for a write,
  the statement that makes writes durable, and the end. `Turns` and `Owners` hold even when
  calls end early, because a new process starts from whatever the last one left.

Left to TLC alone: `EveryOperationEnds`, since liveness is out of the prover's reach, and the five
properties that the code violates. Every other property of a run is stated by a theorem
above, for which the sets, windows and bounds of section 3.1 are any.

## 5. Findings

1. `WmsReplay`: a reservation repeated with its request key books again
   (`wms.js:203`), though the API is documented as idempotent under that key.
2. `RequestMoved`: once `available` is negative, an issue takes a negative quantity and
   lowers what was issued without a movement (`services.js:2401`).
3. `BridgeWake`: the control word is not read again after `Atomics.wait`
   (`sync-rpc.js:28`), so the notify of one answer can end the next call.
4. `OrderLines`: the total of a purchase request is not recomputed when its lines are
   edited (`services.js:4133-4232`), and the gate, the reservation and the amount of
   the order go by it, while the order gets the lines.
5. `OfflineReplay`: a batch may be validated again after its replay, which sets its posted
   tasks back, and replayed again (`services.js:9220`), though a batch "must be idempotent"
   (`docs/phase-0-foundation-contract.md:477`).

Seen while modelling, present in the models, and checked by no run:

* *Requests and invoices.* A request line issued in two parts stays PARTIALLY_ISSUED while its
  request is ISSUED (`services.js:2406`; `docs/phase-0-foundation-contract.md:370` says that
  lines mirror requests); an invoice that is exported can be matched again, and then edited
  and cancelled (`services.js:5164`; "Exported invoices cannot be cancelled", 5309); one that
  is ready for export can be given another cost centre than the one charged (3073; the
  refusal at 4722 says "before approval").
* *Custody* (`docs/releases/phase-3j-asset-custody-lifecycle.md`). A transfer that is pending
  when its asset is lost or disposed of can still be approved, and makes it ASSIGNED
  (`asset-custody.js` 401-455; "Once DISPOSED, asset is terminal", 46). Releasing a
  quarantine, closing a case and rejecting a disposal make an asset AVAILABLE that may have
  an active assignment, and a DISPOSED asset may keep one. The rejection of a disposal writes
  no event ("Every status transition ... writes a timestamped event", 17).
* *Receiving.* The refusal to receive more than was ordered looks at one session
  (`services.js:6191`, 6293): two sessions of one order receive it twice.
* *Counts.* Posting writes the sum of all bins to the row of every bin
  (`inventory-optimization.js:460`) and leaves `available`; posting twice is refused ("Posting
  is idempotent — safe to call twice", `docs/releases/phase-3i-inventory-optimization.md:31`).
* *Offline work.* Nothing reviews a batch before it is replayed ("Supervisor review is mandatory
  before posting", `docs/phase-0-foundation-contract.md:476`), because the review of a
  conflict cannot happen: the row that records one violates a foreign key
  (`services.js:9242-9243`, `db/migrations/002_gap_closure.sql:6`), and the validation fails.
  Tasks of different kinds with one payload count as one; a device may have been revoked.
* *Exports.* A DRAFT batch can be approved and generated without a validation ("Validation must
  pass before generation", `docs/phase-0-foundation-contract.md:497`); a dispatched one can be
  validated and dispatched again; a cancelled job of a cancelled batch can be retried. Movements
  are looked up by types in capitals that no handler writes (`services.js:6860`).
* *Sourcing.* Evaluating and awarding ask for no status: a cancelled request can be awarded, and
  two quotes of one request can both be AWARDED.
* *Evidence.* `createStockAdjustment` with a document always throws, by the names `now` and
  `taskId` that it does not have (`services.js:1293`). Evidence cannot be linked to an invoice
  (`evidenceEntityExists`, 7801-7828), where `extractVendorInvoice` looks for it (4880).
* *Sessions.* A disabled user is answered from the cache for up to 60 seconds
  (`auth.js:249`; "Disable a user and confirm login/session denial",
  `docs/phase-0-foundation-contract.md:152`); Redis is written and never read (`auth.js:246`);
  one login request can make two sessions, if its callback comes twice.

Left as questions to the owners, since no document says what should happen: rejected
goods may be moved to a position another customer has booked; a demand whose first
allocation found nothing cannot be allocated again without a key; a request whose task
was cancelled can never get another; a purchase request that took more than half of what
was left of its budget passes its approval but can be ordered only under a waiver,
because the gate counts its own reservation against it; a budget waiver passes the gate,
but the reservation that follows refuses all the same; a new fiscal year has no budgets,
and no handler makes any; a reservation is never released, not even by the invoice that
consumes it; a review of access that is cut short while it is made can never be completed,
and to revoke in a review takes no access away.

## 6. Not modelled

* Who may act: roles, tenants and departments filter handlers; no property is about
  them but for the two persons of a disposal. Amounts of bills, texts, audit rows, screens.
* Two server processes on one database. The deployment starts one; the code locks no
  row and relies on it.
* The text of SQL and its rewriting for PostgreSQL (`db.js`); SQLite; migrations.
* The OCR and storage workers, which use the same bridge for single calls; what OCR
  extracts and its review, which writes the run reviewed and nothing else.
* Replenishment recommendations, ABC classes and snapshots: computed from a read and stored; what
  becomes of a recommendation is `CreateRequest`. (Their EXPEDITE_PO branch can never be
  taken: it is tested after a condition that includes it.)
* Connections, mappings, labels, scans, compliance controls, risks and incidents: rows of one
  table with a status that no other handler reads.
* Reporting: a run is made, filled and completed in one transaction, so that no handler ever
  meets one that can still be cancelled. The platform console (`platform.js`): each handler
  sets the columns of one row of a tenant and no other reads them to decide. `seed.js`,
  demonstration rows; `server.js`, routes; `app.js` and the other front ends, screens. They are
  more than half of the program's lines, and a model of them would have no state of its own.
* `opstrax-enterprise-build/` and `vantelyx-clm-suite-complete/`.

## 7. Plan

Done: `WmsFloor`, `RequestFulfilment`, `WorkerBridge`, `PurchaseToPay`, then the desks and
`BackOffice`, in that order.

1. **Receiving and purchasing together.** `order` of `Receiving` is `po` of `PurchaseToPay`. Their
   handlers do not meet in the status of an order (only a DRAFT or APPROVED one can be
   cancelled, only an issued one received), but a match reads what was received.
2. **Invoices in full.** Several invoices for one order, the amounts consumed over edits
   and re-approvals, and the review of extracted fields.
3. **Abstract specifications.** The life of a request as its department sees it, and of a
   position as a customer sees it, implemented by `RequestFulfilment` and `WmsFloor`.
4. **Proofs.** The steps of the abstract specifications above, once stated, and the theorems of any
   component that is extended.
