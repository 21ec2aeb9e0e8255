----------------------------- MODULE PurchaseToPay -----------------------------
(***************************************************************************)
(* From a purchase request to an exported supplier invoice, and the budget *)
(* it is charged to, in opstrax-supplyops-v1 (src/services.js). A request  *)
(* reserves its amount when it is approved, an order is made from it, and  *)
(* an invoice consumes its amount when it is approved.                     *)
(*                                                                         *)
(* Every handler is one transaction, so one action; what it refuses        *)
(* changes nothing. Users are left out: an administrator may do whatever   *)
(* some role may do. The state of suppliers, contracts and items can only  *)
(* make the approval gate refuse more, so it is left out too. Amounts are  *)
(* whole: the code rounds each to the cent.                                *)
(***************************************************************************)
EXTENDS Integers, FiniteSets, Functions

CONSTANTS
  Requests,    \* bound: purchase requests ever made
  Orders,      \* bound: purchase orders ever made
  Invoices,    \* bound: supplier invoices ever made
  LineIds,     \* bound: lines of a request
  Centres,     \* cost centres
  Budgets,     \* rows of department_budgets: no handler makes one
  MaxYear,     \* bound: fiscal years
  BudgetOf,    \* the row found for a cost centre in a year, or NoBudget
  NoBudget,
  Allotted,    \* budget_amount at start
  Ceilings,    \* values a controller may set it to
  Prices,      \* what a line of a request may come to
  MaxTotal,    \* bound: what a new request may come to
  Sums,        \* what an invoice may come to; a discount may exceed its lines
  NoOrder

Years == 1..MaxYear
NoLine == -1

ASSUME BoundAssumption == MaxYear \in Nat \ {0} /\ MaxTotal \in Nat
ASSUME AmountAssumption ==
  /\ Prices \subseteq Nat /\ Ceilings \subseteq Nat /\ Sums \subseteq Int
  /\ Allotted \in [Budgets -> Nat]
ASSUME BudgetAssumption ==
  /\ NoBudget \notin Budgets
  /\ BudgetOf \in [Years -> [Centres -> Budgets \cup {NoBudget}]]
ASSUME OrderAssumption == NoOrder \notin Orders

VARIABLES
  year,    \* the clock's fiscal year
  budget,  \* rows of department_budgets
  ledger,  \* rows of budget_ledger_entries, all of them ACTIVE
  waived,  \* requests and orders with a BUDGET_EXCEPTION waiver in force
  pr,      \* rows of purchase_requests, with their lines
  po,      \* rows of purchase_orders, with their lines
  inv      \* rows of vendor_invoices, with their open match exceptions

moneyVars == <<budget, ledger>>
vars == <<year, moneyVars, waived, pr, po, inv>>

EntryTypes == {"RESERVATION", "CONSUMPTION"}
RequestStatus == {"DRAFT", "PENDING_APPROVAL", "APPROVED", "REJECTED", "CANCELLED"}
\* ISSUED stands for what receiving makes of it as well.
OrderStatus == {"DRAFT", "APPROVED", "ISSUED", "CANCELLED"}
\* MATCHING_PENDING and APPROVAL_PENDING do not outlive a transaction.
InvoiceStatus == {"DRAFT", "UPLOADED", "EXTRACTION_PENDING", "EXTRACTED", "MATCHED",
                  "EXCEPTION", "APPROVED", "EXPORT_READY", "EXPORTED", "REJECTED", "CANCELLED"}
Codes == {"MISSING_PURCHASE_ORDER", "VARIANCE", "MISSING_RECEIPT"}

BudgetRow == [amount : Nat, posted : [EntryTypes -> Int]]
Entry == [type : EntryTypes, budget : Budgets, of : Requests \cup Invoices, amount : Int]
LineSet == [LineIds -> Nat \cup {NoLine}]
RequestRow == [status : RequestStatus, centre : Centres, total : Nat, lines : LineSet]
\* year is that of created_at, then of issued_at.
OrderRow == [status : OrderStatus, pr : Requests, centre : Centres, total : Nat,
             lines : LineSet, year : Years]
InvoiceRow == [status : InvoiceStatus, centre : Centres, total : Int,
               order : Orders \cup {NoOrder}, open : SUBSET Codes]
NoRow == [status |-> "NONE"]

-----------------------------------------------------------------------------
(* Queries of the code.                                                    *)

SumOf(lines) == SumFunctionOnSet(lines, {i \in LineIds : lines[i] # NoLine})
HasLines(lines) == \E i \in LineIds : lines[i] # NoLine

EntriesOf(type, b) == {e \in ledger : e.type = type /\ e.budget = b}
AmountIn(entries) == SumFunction([e \in entries |-> e.amount])
Posted(type, b) == AmountIn(EntriesOf(type, b))
Booked(type, b, x) == \E e \in EntriesOf(type, b) : e.of = x

\* budgetSnapshotFromRecord: from the ledger, not from the counters of the row.
Available(b) == budget[b].amount - Posted("RESERVATION", b) - Posted("CONSUMPTION", b)

\* procurementApprovalGate: a year without a budget for the centre stops nothing.
Gate(c, x, total) ==
  LET b == BudgetOf[year][c]
  IN b \in Budgets /\ x \notin waived => Available(b) >= total

MadeOrders == {o \in Orders : po[o] # NoRow}
Live(o) == po[o].status \notin {"NONE", "CANCELLED"}
\* Fault for LiveOrders: an order counts once it is approved.
OrdersUnderway(p) == {o \in Orders : po[o].status \in {"APPROVED", "ISSUED"} /\ po[o].pr = p}
LiveOrders(p) == {o \in Orders : Live(o) /\ po[o].pr = p}

\* invoiceEditableStatuses
Editable == {"DRAFT", "UPLOADED", "EXTRACTION_PENDING", "EXTRACTED", "MATCHED", "EXCEPTION",
             "EXPORT_READY"}
\* The statuses that updateVendorInvoice leaves as they are, with what goes with them.
Final == {"APPROVED", "EXPORT_READY", "EXPORTED", "REJECTED", "CANCELLED"}

\* evaluateInvoiceMatch compares lines and receipts, which the model does not hold: with
\* an order, it may find anything.
Findings(i) ==
  IF inv[i].order = NoOrder THEN {{"MISSING_PURCHASE_ORDER"}}
  ELSE SUBSET {"VARIANCE", "MISSING_RECEIPT"}

-----------------------------------------------------------------------------
(* The two writers of the ledger. An entity has one entry of a type in a   *)
(* budget: asking again does nothing.                                      *)

Entered(type, b, x, amount) ==
  /\ ledger' = ledger \cup {[type |-> type, budget |-> b, of |-> x, amount |-> amount]}
  /\ budget' = [budget EXCEPT ![b].posted[type] = @ + amount]

\* Fault for Reserve: the counter of the row is raised on every call.
ReserveAgain(c, p, total) ==
  LET b == BudgetOf[year][c]
  IN /\ b # NoBudget
     /\ Booked("RESERVATION", b, p) \/ Available(b) >= total
     /\ Entered("RESERVATION", b, p, total)

\* Fault for Reserve: a waiver of the gate stands for the funds too.
ReserveWaived(c, p, total) ==
  LET b == BudgetOf[year][c]
  IN /\ b # NoBudget
     /\ \/ Booked("RESERVATION", b, p) /\ UNCHANGED moneyVars
        \/ /\ ~Booked("RESERVATION", b, p)
           /\ p \in waived \/ Available(b) >= total
           /\ Entered("RESERVATION", b, p, total)

\* reserveBudgetForEntity
Reserve(c, p, total) ==
  LET b == BudgetOf[year][c]
  IN /\ b # NoBudget
     /\ \/ Booked("RESERVATION", b, p) /\ UNCHANGED moneyVars
        \/ /\ ~Booked("RESERVATION", b, p)
           /\ Available(b) >= total
           /\ Entered("RESERVATION", b, p, total)

\* consumeBudgetForEntity: what is reserved may be consumed, by whomever.
Consume(c, i, total) ==
  LET b == BudgetOf[year][c]
  IN /\ b # NoBudget
     /\ \/ Booked("CONSUMPTION", b, i) /\ UNCHANGED moneyVars
        \/ /\ ~Booked("CONSUMPTION", b, i)
           /\ \/ Available(b) + Posted("RESERVATION", b) >= total
              \/ Available(b) >= total
           /\ Entered("CONSUMPTION", b, i, total)

-----------------------------------------------------------------------------
Init ==
  /\ year = 1
  /\ budget = [b \in Budgets |->
                 [amount |-> Allotted[b], posted |-> [t \in EntryTypes |-> 0]]]
  /\ ledger = {}
  /\ waived = {}
  /\ pr = [p \in Requests |-> NoRow]
  /\ po = [o \in Orders |-> NoRow]
  /\ inv = [i \in Invoices |-> NoRow]

(* Budgets and waivers.                                                    *)

NewYear == year < MaxYear /\ year' = year + 1 /\ UNCHANGED <<moneyVars, waived, pr, po, inv>>

UpdateBudget(b, amount) ==
  /\ budget' = [budget EXCEPT ![b].amount = amount]
  /\ UNCHANGED <<year, ledger, waived, pr, po, inv>>

\* createProcurementWaiver, for a request or an order that exists.
Waive(x) ==
  /\ x \in {p \in Requests : pr[p] # NoRow} \cup MadeOrders
  /\ waived' = waived \cup {x}
  /\ UNCHANGED <<year, moneyVars, pr, po, inv>>

\* expires_at of the last waiver passes.
WaiverExpires(x) ==
  waived' = waived \ {x} /\ x \in waived /\ UNCHANGED <<year, moneyVars, pr, po, inv>>

-----------------------------------------------------------------------------
(* Purchase requests. The total is computed when the request is made; the  *)
(* handlers of its lines leave it as it is.                                *)

CreatePurchaseRequest(p, c, lines) ==
  /\ pr[p] = NoRow
  /\ HasLines(lines)
  /\ \E total \in 0..MaxTotal :
       /\ total = SumOf(lines)
       /\ pr' = [pr EXCEPT ![p] =
                   [status |-> "DRAFT", centre |-> c, total |-> total, lines |-> lines]]
  /\ UNCHANGED <<year, moneyVars, waived, po, inv>>

UpdatePurchaseRequest(p, c) ==
  /\ pr[p].status = "DRAFT"
  /\ pr' = [pr EXCEPT ![p].centre = c]
  /\ UNCHANGED <<year, moneyVars, waived, po, inv>>

CreateRequestLine(p, i, price) ==
  /\ pr[p].status = "DRAFT"
  /\ pr[p].lines[i] = NoLine
  /\ pr' = [pr EXCEPT ![p].lines[i] = price]
  /\ UNCHANGED <<year, moneyVars, waived, po, inv>>

UpdateRequestLine(p, i, price) ==
  /\ pr[p].status = "DRAFT"
  /\ pr[p].lines[i] # NoLine
  /\ pr' = [pr EXCEPT ![p].lines[i] = price]
  /\ UNCHANGED <<year, moneyVars, waived, po, inv>>

DeleteRequestLine(p, i) ==
  /\ pr[p].status = "DRAFT"
  /\ pr[p].lines[i] # NoLine
  /\ pr' = [pr EXCEPT ![p].lines[i] = NoLine]
  /\ UNCHANGED <<year, moneyVars, waived, po, inv>>

SubmitPurchaseRequest(p) ==
  /\ pr[p].status = "DRAFT"
  /\ HasLines(pr[p].lines)
  /\ Gate(pr[p].centre, p, pr[p].total)
  /\ pr' = [pr EXCEPT ![p].status = "PENDING_APPROVAL"]
  /\ UNCHANGED <<year, moneyVars, waived, po, inv>>

ApprovePurchaseRequest(p) ==
  /\ pr[p].status = "PENDING_APPROVAL"
  /\ Gate(pr[p].centre, p, pr[p].total)
  /\ Reserve(pr[p].centre, p, pr[p].total)
  /\ pr' = [pr EXCEPT ![p].status = "APPROVED"]
  /\ UNCHANGED <<year, waived, po, inv>>

RejectPurchaseRequest(p) ==
  /\ pr[p].status = "PENDING_APPROVAL"
  /\ pr' = [pr EXCEPT ![p].status = "REJECTED"]
  /\ UNCHANGED <<year, moneyVars, waived, po, inv>>

\* Fault for Withdrawable: an approved request may be cancelled.
WithdrawableLate == {"DRAFT", "PENDING_APPROVAL", "APPROVED"}
Withdrawable == {"DRAFT", "PENDING_APPROVAL"}

CancelPurchaseRequest(p) ==
  /\ pr[p].status \in Withdrawable
  /\ pr' = [pr EXCEPT ![p].status = "CANCELLED"]
  /\ UNCHANGED <<year, moneyVars, waived, po, inv>>

-----------------------------------------------------------------------------
(* Purchase orders. Each step passes the gate again, with what is available *)
(* after the request's own reservation.                                    *)

\* A request that has an order already gets that order for an answer.
CreatePurchaseOrder(p, o) ==
  /\ pr[p].status = "APPROVED"
  /\ po[o] = NoRow
  /\ LiveOrders(p) = {}
  /\ HasLines(pr[p].lines)
  /\ Gate(pr[p].centre, p, pr[p].total)
  /\ Reserve(pr[p].centre, p, pr[p].total)
  /\ po' = [po EXCEPT ![o] =
              [status |-> "DRAFT", pr |-> p, centre |-> pr[p].centre,
               total |-> pr[p].total, lines |-> pr[p].lines, year |-> year]]
  /\ UNCHANGED <<year, waived, pr, inv>>

ApprovePurchaseOrder(o) ==
  /\ po[o].status = "DRAFT"
  /\ Gate(po[o].centre, o, po[o].total)
  /\ po' = [po EXCEPT ![o].status = "APPROVED"]
  /\ UNCHANGED <<year, moneyVars, waived, pr, inv>>

\* Fault for IssuePurchaseOrder: what was reserved at approval is relied upon.
IssueUnreserved(o) ==
  /\ po[o].status = "APPROVED"
  /\ Gate(po[o].centre, o, po[o].total)
  /\ po' = [po EXCEPT ![o].status = "ISSUED", ![o].year = year]
  /\ UNCHANGED <<year, moneyVars, waived, pr, inv>>

IssuePurchaseOrder(o) ==
  /\ po[o].status = "APPROVED"
  /\ Gate(po[o].centre, o, po[o].total)
  /\ Reserve(po[o].centre, po[o].pr, po[o].total)
  /\ po' = [po EXCEPT ![o].status = "ISSUED", ![o].year = year]
  /\ UNCHANGED <<year, waived, pr, inv>>

\* The reservation of the request stays.
CancelPurchaseOrder(o) ==
  /\ po[o].status \in {"DRAFT", "APPROVED"}
  /\ po' = [po EXCEPT ![o].status = "CANCELLED"]
  /\ UNCHANGED <<year, moneyVars, waived, pr, inv>>

-----------------------------------------------------------------------------
(* Supplier invoices.                                                      *)

CreateVendorInvoice(i, c, total, o) ==
  /\ inv[i] = NoRow
  /\ o \in MadeOrders \cup {NoOrder}
  /\ inv' = [inv EXCEPT ![i] =
               [status |-> "DRAFT", centre |-> c, total |-> total, order |-> o,
                open |-> {}]]
  /\ UNCHANGED <<year, moneyVars, waived, pr, po>>

UploadVendorInvoice(i) ==
  /\ inv[i].status \in Editable \cup {"REJECTED"}
  /\ inv' = [inv EXCEPT ![i].status = "UPLOADED"]
  /\ UNCHANGED <<year, moneyVars, waived, pr, po>>

UpdateVendorInvoice(i, c) ==
  /\ inv[i].status \in Editable
  /\ inv' = [inv EXCEPT ![i].centre = c,
                        ![i].open = IF inv[i].status \in Final THEN @ ELSE {}]
  /\ UNCHANGED <<year, moneyVars, waived, pr, po>>

\* After its lines are edited an invoice that was under way starts again.
Restarted(status) == IF status = "DRAFT" THEN "DRAFT" ELSE "UPLOADED"

CreateInvoiceLine(i, total) ==
  /\ inv[i].status \in Editable
  /\ inv' = [inv EXCEPT ![i].total = total, ![i].status = Restarted(@)]
  /\ UNCHANGED <<year, moneyVars, waived, pr, po>>

\* updateVendorInvoiceLine and deleteVendorInvoiceLine.
EditInvoiceLine(i, total) ==
  /\ inv[i].status \in Editable
  /\ inv' = [inv EXCEPT ![i].total = total, ![i].status = Restarted(@),
                        ![i].open = {}]
  /\ UNCHANGED <<year, moneyVars, waived, pr, po>>

ExtractVendorInvoice(i, completed) ==
  /\ inv[i].status \in {"DRAFT", "UPLOADED", "EXTRACTION_PENDING", "EXTRACTED", "EXCEPTION"}
  /\ inv' = [inv EXCEPT ![i].status = IF completed THEN "EXTRACTED" ELSE "EXTRACTION_PENDING"]
  /\ UNCHANGED <<year, moneyVars, waived, pr, po>>

\* Fault for MatchVendorInvoice: findings do not hold up an invoice approved before.
MatchQuietly(i, found) ==
  /\ inv[i] # NoRow
  /\ found \in Findings(i)
  /\ inv' = [inv EXCEPT ![i].open = found,
                        ![i].status = IF @ \in {"APPROVED", "EXPORT_READY", "EXPORTED"} THEN @
                                      ELSE IF found = {} THEN "MATCHED"
                                      ELSE "EXCEPTION"]
  /\ UNCHANGED <<year, moneyVars, waived, pr, po>>

\* Fault for MatchVendorInvoice: without an order the handler returns half-way.
MatchHalfway(i, found) ==
  /\ inv[i] # NoRow
  /\ found \in Findings(i)
  /\ inv' = [inv EXCEPT ![i].open = found,
                        ![i].status = IF inv[i].order = NoOrder THEN "MATCHING_PENDING"
                                      ELSE IF found = {} THEN "MATCHED"
                                      ELSE "EXCEPTION"]
  /\ UNCHANGED <<year, moneyVars, waived, pr, po>>

\* The code asks for no status: any invoice may be matched again.
MatchVendorInvoice(i, found) ==
  /\ inv[i] # NoRow
  /\ found \in Findings(i)
  /\ inv' = [inv EXCEPT ![i].open = found,
                        ![i].status = IF found = {} THEN "MATCHED"
                                      ELSE "EXCEPTION"]
  /\ UNCHANGED <<year, moneyVars, waived, pr, po>>

WaiveInvoiceException(i, code) ==
  /\ inv[i] # NoRow
  /\ code \in inv[i].open
  /\ inv' = [inv EXCEPT ![i].open = @ \ {code}]
  /\ UNCHANGED <<year, moneyVars, waived, pr, po>>

ApproveVendorInvoice(i) ==
  /\ inv[i].status \in {"MATCHED", "EXCEPTION"}
  /\ inv[i].open = {}
  /\ Consume(inv[i].centre, i, inv[i].total)
  /\ inv' = [inv EXCEPT ![i].status = "APPROVED"]
  /\ UNCHANGED <<year, waived, pr, po>>

\* Here too no status is asked for.
RejectVendorInvoice(i) ==
  /\ inv[i] # NoRow
  /\ inv' = [inv EXCEPT ![i].status = "REJECTED"]
  /\ UNCHANGED <<year, moneyVars, waived, pr, po>>

CancelVendorInvoice(i) ==
  /\ inv[i] # NoRow
  /\ inv[i].status # "EXPORTED"
  /\ inv' = [inv EXCEPT ![i].status = "CANCELLED"]
  /\ UNCHANGED <<year, moneyVars, waived, pr, po>>

MarkExportReady(i) ==
  /\ inv[i].status = "APPROVED"
  /\ Consume(inv[i].centre, i, inv[i].total)
  /\ inv' = [inv EXCEPT ![i].status = "EXPORT_READY"]
  /\ UNCHANGED <<year, waived, pr, po>>

ExportVendorInvoice(i) ==
  /\ inv[i].status = "EXPORT_READY"
  /\ inv' = [inv EXCEPT ![i].status = "EXPORTED"]
  /\ UNCHANGED <<year, moneyVars, waived, pr, po>>

-----------------------------------------------------------------------------
BudgetStep ==
  \/ NewYear
  \/ \E b \in Budgets, amount \in Ceilings : UpdateBudget(b, amount)
  \/ \E x \in Requests \cup Orders : Waive(x) \/ WaiverExpires(x)

RequestStep(p) ==
  \/ \E c \in Centres : \E lines \in [LineIds -> Prices \cup {NoLine}] :
       CreatePurchaseRequest(p, c, lines)
  \/ \E c \in Centres : UpdatePurchaseRequest(p, c)
  \/ \E i \in LineIds, price \in Prices : CreateRequestLine(p, i, price)
  \/ \E i \in LineIds, price \in Prices : UpdateRequestLine(p, i, price)
  \/ \E i \in LineIds : DeleteRequestLine(p, i)
  \/ SubmitPurchaseRequest(p)
  \/ ApprovePurchaseRequest(p)
  \/ RejectPurchaseRequest(p)
  \/ CancelPurchaseRequest(p)

OrderStep(o) ==
  \/ \E p \in Requests : CreatePurchaseOrder(p, o)
  \/ ApprovePurchaseOrder(o)
  \/ IssuePurchaseOrder(o)
  \/ CancelPurchaseOrder(o)

InvoiceStep(i) ==
  \/ \E c \in Centres, total \in Sums, o \in Orders \cup {NoOrder} :
       CreateVendorInvoice(i, c, total, o)
  \/ UploadVendorInvoice(i)
  \/ \E c \in Centres : UpdateVendorInvoice(i, c)
  \/ \E total \in Sums : CreateInvoiceLine(i, total) \/ EditInvoiceLine(i, total)
  \/ \E completed \in BOOLEAN : ExtractVendorInvoice(i, completed)
  \/ \E found \in SUBSET Codes : MatchVendorInvoice(i, found)
  \/ \E code \in Codes : WaiveInvoiceException(i, code)
  \/ ApproveVendorInvoice(i)
  \/ RejectVendorInvoice(i)
  \/ CancelVendorInvoice(i)
  \/ MarkExportReady(i)
  \/ ExportVendorInvoice(i)

Next ==
  \/ BudgetStep
  \/ \E p \in Requests : RequestStep(p)
  \/ \E o \in Orders : OrderStep(o)
  \/ \E i \in Invoices : InvoiceStep(i)

Spec == Init /\ [][Next]_vars

-----------------------------------------------------------------------------
(* Every row holds only what the code writes to it. In particular no        *)
(* transaction leaves an invoice between two statuses.                      *)
TypeOK ==
  /\ year \in Years
  /\ budget \in [Budgets -> BudgetRow]
  /\ ledger \subseteq Entry
  /\ waived \subseteq Requests \cup Orders
  /\ pr \in [Requests -> RequestRow \cup {NoRow}]
  /\ po \in [Orders -> OrderRow \cup {NoRow}]
  /\ inv \in [Invoices -> InvoiceRow \cup {NoRow}]

(* The counters of a budget, which the dashboard reads, are what the ledger, *)
(* which the gate reads, adds up to: over repeated calls for one entity, new *)
(* years and changed budgets.                                              *)
CountersAgree ==
  \A b \in Budgets, t \in EntryTypes : budget[b].posted[t] = Posted(t, b)

(* An order is what was approved: its request was approved and never changes *)
(* again, and the order has its lines, amount and cost centre.             *)
OrderAsApproved ==
  \A o \in Orders : po[o] # NoRow =>
    LET p == pr[po[o].pr]
    IN /\ p.status = "APPROVED"
       /\ po[o].lines = p.lines /\ po[o].total = p.total /\ po[o].centre = p.centre

(* A request is ordered once: createPurchaseOrderFromPurchaseRequest makes  *)
(* another order only when the one before was cancelled, and a cancelled    *)
(* order does not come back.                                               *)
OneLiveOrder == \A p \in Requests : \A o, q \in LiveOrders(p) : o = q

(* An order has the reservation of its request, for its amount, in the      *)
(* budget of its centre for the year in which it was made, or issued if it  *)
(* was: a waiver lets it pass the gate but not do without.                 *)
OrderFunded ==
  \A o \in Orders : po[o] # NoRow =>
    [type |-> "RESERVATION", budget |-> BudgetOf[po[o].year][po[o].centre],
     of |-> po[o].pr, amount |-> po[o].total] \in ledger

(* An invoice that is approved or on its way out has no open exception, and *)
(* something was consumed for it, whatever it went through between: edits,  *)
(* new matches, rejection, cancellation.                                   *)
PaidIsConsumed ==
  \A i \in Invoices : inv[i].status \in {"APPROVED", "EXPORT_READY", "EXPORTED"} =>
    /\ inv[i].open = {}
    /\ \E e \in ledger : e.type = "CONSUMPTION" /\ e.of = i

(* Nothing is reserved that the budget does not have beyond what is reserved *)
(* and consumed, and nothing consumed beyond it, waivers or not, when a     *)
(* budget was lowered or the year is new.                                  *)
NeverOverCommitted ==
  [][\A b \in Budgets :
       /\ Posted("RESERVATION", b)' > Posted("RESERVATION", b) =>
            Posted("RESERVATION", b)' + Posted("CONSUMPTION", b)' <= budget[b].amount
       /\ Posted("CONSUMPTION", b)' > Posted("CONSUMPTION", b) =>
            Posted("CONSUMPTION", b)' <= budget[b].amount]_vars

(* What the lines of a live order come to was reserved.                    *)
(* app.js: "Department and cost-center budgets are enforced during approval, *)
(* PO issue, and invoice consumption decisions."                           *)
OrderWithinReservation ==
  \A o \in Orders : Live(o) =>
    \E e \in ledger : /\ e.type = "RESERVATION" /\ e.of = po[o].pr
                      /\ SumOf(po[o].lines) <= e.amount
=============================================================================
