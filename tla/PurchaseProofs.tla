---------------------------- MODULE PurchaseProofs ----------------------------
(***************************************************************************)
(* What PurchaseToPay guarantees for any numbers of requests, orders,      *)
(* invoices, lines, centres, budgets and years, and any amounts. The first *)
(* part needs only which entries the ledger has, and sums stay closed in   *)
(* it; the second is about what they add up to.                            *)
(***************************************************************************)
EXTENDS PurchaseToPay, SumTheorems, TLAPS

(* What is reserved for a request was reserved at its approval or later, at *)
(* its amount: this is what makes asking again the same as having asked.    *)
ReservedAsApproved ==
  \A e \in ledger : e.type = "RESERVATION" =>
    /\ e.of \in Requests
    /\ pr[e.of].status = "APPROVED"
    /\ e.amount = pr[e.of].total

PurchaseInv == /\ TypeOK
               /\ ReservedAsApproved
               /\ OrderAsApproved
               /\ OneLiveOrder
               /\ OrderFunded
               /\ PaidIsConsumed

Paid == {"APPROVED", "EXPORT_READY", "EXPORTED"}

Reservation(b, p, total) ==
  [type |-> "RESERVATION", budget |-> b, of |-> p, amount |-> total]

(* The shapes that most actions have: a request that is not approved is     *)
(* changed; an order that is there moves on; an invoice becomes paid only if *)
(* it was and has no open exception.                                       *)
RequestChanges(p, r) ==
  /\ pr[p].status # "APPROVED"
  /\ r \in RequestRow
  /\ pr' = [pr EXCEPT ![p] = r]
  /\ UNCHANGED <<year, moneyVars, waived, po, inv>>

OrderMoves(o, r) ==
  /\ po[o] # NoRow
  /\ r \in OrderRow
  /\ r.pr = po[o].pr /\ r.lines = po[o].lines
  /\ r.total = po[o].total /\ r.centre = po[o].centre
  /\ po[o].status = "CANCELLED" => r.status = "CANCELLED"
  /\ po' = [po EXCEPT ![o] = r]
  /\ UNCHANGED <<year, waived, pr, inv>>

InvoiceChanges(i, r) ==
  /\ r \in InvoiceRow
  /\ r.status \in Paid => r.open = {} /\ inv[i].status \in Paid
  /\ inv' = [inv EXCEPT ![i] = r]
  /\ UNCHANGED <<year, moneyVars, waived, pr, po>>

-----------------------------------------------------------------------------
(* Rows that are not empty.                                                *)

LEMMA RowsPresent ==
  ASSUME TypeOK
  PROVE  /\ \A p \in Requests : pr[p].status # "NONE" => pr[p] \in RequestRow
         /\ \A o \in Orders : /\ po[o] # NoRow => po[o] \in OrderRow
                              /\ po[o].status # "NONE" => po[o] # NoRow
         /\ \A i \in Invoices : /\ inv[i] # NoRow => inv[i] \in InvoiceRow
                                /\ inv[i].status # "NONE" => inv[i] # NoRow
<1>1. NoRow.status = "NONE"
  BY DEF NoRow
<1>2. QED
  BY <1>1 DEF TypeOK

(* reserveBudgetForEntity leaves the reservation in the ledger, and nothing *)
(* else new, if what was reserved before for the request was the same amount.*)
LEMMA ReserveEnters ==
  ASSUME TypeOK, NEW c \in Centres, NEW p \in Requests, NEW total \in Nat,
         \A e \in ledger : e.type = "RESERVATION" /\ e.of = p => e.amount = total,
         Reserve(c, p, total)
  PROVE  LET b == BudgetOf[year][c]
         IN /\ ledger' = ledger \cup {Reservation(b, p, total)}
            /\ Reservation(b, p, total) \in Entry
            /\ budget' \in [Budgets -> BudgetRow]
<1> DEFINE b == BudgetOf[year][c]
<1>1. b \in Budgets
  BY BudgetAssumption DEF TypeOK, Reserve
<1>2. Reservation(b, p, total) \in Entry
  BY <1>1 DEF Reservation, Entry, EntryTypes
<1>3. CASE Booked("RESERVATION", b, p) /\ UNCHANGED moneyVars
  <2>1. PICK e \in ledger : e.type = "RESERVATION" /\ e.budget = b /\ e.of = p
    BY <1>3 DEF Booked, EntriesOf
  <2>2. e.amount = total /\ e \in Entry
    BY <2>1 DEF TypeOK
  <2>3. e = Reservation(b, p, total)
    BY <2>1, <2>2 DEF Entry, Reservation
  <2>4. QED
    BY <1>2, <1>3, <2>3 DEF moneyVars, TypeOK
<1>4. CASE Entered("RESERVATION", b, p, total)
  <2>1. budget[b].posted["RESERVATION"] + total \in Int
    BY <1>1 DEF TypeOK, BudgetRow, EntryTypes
  <2>2. budget' = [budget EXCEPT ![b].posted["RESERVATION"] = @ + total]
    BY <1>4 DEF Entered
  <2>3. budget' \in [Budgets -> BudgetRow]
    BY <1>1, <2>1, <2>2 DEF TypeOK, BudgetRow, EntryTypes
  <2>4. QED
    BY <1>2, <1>4, <2>3 DEF Entered, Reservation
<1>5. QED
  BY <1>3, <1>4 DEF Reserve

(* consumeBudgetForEntity leaves something consumed for the invoice, and    *)
(* nothing reserved that was not.                                          *)
LEMMA ConsumeEnters ==
  ASSUME TypeOK, NEW c \in Centres, NEW i \in Invoices, NEW total \in Int,
         Consume(c, i, total)
  PROVE  /\ ledger \subseteq ledger'
         /\ ledger' \subseteq Entry
         /\ \A e \in ledger' \ ledger : e.type = "CONSUMPTION"
         /\ \E e \in ledger' : e.type = "CONSUMPTION" /\ e.of = i
         /\ budget' \in [Budgets -> BudgetRow]
<1> DEFINE b == BudgetOf[year][c]
           new == [type |-> "CONSUMPTION", budget |-> b, of |-> i, amount |-> total]
<1>1. b \in Budgets
  BY BudgetAssumption DEF TypeOK, Consume
<1>2. CASE Booked("CONSUMPTION", b, i) /\ UNCHANGED moneyVars
  BY <1>2 DEF Booked, EntriesOf, moneyVars, TypeOK
<1>3. CASE Entered("CONSUMPTION", b, i, total)
  <2>1. new \in Entry
    BY <1>1 DEF Entry, EntryTypes
  <2>2. ledger' = ledger \cup {new}
    BY <1>3 DEF Entered
  <2>3. budget[b].posted["CONSUMPTION"] + total \in Int
    BY <1>1 DEF TypeOK, BudgetRow, EntryTypes
  <2>4. budget' = [budget EXCEPT ![b].posted["CONSUMPTION"] = @ + total]
    BY <1>3 DEF Entered
  <2>5. budget' \in [Budgets -> BudgetRow]
    BY <1>1, <2>3, <2>4 DEF TypeOK, BudgetRow, EntryTypes
  <2>6. QED
    BY <2>1, <2>2, <2>5 DEF TypeOK
<1>4. QED
  BY <1>2, <1>3 DEF Consume

-----------------------------------------------------------------------------
(* Each shape of step keeps the invariant.                                 *)

LEMMA RequestChangeKept ==
  ASSUME PurchaseInv, NEW p \in Requests, NEW r, RequestChanges(p, r)
  PROVE  PurchaseInv'
<1> USE DEF PurchaseInv, RequestChanges, moneyVars
<1>1. TypeOK'
  BY DEF TypeOK
<1>2. \A q \in Requests : pr[q].status = "APPROVED" => pr'[q] = pr[q]
  BY DEF TypeOK
<1>3. ReservedAsApproved'
  BY <1>2 DEF ReservedAsApproved
<1>4. OrderAsApproved'
  <2>1. \A o \in Orders : po[o] # NoRow => po[o].pr \in Requests
    BY RowsPresent DEF OrderRow
  <2>2. QED
    BY <1>2, <2>1 DEF OrderAsApproved
<1>5. OneLiveOrder' /\ OrderFunded' /\ PaidIsConsumed'
  BY DEF OneLiveOrder, LiveOrders, Live, OrderFunded, PaidIsConsumed
<1>6. QED
  BY <1>1, <1>3, <1>4, <1>5

LEMMA OrderMoveKept ==
  ASSUME PurchaseInv, NEW o \in Orders, NEW r, OrderMoves(o, r),
         ledger \subseteq ledger', ledger' \subseteq Entry, budget' \in [Budgets -> BudgetRow],
         ReservedAsApproved',
         Reservation(BudgetOf[r.year][r.centre], r.pr, r.total) \in ledger'
  PROVE  PurchaseInv'
<1> USE DEF PurchaseInv, OrderMoves
<1>1. TypeOK'
  BY DEF TypeOK
<1>2. OrderAsApproved'
  BY DEF OrderAsApproved, TypeOK
<1>3. OneLiveOrder'
  <2>1. \A q \in Orders : Live(q)' => Live(q) /\ po'[q].pr = po[q].pr
    <3>1. po[o].status # "NONE"
      BY RowsPresent DEF OrderRow, OrderStatus
    <3>2. QED
      BY <3>1 DEF Live, TypeOK
  <2>2. QED
    BY <2>1 DEF OneLiveOrder, LiveOrders
<1>4. OrderFunded'
  <2>1. \A q \in Orders : q # o => po'[q] = po[q]
    BY DEF TypeOK
  <2>2. po'[o] = r
    BY DEF TypeOK
  <2>3. QED
    BY <2>1, <2>2 DEF OrderFunded, Reservation
<1>5. PaidIsConsumed'
  BY DEF PaidIsConsumed
<1>6. QED
  BY <1>1, <1>2, <1>3, <1>4, <1>5

LEMMA InvoiceChangeKept ==
  ASSUME PurchaseInv, NEW i \in Invoices, NEW r, InvoiceChanges(i, r)
  PROVE  PurchaseInv'
<1> USE DEF PurchaseInv, InvoiceChanges, moneyVars
<1>1. TypeOK'
  BY DEF TypeOK
<1>2. PaidIsConsumed'
  BY DEF PaidIsConsumed, Paid, TypeOK
<1>3. ReservedAsApproved' /\ OrderAsApproved' /\ OneLiveOrder' /\ OrderFunded'
  BY DEF ReservedAsApproved, OrderAsApproved, OneLiveOrder, LiveOrders, Live, OrderFunded
<1>4. QED
  BY <1>1, <1>2, <1>3

(* An invoice for which something was consumed becomes paid.               *)
LEMMA InvoicePaidKept ==
  ASSUME PurchaseInv, NEW i \in Invoices, NEW r \in InvoiceRow,
         r.open = {}, inv[i] # NoRow, Consume(inv[i].centre, i, inv[i].total),
         inv' = [inv EXCEPT ![i] = r], UNCHANGED <<year, waived, pr, po>>
  PROVE  PurchaseInv'
<1> USE DEF PurchaseInv
<1>1. /\ ledger \subseteq ledger' /\ ledger' \subseteq Entry
      /\ \A e \in ledger' \ ledger : e.type = "CONSUMPTION"
      /\ \E e \in ledger' : e.type = "CONSUMPTION" /\ e.of = i
      /\ budget' \in [Budgets -> BudgetRow]
  BY RowsPresent, ConsumeEnters DEF InvoiceRow
<1>2. TypeOK'
  BY <1>1 DEF TypeOK
<1>3. ReservedAsApproved'
  BY <1>1 DEF ReservedAsApproved
<1>4. OrderAsApproved' /\ OneLiveOrder'
  BY DEF OrderAsApproved, OneLiveOrder, LiveOrders, Live
<1>5. OrderFunded'
  BY <1>1 DEF OrderFunded
<1>6. PaidIsConsumed'
  BY <1>1 DEF PaidIsConsumed, TypeOK
<1>7. QED
  BY <1>2, <1>3, <1>4, <1>5, <1>6

-----------------------------------------------------------------------------
(* The steps, group by group.                                              *)

LEMMA InitInv == Init => PurchaseInv
<1> SUFFICES ASSUME Init PROVE PurchaseInv
  OBVIOUS
<1>1. TypeOK
  BY BoundAssumption, AmountAssumption DEF Init, TypeOK, BudgetRow, EntryTypes, Years
<1>2. ReservedAsApproved /\ OrderAsApproved /\ OneLiveOrder /\ OrderFunded /\ PaidIsConsumed
  BY DEF Init, ReservedAsApproved, OrderAsApproved, OneLiveOrder, LiveOrders, Live,
         OrderFunded, PaidIsConsumed, NoRow
<1>3. QED
  BY <1>1, <1>2 DEF PurchaseInv

LEMMA BudgetStepKept ==
  ASSUME PurchaseInv, BudgetStep
  PROVE  PurchaseInv'
<1> USE DEF PurchaseInv
<1>1. /\ UNCHANGED <<ledger, pr, po, inv>>
      /\ year' \in Years /\ waived' \subseteq Requests \cup Orders
      /\ budget' \in [Budgets -> BudgetRow]
  <2>1. CASE NewYear
    BY <2>1, BoundAssumption DEF NewYear, moneyVars, TypeOK, Years
  <2>2. ASSUME NEW b \in Budgets, NEW amount \in Ceilings, UpdateBudget(b, amount)
        PROVE  <1>1!:
    <3>1. amount \in Nat
      BY AmountAssumption
    <3>2. QED
      BY <2>2, <3>1 DEF UpdateBudget, TypeOK, BudgetRow
  <2>3. ASSUME NEW x \in Requests \cup Orders, Waive(x)
        PROVE  <1>1!:
    BY <2>3 DEF Waive, moneyVars, TypeOK
  <2>4. ASSUME NEW x \in Requests \cup Orders, WaiverExpires(x)
        PROVE  <1>1!:
    BY <2>4 DEF WaiverExpires, moneyVars, TypeOK
  <2>5. QED
    BY <2>1, <2>2, <2>3, <2>4 DEF BudgetStep
<1>2. TypeOK'
  BY <1>1 DEF TypeOK
<1>3. /\ ReservedAsApproved' /\ OrderAsApproved' /\ OneLiveOrder'
      /\ OrderFunded' /\ PaidIsConsumed'
  BY <1>1 DEF ReservedAsApproved, OrderAsApproved, OneLiveOrder, LiveOrders, Live,
              OrderFunded, PaidIsConsumed
<1>4. QED
  BY <1>2, <1>3

(* An approval reserves what the request came to when it was made.         *)
LEMMA ApproveKept ==
  ASSUME PurchaseInv, NEW p \in Requests, ApprovePurchaseRequest(p)
  PROVE  PurchaseInv'
<1> USE DEF PurchaseInv
<1> DEFINE r == [pr[p] EXCEPT !.status = "APPROVED"]
           new == Reservation(BudgetOf[year][pr[p].centre], p, pr[p].total)
<1>1. pr[p] \in RequestRow /\ pr[p].status = "PENDING_APPROVAL"
  BY RowsPresent DEF ApprovePurchaseRequest
<1>2. r \in RequestRow /\ pr' = [pr EXCEPT ![p] = r]
  BY <1>1 DEF ApprovePurchaseRequest, RequestRow, RequestStatus
<1>3. \A e \in ledger : e.type = "RESERVATION" => e.of # p
  BY <1>1 DEF ReservedAsApproved
<1>4. /\ ledger' = ledger \cup {new} /\ new \in Entry
      /\ budget' \in [Budgets -> BudgetRow]
  BY <1>1, <1>3, ReserveEnters DEF ApprovePurchaseRequest, RequestRow
<1>5. TypeOK'
  BY <1>2, <1>4 DEF ApprovePurchaseRequest, TypeOK
<1>6. ReservedAsApproved'
  BY <1>1, <1>2, <1>3, <1>4 DEF ReservedAsApproved, Reservation, TypeOK, RequestRow
<1>7. OrderAsApproved' /\ OneLiveOrder'
  <2>1. \A o \in Orders : po[o] # NoRow => po[o].pr \in Requests \ {p}
    BY <1>1, RowsPresent DEF OrderRow, OrderAsApproved
  <2>2. QED
    BY <1>2, <2>1 DEF ApprovePurchaseRequest, OrderAsApproved, OneLiveOrder, LiveOrders, Live,
                      TypeOK
<1>8. OrderFunded' /\ PaidIsConsumed'
  BY <1>4 DEF ApprovePurchaseRequest, OrderFunded, PaidIsConsumed
<1>9. QED
  BY <1>5, <1>6, <1>7, <1>8

LEMMA RequestStepKept ==
  ASSUME PurchaseInv, NEW p \in Requests, RequestStep(p)
  PROVE  PurchaseInv'
<1> DEFINE Changes == \E r : RequestChanges(p, r)
<1>1. /\ pr[p].status # "NONE" => pr[p] \in RequestRow
      /\ pr \in [Requests -> RequestRow \cup {NoRow}]
  BY RowsPresent DEF PurchaseInv, TypeOK
<1>2. ASSUME NEW c \in Centres, NEW lines \in [LineIds -> Prices \cup {NoLine}],
             CreatePurchaseRequest(p, c, lines)
      PROVE  Changes
  <2>1. PICK total \in 0..MaxTotal :
          pr' = [pr EXCEPT ![p] =
                   [status |-> "DRAFT", centre |-> c, total |-> total, lines |-> lines]]
    BY <1>2 DEF CreatePurchaseRequest
  <2>2. total \in Nat
    BY BoundAssumption
  <2>3. lines \in LineSet
    BY AmountAssumption DEF LineSet
  <2>4. [status |-> "DRAFT", centre |-> c, total |-> total, lines |-> lines] \in RequestRow
    BY <2>2, <2>3 DEF RequestRow, RequestStatus
  <2>5. pr[p].status # "APPROVED"
    BY <1>2 DEF CreatePurchaseRequest, NoRow
  <2>6. QED
    BY <1>2, <2>1, <2>4, <2>5 DEF CreatePurchaseRequest, RequestChanges
<1>3. ASSUME NEW c \in Centres, UpdatePurchaseRequest(p, c)
      PROVE  Changes
  <2> DEFINE r == [pr[p] EXCEPT !.centre = c]
  <2>1. r \in RequestRow /\ pr' = [pr EXCEPT ![p] = r] /\ pr[p].status # "APPROVED"
    BY <1>1, <1>3 DEF UpdatePurchaseRequest, RequestRow
  <2>2. QED
    BY <1>3, <2>1 DEF UpdatePurchaseRequest, RequestChanges
<1>4. ASSUME NEW i \in LineIds, NEW price \in Prices \cup {NoLine},
             pr[p].status = "DRAFT", pr' = [pr EXCEPT ![p].lines[i] = price],
             UNCHANGED <<year, moneyVars, waived, po, inv>>
      PROVE  Changes
  <2> DEFINE r == [pr[p] EXCEPT !.lines[i] = price]
  <2>1. price \in Nat \cup {NoLine}
    BY AmountAssumption
  <2>2. r \in RequestRow /\ pr' = [pr EXCEPT ![p] = r]
    BY <1>1, <1>4, <2>1 DEF RequestRow, LineSet
  <2>3. QED
    BY <1>4, <2>2 DEF RequestChanges
<1>5. ASSUME NEW i \in LineIds, NEW price \in Prices,
             CreateRequestLine(p, i, price) \/ UpdateRequestLine(p, i, price)
      PROVE  Changes
  BY <1>4, <1>5 DEF CreateRequestLine, UpdateRequestLine
<1>6. ASSUME NEW i \in LineIds, DeleteRequestLine(p, i)
      PROVE  Changes
  BY <1>4, <1>6 DEF DeleteRequestLine
<1>7. ASSUME NEW s \in RequestStatus, pr[p].status \in {"DRAFT", "PENDING_APPROVAL"},
             pr' = [pr EXCEPT ![p].status = s],
             UNCHANGED <<year, moneyVars, waived, po, inv>>
      PROVE  Changes
  <2> DEFINE r == [pr[p] EXCEPT !.status = s]
  <2>1. r \in RequestRow /\ pr' = [pr EXCEPT ![p] = r]
    BY <1>1, <1>7 DEF RequestRow
  <2>2. QED
    BY <1>7, <2>1 DEF RequestChanges
<1>8. CASE SubmitPurchaseRequest(p) \/ RejectPurchaseRequest(p) \/ CancelPurchaseRequest(p)
  BY <1>7, <1>8, RequestChangeKept
     DEF SubmitPurchaseRequest, RejectPurchaseRequest, CancelPurchaseRequest, Withdrawable,
         RequestStatus
<1>9. CASE ApprovePurchaseRequest(p)
  BY <1>9, ApproveKept
<1>10. QED
  BY <1>2, <1>3, <1>5, <1>6, <1>8, <1>9, RequestChangeKept DEF RequestStep

(* What an order's step reserves is what its request's approval reserved.  *)
LEMMA OrderReserves ==
  ASSUME PurchaseInv, NEW p \in Requests, pr[p].status = "APPROVED", pr' = pr,
         Reserve(pr[p].centre, p, pr[p].total)
  PROVE  /\ ledger \subseteq ledger' /\ ledger' \subseteq Entry
         /\ budget' \in [Budgets -> BudgetRow]
         /\ ReservedAsApproved'
         /\ Reservation(BudgetOf[year][pr[p].centre], p, pr[p].total) \in ledger'
<1> USE DEF PurchaseInv
<1>1. pr[p].centre \in Centres /\ pr[p].total \in Nat
  BY RowsPresent DEF RequestRow
<1>2. \A e \in ledger : e.type = "RESERVATION" /\ e.of = p => e.amount = pr[p].total
  BY DEF ReservedAsApproved
<1> DEFINE new == Reservation(BudgetOf[year][pr[p].centre], p, pr[p].total)
<1>3. /\ ledger' = ledger \cup {new} /\ new \in Entry
      /\ budget' \in [Budgets -> BudgetRow]
  BY <1>1, <1>2, ReserveEnters
<1>4. ReservedAsApproved'
  BY <1>3 DEF ReservedAsApproved, Reservation
<1>5. QED
  BY <1>3, <1>4 DEF TypeOK

LEMMA CreateOrderKept ==
  ASSUME PurchaseInv, NEW p \in Requests, NEW o \in Orders, CreatePurchaseOrder(p, o)
  PROVE  PurchaseInv'
<1> USE DEF PurchaseInv
<1> DEFINE r == [status |-> "DRAFT", pr |-> p, centre |-> pr[p].centre,
                 total |-> pr[p].total, lines |-> pr[p].lines, year |-> year]
<1>1. /\ pr[p].status = "APPROVED" /\ po[o] = NoRow /\ LiveOrders(p) = {}
      /\ Reserve(pr[p].centre, p, pr[p].total)
      /\ po' = [po EXCEPT ![o] = r] /\ UNCHANGED <<year, waived, pr, inv>>
  BY DEF CreatePurchaseOrder
<1>2. r \in OrderRow
  BY <1>1, RowsPresent DEF OrderRow, OrderStatus, RequestRow, TypeOK
<1>3. /\ ledger \subseteq ledger' /\ ledger' \subseteq Entry
      /\ budget' \in [Budgets -> BudgetRow]
      /\ ReservedAsApproved'
      /\ Reservation(BudgetOf[r.year][r.centre], r.pr, r.total) \in ledger'
  BY <1>1, OrderReserves
<1>4. po'[o] = r /\ \A q \in Orders : q # o => po'[q] = po[q]
  BY <1>1 DEF TypeOK
<1>5. TypeOK'
  BY <1>1, <1>2, <1>3 DEF TypeOK
<1>6. OrderAsApproved'
  BY <1>1, <1>4 DEF OrderAsApproved
<1>7. OneLiveOrder'
  <2>1. \A q \in Orders : q # o => Live(q)' = Live(q)
    BY <1>4 DEF Live
  <2>2. \A q \in LiveOrders(p)' : q = o
    BY <1>1, <1>4, <2>1 DEF LiveOrders
  <2>3. \A x \in Requests \ {p} : LiveOrders(x)' = LiveOrders(x)
    BY <1>1, <1>4, <2>1 DEF LiveOrders, Live, NoRow
  <2>4. QED
    BY <2>2, <2>3 DEF OneLiveOrder
<1>8. OrderFunded'
  BY <1>3, <1>4 DEF OrderFunded, Reservation
<1>9. PaidIsConsumed'
  BY <1>1, <1>3 DEF PaidIsConsumed
<1>10. QED
  BY <1>3, <1>5, <1>6, <1>7, <1>8, <1>9

LEMMA OrderStepKept ==
  ASSUME PurchaseInv, NEW o \in Orders, OrderStep(o)
  PROVE  PurchaseInv'
<1> USE DEF PurchaseInv
<1>1. /\ po[o].status # "NONE" => po[o] \in OrderRow /\ po[o] # NoRow
      /\ po \in [Orders -> OrderRow \cup {NoRow}] /\ year \in Years
  BY RowsPresent DEF TypeOK
<1>2. po[o].status # "NONE" =>
        Reservation(BudgetOf[po[o].year][po[o].centre], po[o].pr, po[o].total) \in ledger
  BY <1>1 DEF OrderFunded, Reservation
<1>3. CASE \E p \in Requests : CreatePurchaseOrder(p, o)
  BY <1>3, CreateOrderKept
<1>4. ASSUME NEW s \in OrderStatus, po[o].status \in {"DRAFT", "APPROVED"},
             po' = [po EXCEPT ![o].status = s],
             UNCHANGED <<year, moneyVars, waived, pr, inv>>
      PROVE  PurchaseInv'
  <2> DEFINE r == [po[o] EXCEPT !.status = s]
  <2>1. OrderMoves(o, r)
    BY <1>1, <1>4 DEF OrderMoves, OrderRow
  <2>2. Reservation(BudgetOf[r.year][r.centre], r.pr, r.total) \in ledger
    BY <1>1, <1>2, <1>4 DEF OrderRow
  <2>3. /\ ledger' = ledger /\ ledger \subseteq Entry /\ budget' \in [Budgets -> BudgetRow]
        /\ ReservedAsApproved'
    BY <1>4 DEF moneyVars, TypeOK, ReservedAsApproved
  <2>4. QED
    BY <2>1, <2>2, <2>3, OrderMoveKept
<1>5. CASE ApprovePurchaseOrder(o) \/ CancelPurchaseOrder(o)
  BY <1>4, <1>5 DEF ApprovePurchaseOrder, CancelPurchaseOrder, OrderStatus
<1>6. CASE IssuePurchaseOrder(o)
  <2> DEFINE r == [po[o] EXCEPT !.status = "ISSUED", !.year = year]
             p == po[o].pr
  <2>1. OrderMoves(o, r)
    BY <1>1, <1>6 DEF IssuePurchaseOrder, OrderMoves, OrderRow, OrderStatus
  <2>2. /\ p \in Requests /\ pr[p].status = "APPROVED"
        /\ po[o].total = pr[p].total /\ po[o].centre = pr[p].centre
    BY <1>1, <1>6 DEF IssuePurchaseOrder, OrderAsApproved, OrderRow
  <2>3. Reserve(pr[p].centre, p, pr[p].total) /\ pr' = pr
    BY <1>6, <2>2 DEF IssuePurchaseOrder
  <2>4. r.year = year /\ r.centre = pr[p].centre /\ r.pr = p /\ r.total = pr[p].total
    BY <1>1, <1>6, <2>2 DEF IssuePurchaseOrder, OrderRow
  <2>5. QED
    BY <2>1, <2>2, <2>3, <2>4, OrderReserves, OrderMoveKept
<1>7. QED
  BY <1>3, <1>5, <1>6 DEF OrderStep

LEMMA InvoiceStepKept ==
  ASSUME PurchaseInv, NEW i \in Invoices, InvoiceStep(i)
  PROVE  PurchaseInv'
<1> DEFINE Changes == \E r : InvoiceChanges(i, r)
<1>1. /\ inv[i].status # "NONE" => inv[i] # NoRow
      /\ inv[i] # NoRow => inv[i] \in InvoiceRow
      /\ inv[i].status \in Paid => inv[i].open = {}
  BY RowsPresent DEF PurchaseInv, PaidIsConsumed, Paid
<1>2. ASSUME NEW r \in InvoiceRow, inv' = [inv EXCEPT ![i] = r],
             r.status \in Paid => r.open = {} /\ inv[i].status \in Paid,
             UNCHANGED <<year, moneyVars, waived, pr, po>>
      PROVE  PurchaseInv'
  <2>1. InvoiceChanges(i, r)
    BY <1>2 DEF InvoiceChanges
  <2>2. QED
    BY <2>1, InvoiceChangeKept
<1>3. ASSUME NEW c \in Centres, NEW total \in Sums, NEW o \in Orders \cup {NoOrder},
             CreateVendorInvoice(i, c, total, o)
      PROVE  PurchaseInv'
  <2> DEFINE r == [status |-> "DRAFT", centre |-> c, total |-> total, order |-> o,
                   open |-> {}]
  <2>1. r \in InvoiceRow /\ r.status \notin Paid
    BY AmountAssumption DEF InvoiceRow, InvoiceStatus, Paid
  <2>2. QED
    BY <1>2, <1>3, <2>1 DEF CreateVendorInvoice
<1>4. ASSUME NEW s \in InvoiceStatus \ Paid, inv[i] # NoRow,
             inv' = [inv EXCEPT ![i].status = s],
             UNCHANGED <<year, moneyVars, waived, pr, po>>
      PROVE  PurchaseInv'
  <2> DEFINE r == [inv[i] EXCEPT !.status = s]
  <2>1. r \in InvoiceRow /\ r.status \notin Paid /\ inv' = [inv EXCEPT ![i] = r]
    BY <1>1, <1>4 DEF InvoiceRow
  <2>2. QED
    BY <1>2, <1>4, <2>1
<1>5. CASE UploadVendorInvoice(i)
  BY <1>1, <1>4, <1>5 DEF UploadVendorInvoice, Editable, InvoiceStatus, Paid
<1>6. ASSUME NEW completed \in BOOLEAN, ExtractVendorInvoice(i, completed)
      PROVE  PurchaseInv'
  <2> DEFINE s == IF completed THEN "EXTRACTED" ELSE "EXTRACTION_PENDING"
  <2>1. s \in InvoiceStatus \ Paid
    BY DEF InvoiceStatus, Paid
  <2>2. inv[i] # NoRow /\ inv' = [inv EXCEPT ![i].status = s]
    BY <1>1, <1>6 DEF ExtractVendorInvoice
  <2>3. QED
    BY <1>4, <1>6, <2>1, <2>2 DEF ExtractVendorInvoice
<1>7. CASE RejectVendorInvoice(i) \/ CancelVendorInvoice(i)
  BY <1>4, <1>7 DEF RejectVendorInvoice, CancelVendorInvoice, InvoiceStatus, Paid
<1>8. ASSUME NEW c \in Centres, UpdateVendorInvoice(i, c)
      PROVE  PurchaseInv'
  <2> DEFINE open == IF inv[i].status \in Final THEN inv[i].open ELSE {}
             r == [inv[i] EXCEPT !.centre = c, !.open = open]
  <2>1. inv[i] \in InvoiceRow
    BY <1>1, <1>8 DEF UpdateVendorInvoice, Editable
  <2>2. r \in InvoiceRow /\ r.status = inv[i].status /\ r.open = open
    BY <2>1 DEF InvoiceRow
  <2>3. r.status \in Paid => r.open = {} /\ inv[i].status \in Paid
    BY <1>1, <2>2
  <2>4. inv' = [inv EXCEPT ![i] = r]
    BY <1>8 DEF UpdateVendorInvoice
  <2>5. QED
    BY <1>2, <1>8, <2>2, <2>3, <2>4 DEF UpdateVendorInvoice
<1>9. ASSUME NEW total \in Sums, NEW open \in SUBSET Codes, inv[i].status \in Editable,
             inv' = [inv EXCEPT ![i].total = total, ![i].status = Restarted(@),
                                ![i].open = open],
             UNCHANGED <<year, moneyVars, waived, pr, po>>
      PROVE  PurchaseInv'
  <2> DEFINE r == [inv[i] EXCEPT !.total = total, !.status = Restarted(@), !.open = open]
  <2>1. inv[i] \in InvoiceRow /\ total \in Int
    BY <1>1, <1>9, AmountAssumption DEF Editable
  <2>2. r \in InvoiceRow /\ r.status \notin Paid
    BY <2>1 DEF InvoiceRow, Restarted, InvoiceStatus, Paid
  <2>3. QED
    BY <1>2, <1>9, <2>2
<1>10. ASSUME NEW total \in Sums, CreateInvoiceLine(i, total)
       PROVE  PurchaseInv'
  <2>1. inv[i] \in InvoiceRow
    BY <1>1, <1>10 DEF CreateInvoiceLine, Editable
  <2>2. inv[i].open \in SUBSET Codes
    BY <2>1 DEF InvoiceRow
  <2>3. inv' = [inv EXCEPT ![i].total = total, ![i].status = Restarted(@),
                           ![i].open = inv[i].open]
    BY <1>10, <2>1 DEF CreateInvoiceLine, InvoiceRow
  <2>4. QED
    BY <1>9, <1>10, <2>2, <2>3 DEF CreateInvoiceLine
<1>11. ASSUME NEW total \in Sums, EditInvoiceLine(i, total)
       PROVE  PurchaseInv'
  BY <1>9, <1>11 DEF EditInvoiceLine
<1>12. ASSUME NEW found \in SUBSET Codes, MatchVendorInvoice(i, found)
       PROVE  PurchaseInv'
  <2> DEFINE s == IF found = {} THEN "MATCHED" ELSE "EXCEPTION"
             r == [inv[i] EXCEPT !.open = found, !.status = s]
  <2>1. r \in InvoiceRow /\ r.status \notin Paid
    BY <1>1, <1>12 DEF MatchVendorInvoice, InvoiceRow, InvoiceStatus, Paid
  <2>2. inv' = [inv EXCEPT ![i] = r]
    BY <1>12 DEF MatchVendorInvoice
  <2>3. QED
    BY <1>2, <1>12, <2>1, <2>2 DEF MatchVendorInvoice
<1>13. ASSUME NEW code \in Codes, WaiveInvoiceException(i, code)
       PROVE  PurchaseInv'
  <2> DEFINE r == [inv[i] EXCEPT !.open = @ \ {code}]
  <2>1. r \in InvoiceRow /\ (r.status \in Paid => r.open = {} /\ inv[i].status \in Paid)
    BY <1>1, <1>13 DEF WaiveInvoiceException, InvoiceRow
  <2>2. QED
    BY <1>2, <1>13, <2>1 DEF WaiveInvoiceException
<1>14. CASE ApproveVendorInvoice(i)
  <2> DEFINE r == [inv[i] EXCEPT !.status = "APPROVED"]
  <2>1. r \in InvoiceRow /\ r.open = {} /\ inv[i] # NoRow /\ inv' = [inv EXCEPT ![i] = r]
    BY <1>1, <1>14 DEF ApproveVendorInvoice, InvoiceRow, InvoiceStatus
  <2>2. QED
    BY <1>14, <2>1, InvoicePaidKept DEF ApproveVendorInvoice
<1>15. CASE MarkExportReady(i)
  <2> DEFINE r == [inv[i] EXCEPT !.status = "EXPORT_READY"]
  <2>1. r \in InvoiceRow /\ r.open = {} /\ inv[i] # NoRow /\ inv' = [inv EXCEPT ![i] = r]
    BY <1>1, <1>15 DEF MarkExportReady, InvoiceRow, InvoiceStatus, Paid
  <2>2. QED
    BY <1>15, <2>1, InvoicePaidKept DEF MarkExportReady
<1>16. CASE ExportVendorInvoice(i)
  <2> DEFINE r == [inv[i] EXCEPT !.status = "EXPORTED"]
  <2>1. /\ r \in InvoiceRow /\ r.open = {} /\ inv[i].status \in Paid
        /\ inv' = [inv EXCEPT ![i] = r]
    BY <1>1, <1>16 DEF ExportVendorInvoice, InvoiceRow, InvoiceStatus, Paid
  <2>2. QED
    BY <1>2, <1>16, <2>1 DEF ExportVendorInvoice
<1>17. QED
  BY <1>3, <1>5, <1>6, <1>7, <1>8, <1>10, <1>11, <1>12, <1>13, <1>14, <1>15, <1>16
     DEF InvoiceStep

LEMMA StepInv == PurchaseInv /\ [Next]_vars => PurchaseInv'
<1> SUFFICES ASSUME PurchaseInv, [Next]_vars PROVE PurchaseInv'
  OBVIOUS
<1>1. CASE BudgetStep
  BY <1>1, BudgetStepKept
<1>2. CASE \E p \in Requests : RequestStep(p)
  BY <1>2, RequestStepKept
<1>3. CASE \E o \in Orders : OrderStep(o)
  BY <1>3, OrderStepKept
<1>4. CASE \E i \in Invoices : InvoiceStep(i)
  BY <1>4, InvoiceStepKept
<1>5. CASE UNCHANGED vars
  BY <1>5 DEF vars, moneyVars, PurchaseInv, TypeOK, ReservedAsApproved, OrderAsApproved,
              OneLiveOrder, LiveOrders, Live, OrderFunded, PaidIsConsumed
<1>6. QED
  BY <1>1, <1>2, <1>3, <1>4, <1>5 DEF Next

-----------------------------------------------------------------------------
(* The inductive invariant: rows, entries of the ledger and the statuses    *)
(* that led to them determine one another after every handler.             *)
THEOREM PurchaseInvariant == Spec => []PurchaseInv
  BY InitInv, StepInv, PTL DEF Spec

(* No transaction of the chain from request to invoice leaves a row with    *)
(* anything but what the code writes to it.                                *)
THEOREM PurchaseTypes == Spec => []TypeOK
<1>1. PurchaseInv => TypeOK
  BY DEF PurchaseInv
<1>2. QED
  BY <1>1, PurchaseInvariant, PTL

(* An order always is its approved request, line by line: after the approval *)
(* no handler can change the one without the other.                        *)
THEOREM OrdersAreApproved == Spec => []OrderAsApproved
<1>1. PurchaseInv => OrderAsApproved
  BY DEF PurchaseInv
<1>2. QED
  BY <1>1, PurchaseInvariant, PTL

(* A request never has two orders that are not cancelled.                  *)
THEOREM OrderedOnce == Spec => []OneLiveOrder
<1>1. PurchaseInv => OneLiveOrder
  BY DEF PurchaseInv
<1>2. QED
  BY <1>1, PurchaseInvariant, PTL

(* Whatever is waived, and however budgets change from year to year, an     *)
(* order has a reservation of its amount in the budget of its year.        *)
THEOREM OrdersAreFunded == Spec => []OrderFunded
<1>1. PurchaseInv => OrderFunded
  BY DEF PurchaseInv
<1>2. QED
  BY <1>1, PurchaseInvariant, PTL

(* What is approved, ready for export or exported has no open exception and *)
(* was consumed from a budget.                                             *)
THEOREM PaidFromBudget == Spec => []PaidIsConsumed
<1>1. PurchaseInv => PaidIsConsumed
  BY DEF PurchaseInv
<1>2. QED
  BY <1>1, PurchaseInvariant, PTL

-----------------------------------------------------------------------------
(* What the ledger adds up to.                                             *)

\* Posted, of a ledger at hand.
PostedIn(rows, t, b) == AmountIn({e \in rows : e.type = t /\ e.budget = b})

\* Entries are added one by one, so there are finitely many.
MoneyInv == IsFiniteSet(ledger) /\ CountersAgree

LEMMA AmountType ==
  ASSUME NEW E, IsFiniteSet(E), E \subseteq Entry
  PROVE  /\ AmountIn(E) \in Int
         /\ (\A e \in E : e.amount \in Nat) => AmountIn(E) \in Nat
<1> DEFINE f == [e \in E |-> e.amount]
<1>1. f \in [E -> Int] /\ ((\A e \in E : e.amount \in Nat) => f \in [E -> Nat])
  BY DEF Entry
<1>2. SumFunction(f) \in Int /\ (f \in [E -> Nat] => SumFunction(f) \in Nat)
  <2> HIDE DEF f
  <2> QED BY <1>1, SumFunctionType, SumFunctionNatural
<1> QED
  BY <1>1, <1>2 DEF AmountIn

LEMMA AmountGrows ==
  ASSUME NEW E, IsFiniteSet(E), E \subseteq Entry, NEW x \in Entry, x \notin E
  PROVE  AmountIn(E \cup {x}) = AmountIn(E) + x.amount
<1> DEFINE f == [e \in E |-> e.amount]
           g == [e \in E \cup {x} |-> e.amount]
<1>1. f \in [E -> Int] /\ g \in [E \cup {x} -> Int] /\ g[x] = x.amount
  BY DEF Entry
<1>2. \A e \in E : g[e] = f[e]
  OBVIOUS
<1>3. SumFunction(g) = SumFunction(f) + g[x]
  <2> HIDE DEF f, g
  <2> QED BY ONLY <1>1, <1>2, IsFiniteSet(E), x \notin E, SumFunctionGrows
<1> QED
  BY <1>1, <1>3 DEF AmountIn

LEMMA PostedType ==
  ASSUME NEW rows, IsFiniteSet(rows), rows \subseteq Entry, NEW t, NEW b
  PROVE  /\ PostedIn(rows, t, b) \in Int
         /\ (\A e \in rows : e.type = t => e.amount \in Nat) => PostedIn(rows, t, b) \in Nat
<1> DEFINE E == {e \in rows : e.type = t /\ e.budget = b}
<1>1. IsFiniteSet(E) /\ E \subseteq Entry
  BY FS_Subset
<1>2. (\A e \in rows : e.type = t => e.amount \in Nat) => \A e \in E : e.amount \in Nat
  OBVIOUS
<1> HIDE DEF E
<1>3. AmountIn(E) \in Int /\ ((\A e \in E : e.amount \in Nat) => AmountIn(E) \in Nat)
  BY <1>1, AmountType
<1> QED
  BY <1>2, <1>3 DEF PostedIn, E

\* A new entry is added to what it is posted to, and to nothing else.
LEMMA PostedGrows ==
  ASSUME NEW rows, IsFiniteSet(rows), rows \subseteq Entry, NEW x \in Entry, x \notin rows,
         NEW t, NEW b
  PROVE  PostedIn(rows \cup {x}, t, b) =
           IF t = x.type /\ b = x.budget THEN PostedIn(rows, t, b) + x.amount
           ELSE PostedIn(rows, t, b)
<1> DEFINE E == {e \in rows : e.type = t /\ e.budget = b}
           F == {e \in rows \cup {x} : e.type = t /\ e.budget = b}
<1>1. IsFiniteSet(E) /\ E \subseteq Entry /\ x \notin E
  BY FS_Subset
<1>2. CASE t = x.type /\ b = x.budget
  <2>1. F = E \cup {x}
    BY <1>2
  <2> HIDE DEF E
  <2>2. AmountIn(E \cup {x}) = AmountIn(E) + x.amount
    BY <1>1, AmountGrows
  <2> QED BY <1>2, <2>1, <2>2 DEF PostedIn, E
<1>3. CASE ~(t = x.type /\ b = x.budget)
  <2>1. F = E
    BY <1>3
  <2> QED BY <1>3, <2>1 DEF PostedIn
<1> QED BY <1>2, <1>3

\* The ledger and the counters are written by the two writers, and by no other.
LEMMA MoneyWriters ==
  ASSUME PurchaseInv, [Next]_vars
  PROVE  \/ /\ ledger' = ledger
            /\ \A b \in Budgets : budget'[b].posted = budget[b].posted
         \/ \E c \in Centres, p \in Requests, total \in Nat : Reserve(c, p, total)
         \/ \E c \in Centres, i \in Invoices, total \in Int : Consume(c, i, total)
<1> DEFINE Quiet == /\ ledger' = ledger
                    /\ \A b \in Budgets : budget'[b].posted = budget[b].posted
<1>1. UNCHANGED moneyVars => Quiet
  BY DEF moneyVars
<1>2. budget \in [Budgets -> BudgetRow]
  BY DEF PurchaseInv, TypeOK
<1>3. ASSUME NEW b \in Budgets, NEW amount \in Ceilings, UpdateBudget(b, amount)
      PROVE  Quiet
  BY <1>2, <1>3 DEF UpdateBudget, BudgetRow
<1>4. CASE BudgetStep
  <2>1. NewYear => UNCHANGED moneyVars
    BY DEF NewYear
  <2>2. \A x \in Requests \cup Orders : Waive(x) \/ WaiverExpires(x) => UNCHANGED moneyVars
    BY DEF Waive, WaiverExpires
  <2> QED BY <1>1, <1>3, <1>4, <2>1, <2>2 DEF BudgetStep
<1>5. ASSUME NEW p \in Requests, RequestStep(p)
      PROVE  UNCHANGED moneyVars \/ ApprovePurchaseRequest(p)
  <2>1. /\ \A c \in Centres : \A lines \in [LineIds -> Prices \cup {NoLine}] :
             CreatePurchaseRequest(p, c, lines) => UNCHANGED moneyVars
        /\ \A c \in Centres : UpdatePurchaseRequest(p, c) => UNCHANGED moneyVars
    BY DEF CreatePurchaseRequest, UpdatePurchaseRequest
  <2>2. /\ \A i \in LineIds, price \in Prices :
             CreateRequestLine(p, i, price) \/ UpdateRequestLine(p, i, price)
               => UNCHANGED moneyVars
        /\ \A i \in LineIds : DeleteRequestLine(p, i) => UNCHANGED moneyVars
    BY DEF CreateRequestLine, UpdateRequestLine, DeleteRequestLine
  <2>3. SubmitPurchaseRequest(p) \/ RejectPurchaseRequest(p) \/ CancelPurchaseRequest(p)
          => UNCHANGED moneyVars
    BY DEF SubmitPurchaseRequest, RejectPurchaseRequest, CancelPurchaseRequest
  <2> QED BY <1>5, <2>1, <2>2, <2>3 DEF RequestStep
<1>6. ASSUME NEW p \in Requests, ApprovePurchaseRequest(p)
      PROVE  \E c \in Centres, total \in Nat : Reserve(c, p, total)
  <2>1. pr[p] \in RequestRow /\ Reserve(pr[p].centre, p, pr[p].total)
    BY <1>6, RowsPresent DEF ApprovePurchaseRequest, PurchaseInv
  <2> QED BY <2>1 DEF RequestRow
<1>7. ASSUME NEW o \in Orders, OrderStep(o)
      PROVE  \/ UNCHANGED moneyVars
             \/ \E c \in Centres, p \in Requests, total \in Nat : Reserve(c, p, total)
  <2>1. ApprovePurchaseOrder(o) \/ CancelPurchaseOrder(o) => UNCHANGED moneyVars
    BY DEF ApprovePurchaseOrder, CancelPurchaseOrder
  <2>2. ASSUME NEW p \in Requests, CreatePurchaseOrder(p, o)
        PROVE  \E c \in Centres, total \in Nat : Reserve(c, p, total)
    <3>1. pr[p] \in RequestRow /\ Reserve(pr[p].centre, p, pr[p].total)
      BY <2>2, RowsPresent DEF CreatePurchaseOrder, PurchaseInv
    <3> QED BY <3>1 DEF RequestRow
  <2>3. ASSUME IssuePurchaseOrder(o)
        PROVE  \E c \in Centres, p \in Requests, total \in Nat : Reserve(c, p, total)
    <3>1. po[o] \in OrderRow /\ Reserve(po[o].centre, po[o].pr, po[o].total)
      BY <2>3, RowsPresent DEF IssuePurchaseOrder, PurchaseInv
    <3> QED BY <3>1 DEF OrderRow
  <2> QED BY <1>7, <2>1, <2>2, <2>3 DEF OrderStep
<1>8. ASSUME NEW i \in Invoices, InvoiceStep(i)
      PROVE  UNCHANGED moneyVars \/ ApproveVendorInvoice(i) \/ MarkExportReady(i)
  <2>1. /\ \A c \in Centres, total \in Sums, o \in Orders \cup {NoOrder} :
             CreateVendorInvoice(i, c, total, o) => UNCHANGED moneyVars
        /\ UploadVendorInvoice(i) => UNCHANGED moneyVars
        /\ \A c \in Centres : UpdateVendorInvoice(i, c) => UNCHANGED moneyVars
        /\ \A total \in Sums : CreateInvoiceLine(i, total) \/ EditInvoiceLine(i, total)
             => UNCHANGED moneyVars
    BY DEF CreateVendorInvoice, UploadVendorInvoice, UpdateVendorInvoice, CreateInvoiceLine,
           EditInvoiceLine
  <2>2. /\ \A completed \in BOOLEAN : ExtractVendorInvoice(i, completed) => UNCHANGED moneyVars
        /\ \A found \in SUBSET Codes : MatchVendorInvoice(i, found) => UNCHANGED moneyVars
        /\ \A code \in Codes : WaiveInvoiceException(i, code) => UNCHANGED moneyVars
    BY DEF ExtractVendorInvoice, MatchVendorInvoice, WaiveInvoiceException
  <2>3. /\ RejectVendorInvoice(i) => UNCHANGED moneyVars
        /\ CancelVendorInvoice(i) => UNCHANGED moneyVars
        /\ ExportVendorInvoice(i) => UNCHANGED moneyVars
    BY DEF RejectVendorInvoice, CancelVendorInvoice, ExportVendorInvoice
  <2> QED BY <1>8, <2>1, <2>2, <2>3 DEF InvoiceStep
<1>9. ASSUME NEW i \in Invoices, ApproveVendorInvoice(i) \/ MarkExportReady(i)
      PROVE  \E c \in Centres, total \in Int : Consume(c, i, total)
  <2>1. inv[i] \in InvoiceRow /\ Consume(inv[i].centre, i, inv[i].total)
    BY <1>9, RowsPresent DEF ApproveVendorInvoice, MarkExportReady, PurchaseInv
  <2> QED BY <2>1 DEF InvoiceRow
<1>10. UNCHANGED vars => UNCHANGED moneyVars
  BY DEF vars
<1> QED
  BY <1>1, <1>4, <1>5, <1>6, <1>7, <1>8, <1>9, <1>10 DEF Next

\* What an entry that is new does to the ledger and to the counter of its budget.
LEMMA EnteredCounts ==
  ASSUME TypeOK, MoneyInv, NEW t \in EntryTypes, NEW b \in Budgets,
         NEW x \in Requests \cup Invoices, NEW total \in Int,
         ~Booked(t, b, x), Entered(t, b, x, total)
  PROVE  /\ MoneyInv'
         /\ \A s \in EntryTypes, c \in Budgets :
              PostedIn(ledger', s, c) = IF s = t /\ c = b THEN PostedIn(ledger, s, c) + total
                                        ELSE PostedIn(ledger, s, c)
<1> DEFINE e == [type |-> t, budget |-> b, of |-> x, amount |-> total]
<1>1. e \in Entry /\ e.type = t /\ e.budget = b /\ e.of = x /\ e.amount = total
  BY DEF Entry
<1>2. e \notin ledger
  BY <1>1 DEF Booked, EntriesOf
<1>3. /\ ledger' = ledger \cup {e} /\ budget' = [budget EXCEPT ![b].posted[t] = @ + total]
      /\ IsFiniteSet(ledger) /\ ledger \subseteq Entry
  BY DEF Entered, MoneyInv, TypeOK
<1> HIDE DEF e
<1>4. \A s, c : PostedIn(ledger', s, c) = IF s = t /\ c = b THEN PostedIn(ledger, s, c) + total
                                        ELSE PostedIn(ledger, s, c)
  BY <1>1, <1>2, <1>3, PostedGrows
<1>5. \A s \in EntryTypes, c \in Budgets :
        budget'[c].posted[s] = IF s = t /\ c = b THEN budget[c].posted[s] + total
                               ELSE budget[c].posted[s]
  BY <1>3 DEF TypeOK, BudgetRow
<1>6. \A s \in EntryTypes, c \in Budgets : budget[c].posted[s] = PostedIn(ledger, s, c)
  BY DEF MoneyInv, CountersAgree, Posted, EntriesOf, PostedIn
<1>7. \A s \in EntryTypes, c \in Budgets : budget'[c].posted[s] = PostedIn(ledger', s, c)
  BY <1>4, <1>5, <1>6
<1>8. CountersAgree'
  BY <1>7 DEF CountersAgree, Posted, EntriesOf, PostedIn
<1>9. IsFiniteSet(ledger')
  BY <1>3, FS_AddElement
<1> QED
  BY <1>4, <1>8, <1>9 DEF MoneyInv

\* What is reserved for a request, or consumed for an invoice, is a new entry or nothing.
LEMMA ReserveCounts ==
  ASSUME TypeOK, NEW c \in Centres, NEW p \in Requests, NEW total, Reserve(c, p, total)
  PROVE  \/ UNCHANGED moneyVars
         \/ \E b \in Budgets : /\ Available(b) >= total /\ ~Booked("RESERVATION", b, p)
                               /\ Entered("RESERVATION", b, p, total)
  BY BudgetAssumption DEF TypeOK, Reserve

LEMMA ConsumeCounts ==
  ASSUME TypeOK, NEW c \in Centres, NEW i \in Invoices, NEW total, Consume(c, i, total)
  PROVE  \/ UNCHANGED moneyVars
         \/ \E b \in Budgets :
              /\ \/ Available(b) + Posted("RESERVATION", b) >= total
                 \/ Available(b) >= total
              /\ ~Booked("CONSUMPTION", b, i) /\ Entered("CONSUMPTION", b, i, total)
  BY BudgetAssumption DEF TypeOK, Consume

\* No reservation takes what there is not, and no consumption.
Committed(b, reserved, consumed, moreReserved, moreConsumed) ==
  /\ moreReserved > reserved => moreReserved + moreConsumed <= budget[b].amount
  /\ moreConsumed > consumed => moreConsumed <= budget[b].amount
CommitStep ==
  \A b \in Budgets :
    Committed(b, PostedIn(ledger, "RESERVATION", b), PostedIn(ledger, "CONSUMPTION", b),
              PostedIn(ledger', "RESERVATION", b), PostedIn(ledger', "CONSUMPTION", b))

\* What is available is what the budget has beyond what was posted.
LEMMA AvailableIs ==
  ASSUME PurchaseInv, MoneyInv, NEW b \in Budgets
  PROVE  /\ budget[b].amount \in Nat
         /\ PostedIn(ledger, "RESERVATION", b) \in Nat
         /\ PostedIn(ledger, "CONSUMPTION", b) \in Int
         /\ Posted("RESERVATION", b) = PostedIn(ledger, "RESERVATION", b)
         /\ Available(b) = budget[b].amount - PostedIn(ledger, "RESERVATION", b)
                             - PostedIn(ledger, "CONSUMPTION", b)
<1>1. ledger \subseteq Entry /\ IsFiniteSet(ledger) /\ budget[b].amount \in Nat
  BY DEF PurchaseInv, TypeOK, MoneyInv, BudgetRow
<1>2. \A e \in ledger : e.type = "RESERVATION" => e.amount \in Nat
  BY RowsPresent DEF PurchaseInv, ReservedAsApproved, RequestRow
<1>3. /\ PostedIn(ledger, "RESERVATION", b) \in Nat
      /\ PostedIn(ledger, "CONSUMPTION", b) \in Int
  BY <1>1, <1>2, PostedType
<1>4. /\ Posted("RESERVATION", b) = PostedIn(ledger, "RESERVATION", b)
      /\ Posted("CONSUMPTION", b) = PostedIn(ledger, "CONSUMPTION", b)
  BY DEF Posted, EntriesOf, PostedIn
<1> QED BY <1>1, <1>3, <1>4 DEF Available

LEMMA MoneyInit == Init => MoneyInv
<1> SUFFICES ASSUME Init PROVE MoneyInv
  OBVIOUS
<1> DEFINE f == [e \in {} |-> e.amount]
<1>1. \A b, t : EntriesOf(t, b) = {}
  BY DEF Init, EntriesOf
<1>2. SumFunction(f) = 0
  <2>1. DOMAIN f = {} /\ IsFiniteSet({}) /\ \A e \in {} : f[e] = 0
    BY FS_EmptySet
  <2> HIDE DEF f
  <2> QED BY <2>1, SumFunctionZero
<1>3. \A b, t : Posted(t, b) = 0
  BY <1>1, <1>2 DEF Posted, AmountIn
<1> QED
  BY <1>3, FS_EmptySet DEF Init, MoneyInv, CountersAgree

LEMMA MoneyKept ==
  ASSUME PurchaseInv, MoneyInv, [Next]_vars
  PROVE  MoneyInv' /\ CommitStep
<1>0. TypeOK
  BY DEF PurchaseInv
<1>1. ASSUME ledger' = ledger, \A b \in Budgets : budget'[b].posted = budget[b].posted
      PROVE  MoneyInv' /\ CommitStep
  <2>1. MoneyInv'
    BY <1>1 DEF MoneyInv, CountersAgree, Posted, EntriesOf
  <2>2. \A b \in Budgets : /\ PostedIn(ledger, "RESERVATION", b) \in Int
                           /\ PostedIn(ledger, "CONSUMPTION", b) \in Int
    BY AvailableIs
  <2> QED BY <1>1, <2>1, <2>2 DEF CommitStep, Committed
<1>2. ASSUME NEW c \in Centres, NEW p \in Requests, NEW total \in Nat, Reserve(c, p, total),
             ~UNCHANGED moneyVars
      PROVE  MoneyInv' /\ CommitStep
  <2>1. PICK b \in Budgets : /\ Available(b) >= total /\ ~Booked("RESERVATION", b, p)
                             /\ Entered("RESERVATION", b, p, total)
    BY <1>0, <1>2, ReserveCounts
  <2>2. /\ MoneyInv'
        /\ \A s \in EntryTypes, d \in Budgets :
             PostedIn(ledger', s, d) = IF s = "RESERVATION" /\ d = b
                                       THEN PostedIn(ledger, s, d) + total
                                       ELSE PostedIn(ledger, s, d)
    <3>1. "RESERVATION" \in EntryTypes /\ p \in Requests \cup Invoices /\ total \in Int
      BY DEF EntryTypes
    <3> QED BY <1>0, <2>1, <3>1, EnteredCounts
  <2>3. ASSUME NEW d \in Budgets
        PROVE  /\ PostedIn(ledger', "RESERVATION", d) =
                    IF d = b THEN PostedIn(ledger, "RESERVATION", d) + total
                    ELSE PostedIn(ledger, "RESERVATION", d)
               /\ PostedIn(ledger', "CONSUMPTION", d) = PostedIn(ledger, "CONSUMPTION", d)
    BY <2>2 DEF EntryTypes
  <2>4. CommitStep
    BY <2>1, <2>3, AvailableIs DEF CommitStep, Committed
  <2> QED BY <2>2, <2>4
<1>3. ASSUME NEW c \in Centres, NEW i \in Invoices, NEW total \in Int, Consume(c, i, total),
             ~UNCHANGED moneyVars
      PROVE  MoneyInv' /\ CommitStep
  <2>1. PICK b \in Budgets :
          /\ \/ Available(b) + Posted("RESERVATION", b) >= total
             \/ Available(b) >= total
          /\ ~Booked("CONSUMPTION", b, i) /\ Entered("CONSUMPTION", b, i, total)
    BY <1>0, <1>3, ConsumeCounts
  <2>2. /\ MoneyInv'
        /\ \A s \in EntryTypes, d \in Budgets :
             PostedIn(ledger', s, d) = IF s = "CONSUMPTION" /\ d = b
                                       THEN PostedIn(ledger, s, d) + total
                                       ELSE PostedIn(ledger, s, d)
    <3>1. "CONSUMPTION" \in EntryTypes /\ i \in Requests \cup Invoices
      BY DEF EntryTypes
    <3> QED BY <1>0, <2>1, <3>1, EnteredCounts
  <2>3. ASSUME NEW d \in Budgets
        PROVE  /\ PostedIn(ledger', "CONSUMPTION", d) =
                    IF d = b THEN PostedIn(ledger, "CONSUMPTION", d) + total
                    ELSE PostedIn(ledger, "CONSUMPTION", d)
               /\ PostedIn(ledger', "RESERVATION", d) = PostedIn(ledger, "RESERVATION", d)
    BY <2>2 DEF EntryTypes
  <2>4. CommitStep
    BY <2>1, <2>3, AvailableIs DEF CommitStep, Committed
  <2> QED BY <2>2, <2>4
<1>4. UNCHANGED moneyVars => MoneyInv' /\ CommitStep
  BY <1>1 DEF moneyVars
<1> QED
  BY <1>1, <1>2, <1>3, <1>4, MoneyWriters

(* The counters of a budget are what its ledger adds up to, whatever is     *)
(* asked for twice and whenever the year ends.                             *)
THEOREM CountersAddUp == Spec => []CountersAgree
<1>1. PurchaseInv /\ MoneyInv /\ [Next]_vars => MoneyInv'
  BY MoneyKept
<1>2. MoneyInv => CountersAgree
  BY DEF MoneyInv
<1> QED
  BY MoneyInit, PurchaseInvariant, <1>1, <1>2, PTL DEF Spec

(* No handler reserves or consumes more than a budget has left, waiver or   *)
(* not.                                                                    *)
THEOREM CommittedWithinBudget == Spec => NeverOverCommitted
<1>1. PurchaseInv /\ MoneyInv /\ [Next]_vars => MoneyInv'
  BY MoneyKept
<1>2. PurchaseInv /\ MoneyInv /\ [Next]_vars =>
        [\A b \in Budgets :
           /\ Posted("RESERVATION", b)' > Posted("RESERVATION", b) =>
                Posted("RESERVATION", b)' + Posted("CONSUMPTION", b)' <= budget[b].amount
           /\ Posted("CONSUMPTION", b)' > Posted("CONSUMPTION", b) =>
                Posted("CONSUMPTION", b)' <= budget[b].amount]_vars
  <2> SUFFICES ASSUME PurchaseInv, MoneyInv, [Next]_vars,
                      NEW b \in Budgets
               PROVE  /\ Posted("RESERVATION", b)' > Posted("RESERVATION", b) =>
                           Posted("RESERVATION", b)' + Posted("CONSUMPTION", b)' <= budget[b].amount
                      /\ Posted("CONSUMPTION", b)' > Posted("CONSUMPTION", b) =>
                           Posted("CONSUMPTION", b)' <= budget[b].amount
    OBVIOUS
  <2>1. CommitStep
    BY MoneyKept
  <2> QED BY <2>1 DEF CommitStep, Committed, PostedIn, Posted, EntriesOf
<1> QED
  BY MoneyInit, PurchaseInvariant, <1>1, <1>2, PTL DEF Spec, NeverOverCommitted
=============================================================================
