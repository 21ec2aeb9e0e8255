--------------------------- MODULE WmsFloorProofs ---------------------------
(***************************************************************************)
(* The floor for every number of positions, pallets, bookings, customers   *)
(* and instants: the parts of FloorInv are proved one by one, each from    *)
(* the whole of it, over the handlers' effects on the rows.                *)
(*                                                                         *)
(* OneStayPerPosition and PositionsAgree are not inductive: the second     *)
(* transaction of a split occupies a position that the first one found     *)
(* free (PendingSplit), and a new row must not have been in use before     *)
(* (FreshRows). A shipped pallet stays shipped because it was accepted, so *)
(* it is no longer inspected (QualityAgrees).                              *)
(***************************************************************************)
EXTENDS WmsFloor, TLAPS

(* A transaction still owed names the rows it will write. *)
RequestOK ==
  /\ request.step # "idle" => request.hu \in HUs
  /\ request.step = "segregate" => request.child \in HUs /\ request.unit \in Units

TypeInv == TypeOK /\ RequestOK

(* The rows that the handlers write have their columns.                    *)

LEMMA EmptyRows == NoHU \in HURow /\ NoStay \in StayRow /\ Idle \in Request
  BY DEF HURow, Inventory, Progress, StayRow, Request, Steps, NoHU, NoStay, Idle, None, NoOwner, NoKey

LEMMA OwedRow ==
  ASSUME NEW step \in Steps, NEW h \in HUs, NEW u \in Units \cup {None}
  PROVE  Owed(step, h, u) \in Request
  BY DEF Owed, Request, Steps, Idle, None, NoKey

LEMMA Decided ==
  ASSUME NEW r \in HURow, NEW i \in Inventory, NEW s \in Progress
  PROVE  [r EXCEPT !.inv = i, !.status = s] \in HURow
  BY DEF HURow

LEMMA SplitOff ==
  ASSUME NEW r \in HURow, NEW q \in Nat, NEW i \in Inventory, NEW s \in Progress
  PROVE  [r EXCEPT !.qty = q, !.inv = i, !.status = s] \in HURow
  BY DEF HURow

LEMMA SplitChild ==
  ASSUME NEW r \in HURow, NEW q \in Nat, NEW i \in Inventory, NEW s \in Progress,
         NEW h \in HUs
  PROVE  [r EXCEPT !.qty = q, !.inv = i, !.status = s, !.parent = h] \in HURow
  BY DEF HURow

LEMMA Moved ==
  ASSUME NEW r \in HURow, NEW u \in Units \cup {None}
  PROVE  [r EXCEPT !.unit = u] \in HURow
  BY DEF HURow

LEMMA Left ==
  ASSUME NEW r \in HURow, NEW s \in Progress
  PROVE  [r EXCEPT !.status = s, !.unit = None] \in HURow
  BY DEF HURow

LEMMA Columns ==
  ASSUME NEW r \in HURow
  PROVE  r.qty \in Nat /\ r.unit \in Units \cup {None}
  BY DEF HURow

LEMMA StayClosed ==
  ASSUME NEW r \in StayRow
  PROVE  [r EXCEPT !.status = "CLOSED"] \in StayRow
  BY DEF StayRow

LEMMA BookingRow ==
  ASSUME NEW r \in ResRow, NEW s \in Booking
  PROVE  [r EXCEPT !.status = s] \in ResRow
  BY DEF ResRow

LEMMA BalanceColumns ==
  ASSUME NEW r \in Balance
  PROVE  r.onHand \in Int /\ r.reserved \in Int /\ r.available \in Int
  BY DEF Balance

LEMMA BalanceRow ==
  ASSUME NEW r \in Balance, NEW x \in Int, NEW y \in Int
  PROVE  /\ [r EXCEPT !.onHand = x, !.available = y] \in Balance
         /\ [r EXCEPT !.onHand = x, !.reserved = y] \in Balance
         /\ [r EXCEPT !.reserved = x, !.available = y] \in Balance
  BY DEF Balance

LEMMA PostingRow ==
  ASSUME NEW r \in Balance, NEW q \in Nat
  PROVE  Received(r, q) \in Balance /\ Promised(r, q) \in Balance /\ Shipped(r, q) \in Balance
<1>1. /\ r.onHand + q \in Int /\ r.available + q \in Int /\ r.reserved + q \in Int
      /\ r.onHand - q \in Int /\ r.available - q \in Int /\ r.reserved - q \in Int
  BY BalanceColumns
<1>2. Received(r, q) \in Balance
  BY <1>1, BalanceRow DEF Received
<1>3. Promised(r, q) \in Balance
  BY <1>1, BalanceRow DEF Promised
<1>4. Shipped(r, q) \in Balance
  BY <1>1, BalanceRow DEF Shipped
<1> QED
  BY <1>2, <1>3, <1>4

LEMMA CountedRow ==
  ASSUME NEW r \in Balance, NEW onHand \in Int
  PROVE  Counted(r, onHand) \in Balance
<1>1. (IF onHand - r.reserved > 0 THEN onHand - r.reserved ELSE 0) \in Int
  BY BalanceColumns
<1> QED
  BY <1>1, BalanceRow DEF Counted

LEMMA TypeInit == Init => TypeInv
<1>1. SUFFICES ASSUME Init PROVE TypeInv
  OBVIOUS
<1>2. /\ now \in 0..MaxTime /\ itemActive \in BOOLEAN
      /\ units \subseteq Units
      /\ unitStatus \in [Units -> {"AVAILABLE", "RESERVED", "OCCUPIED"}]
  BY <1>1, SizeAssumption, LayoutAssumption DEF Init
<1>3. hu \in [HUs -> HURow] /\ nextHU \in 1..(MaxHU + 1)
  BY <1>1, SizeAssumption, EmptyRows DEF Init
<1>4. stay \in [HUs -> StayRow]
  BY <1>1, EmptyRows DEF Init
<1>5. bal \in [Bins -> Balance]
  BY <1>1 DEF Init, Balance
<1>6. alloc \in [Demands -> [HUs -> Nat]]
  BY <1>1 DEF Init
<1>7. billed \in [HUs -> [BillKinds -> Nat]]
  BY <1>1 DEF Init
<1>8. request \in Request /\ RequestOK
  BY <1>1, EmptyRows DEF Init, RequestOK, Idle
<1>9. adjusted \in [Bins -> Int]
  BY <1>1 DEF Init
<1> QED
  BY <1>1, <1>2, <1>3, <1>4, <1>5, <1>6, <1>7, <1>8, <1>9 DEF TypeInv, TypeOK, Init

LEMMA StatusType ==
  ASSUME NEW u, NEW stays, NEW rs
  PROVE  StatusOf(u, stays, rs) \in {"AVAILABLE", "RESERVED", "OCCUPIED"}
  BY DEF StatusOf

LEMMA ReceiptOwedRow ==
  ASSUME NEW h \in HUs, NEW item, NEW inv, NEW u \in Units \cup {None}
  PROVE  /\ ReceiptOwed(h, item, inv, u) \in Request
         /\ ReceiptOwed(h, item, inv, u).step # "idle"
              => ReceiptOwed(h, item, inv, u).hu = h
         /\ ReceiptOwed(h, item, inv, u).step # "segregate"
  BY EmptyRows, OwedRow DEF ReceiptOwed, Owed, Idle, Steps

LEMMA TypeNext == TypeInv /\ [Next]_vars => TypeInv'
<1> SUFFICES ASSUME TypeInv, [Next]_vars PROVE TypeInv'
  OBVIOUS
<1> USE DEF TypeInv, TypeOK, RequestOK
<1>0. CASE UNCHANGED vars
  BY <1>0 DEF vars, clockVars, floorVars, bookVars, ledgerVars, orderVars
<1>1. ASSUME NEW u \in Units, CreateUnit(u) PROVE TypeInv'
  BY <1>1 DEF CreateUnit, clockVars, bookVars, ledgerVars, orderVars
<1>2. ASSUME NEW last \in Bins, SyncBins(last) PROVE TypeInv'
  BY <1>2 DEF SyncBins, clockVars, bookVars, ledgerVars, orderVars
<1>3. ASSUME NEW c \in Customers, NEW w \in Windows, NEW key \in Keys \cup {NoKey},
             Reserve(c, w, key)
      PROVE  TypeInv'
  <2>1. res' \subseteq ResRow
    <3>1. Cardinality(res) \in 0..MaxRes
      BY <1>3, InputAssumption, SizeAssumption DEF Reserve
    <3> QED
      BY <1>3, <3>1, InputAssumption DEF Reserve, Bookable, ResRow, Booking
  <2>2. unitStatus' \in [Units -> {"AVAILABLE", "RESERVED", "OCCUPIED"}]
    BY <1>3, StatusType DEF Reserve
  <2>3. events' \subseteq ({"SPACE_RESERVED", "QUALITY_REJECT_SEGREGATED"} \X Keys)
                          \cup ({"INVENTORY_ALLOCATED"} \X (Keys \cup Demands))
    BY <1>3 DEF Reserve
  <2> QED
    BY <1>3, <2>1, <2>2, <2>3 DEF Reserve, clockVars, ledgerVars
<1>4. ASSUME NEW u \in Units, NEW c \in Customers, NEW kind \in Kinds,
             NEW plan \in Plans, CheckIn(u, c, kind, plan)
      PROVE  TypeInv'
  <2>1. nextHU \in HUs /\ nextHU' \in 1..(MaxHU + 1)
    BY <1>4, SizeAssumption DEF CheckIn, HUs
  <2>2. hu' \in [HUs -> HURow]
    BY <1>4, <2>1, InputAssumption DEF CheckIn, HURow, None, Inventory, Progress
  <2>3. stay' \in [HUs -> StayRow]
    BY <1>4, <2>1, InputAssumption, SizeAssumption DEF CheckIn, StayRow
  <2>4. request' \in Request /\ RequestOK'
    <3>1. \/ request' = Owed("activate", nextHU, u)
          \/ \E inv : request' = ReceiptOwed(nextHU, kind.item, inv, u)
      BY <1>4 DEF CheckIn
    <3>2. Owed("activate", nextHU, u).hu = nextHU /\ Owed("activate", nextHU, u).step = "activate"
      BY DEF Owed, Idle
    <3> QED
      BY <2>1, <3>1, <3>2, OwedRow, ReceiptOwedRow DEF Steps
  <2>5. billed' \in [HUs -> [BillKinds -> Nat]]
    BY <1>4, <2>1 DEF CheckIn, BillKinds
  <2>6. unitStatus' \in [Units -> {"AVAILABLE", "RESERVED", "OCCUPIED"}]
    BY <1>4 DEF CheckIn
  <2>7. inspecting' \subseteq HUs
    BY <1>4, <2>1 DEF CheckIn
  <2> QED
    BY <1>4, <2>1, <2>2, <2>3, <2>4, <2>5, <2>6, <2>7
       DEF CheckIn, clockVars, bookVars, ledgerVars, orderVars
<1>5. CASE ActivateReservations
  <2>1. res' \subseteq ResRow
    BY <1>5, BookingRow DEF ActivateReservations, BookedDuring, Booking
  <2>2. request' \in Request /\ RequestOK'
    BY <1>5, ReceiptOwedRow DEF ActivateReservations, Request
  <2> QED
    BY <1>5, <2>1, <2>2
       DEF ActivateReservations, clockVars, floorVars, ledgerVars, orderVars
<1>6. CASE PostReceipt
  <2>1. request' \in Request /\ RequestOK'
    BY <1>6, EmptyRows DEF PostReceipt, Idle
  <2>2. hu[request.hu].qty \in Nat /\ request.hu \in HUs
    BY <1>6 DEF PostReceipt, HURow
  <2>3. bal' \in [Bins -> Balance]
    <3> DEFINE b == BinOf[request.unit]
               row == Received(bal[b], hu[request.hu].qty)
    <3>1. b \in Bins => row \in Balance
      BY <2>2, PostingRow
    <3>2. bal' = bal \/ bal' = [bal EXCEPT ![b] = row]
      BY <1>6 DEF PostReceipt, ledgerVars
    <3> HIDE DEF row
    <3> QED
      BY <3>1, <3>2
  <2>4. moved' \subseteq [type : {"WMS_RECEIVE", "WMS_SHIP"}, hu : HUs, bin : Bins, qty : Nat]
    BY <1>6, <2>2, LayoutAssumption DEF PostReceipt, Movement, Request, ledgerVars, None
  <2> QED
    BY <1>6, <2>1, <2>3, <2>4
       DEF PostReceipt, clockVars, floorVars, bookVars, ledgerVars, orderVars
<1>7. ASSUME NEW h \in HUs, NEW accepted \in BOOLEAN, DecideWhole(h, accepted)
      PROVE  TypeInv'
  <2>1. hu' \in [HUs -> HURow]
    BY <1>7, Decided DEF DecideWhole, Inventory, Progress
  <2>2. request' \in Request /\ RequestOK'
    BY <1>7, ReceiptOwedRow DEF DecideWhole, HURow
  <2> QED
    BY <1>7, <2>1, <2>2 DEF DecideWhole, clockVars, bookVars, ledgerVars, orderVars
<1>8. ASSUME NEW h \in HUs, NEW dest \in Units, NEW key \in Keys \cup {NoKey},
             NEW accepted \in 1..hu[h].qty, DecideSplit(h, accepted, dest, key)
      PROVE  TypeInv'
  <2>1. nextHU \in HUs /\ nextHU' \in 1..(MaxHU + 1)
    BY <1>8, SizeAssumption DEF DecideSplit, HUs
  <2>2. hu[h].qty \in Nat
    BY Columns
  <2>3. hu' \in [HUs -> HURow]
    <3>1. accepted \in Nat /\ hu[h].qty - accepted \in Nat
      BY <2>2
    <3>2. [hu[h] EXCEPT !.qty = accepted, !.inv = "AVAILABLE", !.status = "RECEIVED"] \in HURow
      BY <3>1, SplitOff DEF Inventory, Progress
    <3>3. [hu[h] EXCEPT !.qty = hu[h].qty - accepted, !.inv = "REJECTED", !.status = "HOLD",
                        !.parent = h] \in HURow
      BY <3>1, SplitChild DEF Inventory, Progress
    <3> QED
      BY <1>8, <2>1, <3>2, <3>3 DEF DecideSplit
  <2>4. request' \in Request /\ RequestOK'
    BY <1>8, <2>1 DEF DecideSplit, Request, Steps
  <2> QED
    BY <1>8, <2>1, <2>3, <2>4
       DEF DecideSplit, clockVars, bookVars, ledgerVars, orderVars
<1>9. CASE Segregate
  <2>1. /\ request.hu \in HUs /\ request.child \in HUs /\ request.unit \in Units
        /\ request.key \in Keys \cup {NoKey}
    BY <1>9 DEF Segregate, Request
  <2>2. hu' \in [HUs -> HURow]
    BY <1>9, <2>1, Moved DEF Segregate
  <2>3. stay' \in [HUs -> StayRow]
    BY <1>9, <2>1, SizeAssumption DEF Segregate, StayRow
  <2>4. request' \in Request /\ RequestOK'
    BY <1>9, <2>1, ReceiptOwedRow DEF Segregate, HURow
  <2>5. unitStatus' \in [Units -> {"AVAILABLE", "RESERVED", "OCCUPIED"}]
    BY <1>9 DEF Segregate
  <2>6. events' \subseteq ({"SPACE_RESERVED", "QUALITY_REJECT_SEGREGATED"} \X Keys)
                          \cup ({"INVENTORY_ALLOCATED"} \X (Keys \cup Demands))
    BY <1>9, <2>1 DEF Segregate
  <2> QED
    BY <1>9, <2>2, <2>3, <2>4, <2>5, <2>6
       DEF Segregate, clockVars, bookVars, ledgerVars
<1>10. ASSUME NEW d \in Demands, NEW r \in Requests, NEW key \in Keys \cup {NoKey},
              Allocate(d, r.n, r.short, key)
       PROVE  TypeInv'
  <2>1. alloc' \in [Demands -> [HUs -> Nat]]
    BY <1>10 DEF Allocate
  <2>2. bal' \in [Bins -> Balance]
    BY <1>10, PostingRow DEF Allocate
  <2>3. events' \subseteq ({"SPACE_RESERVED", "QUALITY_REJECT_SEGREGATED"} \X Keys)
                          \cup ({"INVENTORY_ALLOCATED"} \X (Keys \cup Demands))
    <3>1. events' = events \cup {<<"INVENTORY_ALLOCATED", IF key = NoKey THEN d ELSE key>>}
      BY <1>10 DEF Allocate
    <3>2. (IF key = NoKey THEN d ELSE key) \in Keys \cup Demands
      OBVIOUS
    <3> QED
      BY <3>1, <3>2
  <2> QED
    BY <1>10, <2>1, <2>2, <2>3 DEF Allocate, clockVars, floorVars, bookVars
<1>11. ASSUME NEW h \in HUs, NEW reason \in Reasons, Release(h, reason) PROVE TypeInv'
  <2>1. hu' \in [HUs -> HURow]
    BY <1>11, Left DEF Release, Progress
  <2>2. stay' \in [HUs -> StayRow]
    BY <1>11, StayClosed DEF Release
  <2>3. unitStatus' \in [Units -> {"AVAILABLE", "RESERVED", "OCCUPIED"}]
    BY <1>11, StatusType DEF Release
  <2>4. billed' \in [HUs -> [BillKinds -> Nat]]
    BY <1>11 DEF Release, BillKinds
  <2>5. hu[h].unit \in Units \cup {None} /\ stay[h].unit \in Units \cup {None}
    BY DEF HURow, StayRow
  <2>6. request' \in Request /\ RequestOK'
    BY <1>11, <2>5, OwedRow DEF Release, Steps, Owed, Idle
  <2> QED
    BY <1>11, <2>1, <2>2, <2>3, <2>4, <2>6
       DEF Release, clockVars, bookVars, ledgerVars, orderVars
<1>12. CASE PostShipment
  <2>1. request.hu \in HUs /\ stay[request.hu].unit \in Units \cup {None}
    BY <1>12 DEF PostShipment, StayRow
  <2>2. request' \in Request /\ RequestOK'
    BY <1>12, <2>1, OwedRow DEF PostShipment, Steps, Owed, Idle
  <2>3. hu[request.hu].qty \in Nat
    BY <2>1 DEF HURow
  <2>4. bal' \in [Bins -> Balance]
    <3> DEFINE b == BinOf[request.unit]
               row == Shipped(bal[b], hu[request.hu].qty)
    <3>1. b \in Bins => row \in Balance
      BY <2>3, PostingRow
    <3>2. bal' = bal \/ bal' = [bal EXCEPT ![b] = row]
      BY <1>12 DEF PostShipment, ledgerVars
    <3> HIDE DEF row
    <3> QED
      BY <3>1, <3>2
  <2>5. moved' \subseteq [type : {"WMS_RECEIVE", "WMS_SHIP"}, hu : HUs, bin : Bins, qty : Nat]
    BY <1>12, <2>1, <2>3, LayoutAssumption DEF PostShipment, Movement, Request, ledgerVars, None
  <2> QED
    BY <1>12, <2>2, <2>4, <2>5
       DEF PostShipment, clockVars, floorVars, bookVars, ledgerVars, orderVars
<1>13. CASE CloseRelease
  <2>1. res' \subseteq ResRow
    BY <1>13, BookingRow DEF CloseRelease, Booking
  <2>2. alloc' \in [Demands -> [HUs -> Nat]]
    BY <1>13 DEF CloseRelease
  <2>3. request' \in Request /\ RequestOK'
    BY <1>13, EmptyRows DEF CloseRelease, Idle
  <2> QED
    BY <1>13, <2>1, <2>2, <2>3 DEF CloseRelease, clockVars, floorVars, ledgerVars
<1>14. CASE Abort
  BY <1>14, EmptyRows
     DEF Abort, Idle, clockVars, floorVars, bookVars, ledgerVars, orderVars
<1>15. ASSUME NEW b \in Bins, NEW delta \in Deltas, AdjustStock(b, delta) PROVE TypeInv'
  <2>1. delta \in Int
    BY InputAssumption
  <2>2. bal' \in [Bins -> Balance]
    <3>1. bal[b] \in Balance /\ bal[b].onHand + delta \in Int
      BY <2>1, BalanceColumns
    <3>2. Counted(bal[b], bal[b].onHand + delta) \in Balance
      BY <3>1, CountedRow
    <3> QED
      BY <1>15, <3>2 DEF AdjustStock
  <2>3. adjusted' \in [Bins -> Int]
    BY <1>15, <2>1 DEF AdjustStock
  <2> QED
    BY <1>15, <2>2, <2>3 DEF AdjustStock, clockVars, floorVars, bookVars, orderVars
<1>16. ASSUME NEW active \in ItemStates, UpdateItem(active) PROVE TypeInv'
  BY <1>16, InputAssumption
     DEF UpdateItem, floorVars, bookVars, ledgerVars, orderVars
<1>17. CASE Tick
  BY <1>17, SizeAssumption DEF Tick, floorVars, bookVars, ledgerVars, orderVars
<1> QED
  BY <1>0, <1>1, <1>2, <1>3, <1>4, <1>5, <1>6, <1>7, <1>8, <1>9, <1>10, <1>11, <1>12,
     <1>13, <1>14, <1>15, <1>16, <1>17 DEF Next

(* Whatever handlers run, and wherever they are cut off, every table holds  *)
(* what its columns and CHECK constraints allow.                           *)
THEOREM TypeCorrect == Spec => []TypeOK
<1>1. TypeInv => TypeOK
  BY DEF TypeInv
<1> QED
  BY <1>1, TypeInit, TypeNext, PTL DEF Spec

-----------------------------------------------------------------------------
(* Rows are created in order, and a row that is not created yet is empty.  *)
FreshRows ==
  \A h \in HUs : h >= nextHU => hu[h] = NoHU /\ stay[h] = NoStay /\ h \notin inspecting

(* Between the two transactions of a split the rejected part is on hold,   *)
(* has no stay, and its destination is still free: the request in progress *)
(* keeps every other handler out.                                          *)
PendingSplit ==
  request.step = "segregate" =>
    LET c == request.child
    IN /\ c < nextHU /\ stay[c] = NoStay
       /\ hu[c].status = "HOLD" /\ hu[c].inv = "REJECTED" /\ hu[c].parent # None
       /\ ~Occupied(request.unit)

(* What is inspected has no outcome yet; what was shipped was accepted.    *)
QualityAgrees ==
  \A h \in HUs : /\ h \in inspecting => hu[h].inv = "RECEIVED_NOT_INSPECTED"
                 /\ hu[h].status = "SHIPPED" => hu[h].inv = "AVAILABLE"

FloorInv ==
  /\ TypeInv /\ FreshRows /\ PendingSplit /\ QualityAgrees
  /\ OneStayPerPosition /\ PositionsAgree
  /\ NoDoubleBooking /\ StayRespectsBookings /\ BilledOnce

(* Steps that touch neither the floor, nor the bookings, nor the bills.     *)
Quiet ==
  /\ UNCHANGED <<unitStatus, hu, nextHU, stay, inspecting, res, billed>>
  /\ request' = request \/ request'.step # "segregate"

LEMMA Steps8 ==
  ASSUME TypeInv, [Next]_vars
  PROVE  \/ Quiet
         \/ \E c \in Customers, w \in Windows, key \in Keys \cup {NoKey} : Reserve(c, w, key)
         \/ \E u \in Units, c \in Customers, kind \in Kinds, plan \in Plans :
              CheckIn(u, c, kind, plan)
         \/ ActivateReservations
         \/ \E h \in HUs, accepted \in BOOLEAN : DecideWhole(h, accepted)
         \/ \E h \in HUs, dest \in Units, key \in Keys \cup {NoKey} :
              \E accepted \in 1..hu[h].qty : DecideSplit(h, accepted, dest, key)
         \/ Segregate
         \/ \E h \in HUs, reason \in Reasons : Release(h, reason)
         \/ CloseRelease
<1> USE DEF clockVars, floorVars, bookVars, ledgerVars, orderVars
<1>0. UNCHANGED vars => Quiet
  BY DEF vars, Quiet
<1>1. \A u \in Units : CreateUnit(u) => Quiet
  BY DEF CreateUnit, Quiet
<1>2. \A last \in Bins : SyncBins(last) => Quiet
  BY DEF SyncBins, Quiet
<1>3. PostReceipt => Quiet
  BY DEF PostReceipt, Quiet, Idle
<1>4. \A d \in Demands, r \in Requests, key \in Keys \cup {NoKey} :
        Allocate(d, r.n, r.short, key) => Quiet
  BY DEF Allocate, Quiet
<1>5. PostShipment => Quiet
  BY DEF PostShipment, Quiet, Owed, Idle
<1>6. Abort => Quiet
  BY DEF Abort, Quiet, Idle
<1>7. \A b \in Bins, delta \in Deltas : AdjustStock(b, delta) => Quiet
  BY DEF AdjustStock, Quiet
<1>8. \A active \in ItemStates : UpdateItem(active) => Quiet
  BY DEF UpdateItem, Quiet
<1>9. Tick => Quiet
  BY DEF Tick, Quiet
<1> QED
  BY <1>0, <1>1, <1>2, <1>3, <1>4, <1>5, <1>6, <1>7, <1>8, <1>9 DEF Next

-----------------------------------------------------------------------------
(* What each of the other handlers does to the rows, column by column.     *)

LEMMA CheckInEffect ==
  ASSUME TypeInv, FreshRows, NEW u \in Units, NEW c \in Customers, NEW kind \in Kinds,
         NEW plan \in Plans, CheckIn(u, c, kind, plan)
  PROVE  /\ nextHU \in HUs /\ nextHU' = nextHU + 1
         /\ \A h \in HUs \ {nextHU} :
              hu'[h] = hu[h] /\ stay'[h] = stay[h] /\ billed'[h] = billed[h]
         /\ stay[nextHU] = NoStay /\ hu[nextHU] = NoHU
         /\ hu'[nextHU].unit = u /\ hu'[nextHU].owner = c /\ hu'[nextHU].parent = None
         /\ hu'[nextHU].status = "RECEIVED"
         /\ kind.qc => hu'[nextHU].inv = "RECEIVED_NOT_INSPECTED"
         /\ stay'[nextHU].status = "ACTIVE" /\ stay'[nextHU].unit = u
         /\ stay'[nextHU].from = now /\ stay'[nextHU].until = plan.until
         /\ unitStatus' = [unitStatus EXCEPT ![u] = "OCCUPIED"]
         /\ inspecting' = (IF kind.qc THEN inspecting \cup {nextHU} ELSE inspecting)
         /\ billed'[nextHU]["RECEIVING"] = billed[nextHU]["RECEIVING"] + 1
         /\ billed'[nextHU]["STORAGE"] = billed[nextHU]["STORAGE"]
         /\ billed'[nextHU]["OUTBOUND"] = billed[nextHU]["OUTBOUND"]
         /\ ~Occupied(u) /\ res' = res /\ request'.step # "segregate"
         /\ \A r \in BookedDuring(u, now, plan.until) : r.cust = c
<1> USE DEF TypeInv, TypeOK
<1>1. nextHU \in HUs /\ nextHU' = nextHU + 1
  BY SizeAssumption DEF CheckIn, HUs
<1>2. \A h \in HUs \ {nextHU} :
        hu'[h] = hu[h] /\ stay'[h] = stay[h] /\ billed'[h] = billed[h]
  BY DEF CheckIn
<1>3. stay[nextHU] = NoStay /\ hu[nextHU] = NoHU
  BY <1>1 DEF FreshRows, HUs
<1>4. /\ hu'[nextHU].unit = u /\ hu'[nextHU].owner = c /\ hu'[nextHU].parent = None
      /\ hu'[nextHU].status = "RECEIVED"
      /\ kind.qc => hu'[nextHU].inv = "RECEIVED_NOT_INSPECTED"
  BY <1>1 DEF CheckIn
<1>5. /\ stay'[nextHU].status = "ACTIVE" /\ stay'[nextHU].unit = u
      /\ stay'[nextHU].from = now /\ stay'[nextHU].until = plan.until
  BY <1>1 DEF CheckIn
<1>6. /\ billed'[nextHU]["RECEIVING"] = billed[nextHU]["RECEIVING"] + 1
      /\ billed'[nextHU]["STORAGE"] = billed[nextHU]["STORAGE"]
      /\ billed'[nextHU]["OUTBOUND"] = billed[nextHU]["OUTBOUND"]
  BY <1>1 DEF CheckIn, BillKinds
<1>7. request'.step # "segregate"
  BY DEF CheckIn, ReceiptOwed, Owed, Idle
<1>8. /\ unitStatus' = [unitStatus EXCEPT ![u] = "OCCUPIED"]
      /\ inspecting' = (IF kind.qc THEN inspecting \cup {nextHU} ELSE inspecting)
      /\ ~Occupied(u) /\ res' = res
      /\ \A r \in BookedDuring(u, now, plan.until) : r.cust = c
  BY DEF CheckIn, bookVars
<1> QED
  BY <1>1, <1>2, <1>3, <1>4, <1>5, <1>6, <1>7, <1>8

LEMMA DecideWholeEffect ==
  ASSUME TypeInv, NEW h \in HUs, NEW accepted \in BOOLEAN, DecideWhole(h, accepted)
  PROVE  /\ h \in inspecting /\ inspecting' = inspecting \ {h}
         /\ \A g \in HUs \ {h} : hu'[g] = hu[g]
         /\ hu'[h].unit = hu[h].unit /\ hu'[h].owner = hu[h].owner
         /\ hu'[h].parent = hu[h].parent
         /\ hu'[h].status \in {"RECEIVED", "HOLD"}
         /\ UNCHANGED <<unitStatus, nextHU, stay, res, billed>>
         /\ request'.step # "segregate"
<1> USE DEF TypeInv, TypeOK
<1>1. hu[h] \in HURow
  OBVIOUS
<1>2. /\ hu'[h].unit = hu[h].unit /\ hu'[h].owner = hu[h].owner
      /\ hu'[h].parent = hu[h].parent /\ hu'[h].status \in {"RECEIVED", "HOLD"}
  BY <1>1 DEF DecideWhole, HURow
<1>3. request'.step # "segregate"
  BY DEF DecideWhole, ReceiptOwed, Owed, Idle
<1> QED
  BY <1>2, <1>3 DEF DecideWhole, bookVars

LEMMA DecideSplitEffect ==
  ASSUME TypeInv, FreshRows, NEW h \in HUs, NEW dest \in Units, NEW key \in Keys \cup {NoKey},
         NEW accepted \in 1..hu[h].qty, DecideSplit(h, accepted, dest, key)
  PROVE  /\ nextHU \in HUs /\ nextHU' = nextHU + 1 /\ h # nextHU
         /\ h \in inspecting /\ inspecting' = inspecting \ {h}
         /\ \A g \in HUs \ {h, nextHU} : hu'[g] = hu[g]
         /\ stay[nextHU] = NoStay
         /\ hu'[h].unit = hu[h].unit /\ hu'[h].owner = hu[h].owner
         /\ hu'[h].parent = hu[h].parent /\ hu'[h].status = "RECEIVED"
         /\ hu'[nextHU].parent # None /\ hu'[nextHU].status = "HOLD"
         /\ hu'[nextHU].inv = "REJECTED"
         /\ UNCHANGED <<unitStatus, stay, res, billed>>
         /\ request'.step = "segregate" /\ request'.child = nextHU
         /\ request'.unit = dest /\ ~Occupied(dest)
<1> USE DEF TypeInv, TypeOK
<1>1. hu[h] \in HURow /\ nextHU \in HUs /\ nextHU' = nextHU + 1
  BY SizeAssumption DEF DecideSplit, HUs
<1>2. h \in inspecting /\ h # nextHU /\ stay[nextHU] = NoStay
  BY <1>1 DEF DecideSplit, FreshRows, HUs
<1>3. /\ hu'[h].unit = hu[h].unit /\ hu'[h].owner = hu[h].owner
      /\ hu'[h].parent = hu[h].parent /\ hu'[h].status = "RECEIVED"
  BY <1>1, <1>2 DEF DecideSplit, HURow
<1>4. /\ hu'[nextHU].parent # None /\ hu'[nextHU].status = "HOLD"
      /\ hu'[nextHU].inv = "REJECTED"
  BY <1>1, <1>2 DEF DecideSplit, HURow, HUs, None
<1> QED
  BY <1>1, <1>2, <1>3, <1>4 DEF DecideSplit, bookVars

LEMMA SegregateEffect ==
  ASSUME TypeInv, Segregate
  PROVE  /\ request.step = "segregate"
         /\ request.child \in HUs /\ request.unit \in Units
         /\ \A g \in HUs \ {request.child} : hu'[g] = hu[g] /\ stay'[g] = stay[g]
         /\ hu'[request.child].unit = request.unit
         /\ hu'[request.child].status = hu[request.child].status
         /\ hu'[request.child].inv = hu[request.child].inv
         /\ hu'[request.child].parent = hu[request.child].parent
         /\ stay'[request.child].status = "ACTIVE"
         /\ stay'[request.child].unit = request.unit
         /\ unitStatus' = [unitStatus EXCEPT ![request.unit] = "OCCUPIED"]
         /\ UNCHANGED <<nextHU, inspecting, res, billed>>
         /\ request'.step # "segregate"
<1> USE DEF TypeInv, TypeOK
<1>1. /\ request.step = "segregate" /\ request.child \in HUs /\ request.unit \in Units
      /\ hu[request.child] \in HURow
  BY DEF Segregate, RequestOK
<1>2. /\ hu'[request.child].unit = request.unit
      /\ hu'[request.child].status = hu[request.child].status
      /\ hu'[request.child].inv = hu[request.child].inv
      /\ hu'[request.child].parent = hu[request.child].parent
  BY <1>1 DEF Segregate, HURow
<1>3. stay'[request.child].status = "ACTIVE" /\ stay'[request.child].unit = request.unit
  BY <1>1 DEF Segregate
<1>4. request'.step # "segregate"
  BY DEF Segregate, ReceiptOwed, Owed, Idle
<1> QED
  BY <1>1, <1>2, <1>3, <1>4 DEF Segregate, bookVars

LEMMA ReleaseEffect ==
  ASSUME TypeInv, NEW h \in HUs, NEW reason \in Reasons, Release(h, reason)
  PROVE  /\ \A g \in HUs \ {h} :
              hu'[g] = hu[g] /\ stay'[g] = stay[g] /\ billed'[g] = billed[g]
         /\ stay[h].status = "ACTIVE" /\ stay'[h].status = "CLOSED"
         /\ hu'[h].status \in {"SHIPPED", "RELEASED"} /\ hu'[h].parent = hu[h].parent
         /\ hu'[h].inv = hu[h].inv
         /\ hu'[h].status = "SHIPPED" => hu[h].inv = "AVAILABLE"
         /\ unitStatus' = [unitStatus EXCEPT ![stay[h].unit] = StatusOf(stay[h].unit, stay', res)]
         /\ billed'[h]["STORAGE"] = billed[h]["STORAGE"] + 1
         /\ billed'[h]["OUTBOUND"] = billed[h]["OUTBOUND"] + 1
         /\ billed'[h]["RECEIVING"] = billed[h]["RECEIVING"]
         /\ UNCHANGED <<nextHU, inspecting, res>>
         /\ request'.step # "segregate"
<1> USE DEF TypeInv, TypeOK
<1>1. hu[h] \in HURow /\ stay[h] \in StayRow
  OBVIOUS
<1>2. stay[h].status = "ACTIVE" /\ stay'[h].status = "CLOSED"
  BY <1>1 DEF Release, HasStay, StayRow
<1>3. /\ hu'[h].status \in {"SHIPPED", "RELEASED"} /\ hu'[h].parent = hu[h].parent
      /\ hu'[h].inv = hu[h].inv
      /\ hu'[h].status = "SHIPPED" => hu[h].inv = "AVAILABLE"
  BY <1>1 DEF Release, Shippable, HURow
<1>4. /\ billed'[h]["STORAGE"] = billed[h]["STORAGE"] + 1
      /\ billed'[h]["OUTBOUND"] = billed[h]["OUTBOUND"] + 1
      /\ billed'[h]["RECEIVING"] = billed[h]["RECEIVING"]
  BY DEF Release, BillKinds
<1>5. request'.step # "segregate"
  BY DEF Release, Owed, Idle
<1> QED
  BY <1>2, <1>3, <1>4, <1>5 DEF Release, bookVars

-----------------------------------------------------------------------------
(* Every part of the invariant is preserved by every step.                 *)

LEMMA Ids ==
  ASSUME TypeInv
  PROVE  nextHU \in Nat /\ HUs \subseteq Nat
  BY DEF TypeInv, TypeOK, HUs

LEMMA Later ==
  ASSUME TypeInv, nextHU' = nextHU + 1
  PROVE  \A g \in HUs : g >= nextHU' => g # nextHU /\ g >= nextHU
<1>1. nextHU \in Nat /\ \A g \in HUs : g \in Nat
  BY Ids
<1> QED
  BY <1>1

LEMMA FreshNext == FloorInv /\ [Next]_vars => FreshRows'
<1> SUFFICES ASSUME FloorInv, [Next]_vars PROVE FreshRows'
  OBVIOUS
<1> USE DEF FloorInv
<1>0. CASE Quiet
  BY <1>0 DEF Quiet, FreshRows
<1>1. ASSUME NEW c \in Customers, NEW w \in Windows, NEW key \in Keys \cup {NoKey},
             Reserve(c, w, key)
      PROVE  FreshRows'
  BY <1>1 DEF Reserve, FreshRows
<1>2. ASSUME NEW u \in Units, NEW c \in Customers, NEW kind \in Kinds,
             NEW plan \in Plans, CheckIn(u, c, kind, plan)
      PROVE  FreshRows'
  <2>1. /\ nextHU' = nextHU + 1
        /\ \A h \in HUs \ {nextHU} : hu'[h] = hu[h] /\ stay'[h] = stay[h]
        /\ inspecting' \subseteq inspecting \cup {nextHU}
    BY <1>2, CheckInEffect
  <2>2. \A h \in HUs : h >= nextHU' => h # nextHU /\ h >= nextHU
    BY <2>1, Later
  <2> QED
    BY <2>1, <2>2 DEF FreshRows
<1>3. CASE ActivateReservations
  BY <1>3 DEF ActivateReservations, floorVars, FreshRows
<1>4. ASSUME NEW h \in HUs, NEW accepted \in BOOLEAN, DecideWhole(h, accepted)
      PROVE  FreshRows'
  BY <1>4, DecideWholeEffect DEF FreshRows
<1>5. ASSUME NEW h \in HUs, NEW dest \in Units, NEW key \in Keys \cup {NoKey},
             NEW accepted \in 1..hu[h].qty, DecideSplit(h, accepted, dest, key)
      PROVE  FreshRows'
  <2>1. /\ nextHU' = nextHU + 1 /\ h \in inspecting
        /\ \A g \in HUs \ {h, nextHU} : hu'[g] = hu[g]
        /\ stay' = stay /\ inspecting' \subseteq inspecting
    BY <1>5, DecideSplitEffect
  <2>2. \A g \in HUs : g >= nextHU' => g # nextHU /\ g >= nextHU
    BY <2>1, Later
  <2>3. \A g \in HUs : g >= nextHU => g # h
    BY <2>1 DEF FreshRows
  <2> QED
    BY <2>1, <2>2, <2>3 DEF FreshRows
<1>6. CASE Segregate
  <2>1. nextHU \in Nat /\ HUs \subseteq Nat
    BY Ids
  <2>2. request.child \in HUs /\ request.child < nextHU
    BY <1>6, SegregateEffect DEF PendingSplit
  <2>3. \A h \in HUs : h >= nextHU => h # request.child
    BY <2>1, <2>2
  <2> QED
    BY <1>6, <2>3, SegregateEffect DEF FreshRows
<1>7. ASSUME NEW h \in HUs, NEW reason \in Reasons, Release(h, reason) PROVE FreshRows'
  <2>1. \A g \in HUs : g >= nextHU => g # h
    BY <1>7, ReleaseEffect DEF FreshRows, NoStay
  <2> QED
    BY <1>7, <2>1, ReleaseEffect DEF FreshRows
<1>8. CASE CloseRelease
  BY <1>8 DEF CloseRelease, floorVars, FreshRows
<1> QED
  BY <1>0, <1>1, <1>2, <1>3, <1>4, <1>5, <1>6, <1>7, <1>8, Steps8

LEMMA PendingNext == FloorInv /\ [Next]_vars => PendingSplit'
<1> SUFFICES ASSUME FloorInv, [Next]_vars PROVE PendingSplit'
  OBVIOUS
<1> USE DEF FloorInv
<1>0. CASE Quiet
  BY <1>0 DEF Quiet, PendingSplit, Occupied, StayAt
<1>1. ASSUME NEW c \in Customers, NEW w \in Windows, NEW key \in Keys \cup {NoKey},
             Reserve(c, w, key)
      PROVE  PendingSplit'
  BY <1>1 DEF Reserve, PendingSplit, Idle
<1>2. ASSUME NEW u \in Units, NEW c \in Customers, NEW kind \in Kinds,
             NEW plan \in Plans, CheckIn(u, c, kind, plan)
      PROVE  PendingSplit'
  BY <1>2, CheckInEffect DEF PendingSplit
<1>3. CASE ActivateReservations
  BY <1>3 DEF ActivateReservations, ReceiptOwed, Owed, Idle, PendingSplit
<1>4. ASSUME NEW h \in HUs, NEW accepted \in BOOLEAN, DecideWhole(h, accepted)
      PROVE  PendingSplit'
  BY <1>4, DecideWholeEffect DEF PendingSplit
<1>5. ASSUME NEW h \in HUs, NEW dest \in Units, NEW key \in Keys \cup {NoKey},
             NEW accepted \in 1..hu[h].qty, DecideSplit(h, accepted, dest, key)
      PROVE  PendingSplit'
  <2>1. nextHU < nextHU'
    BY <1>5, DecideSplitEffect, Ids
  <2>2. Occupied(dest)' = Occupied(dest)
    BY <1>5, DecideSplitEffect DEF Occupied, StayAt
  <2>3. /\ request'.child = nextHU /\ request'.unit = dest /\ ~Occupied(dest)
        /\ stay'[nextHU] = NoStay /\ hu'[nextHU].status = "HOLD" /\ hu'[nextHU].parent # None
        /\ hu'[nextHU].inv = "REJECTED"
    BY <1>5, DecideSplitEffect
  <2> QED
    BY <2>1, <2>2, <2>3 DEF PendingSplit, Occupied, StayAt
<1>6. CASE Segregate
  BY <1>6, SegregateEffect DEF PendingSplit
<1>7. ASSUME NEW h \in HUs, NEW reason \in Reasons, Release(h, reason) PROVE PendingSplit'
  BY <1>7, ReleaseEffect DEF PendingSplit
<1>8. CASE CloseRelease
  BY <1>8 DEF CloseRelease, Idle, PendingSplit
<1> QED
  BY <1>0, <1>1, <1>2, <1>3, <1>4, <1>5, <1>6, <1>7, <1>8, Steps8

LEMMA QualityNext == FloorInv /\ [Next]_vars => QualityAgrees'
<1> SUFFICES ASSUME FloorInv, [Next]_vars PROVE QualityAgrees'
  OBVIOUS
<1> USE DEF FloorInv
<1>0. CASE Quiet
  BY <1>0 DEF Quiet, QualityAgrees
<1>1. ASSUME NEW c \in Customers, NEW w \in Windows, NEW key \in Keys \cup {NoKey},
             Reserve(c, w, key)
      PROVE  QualityAgrees'
  BY <1>1 DEF Reserve, QualityAgrees
<1>2. ASSUME NEW u \in Units, NEW c \in Customers, NEW kind \in Kinds,
             NEW plan \in Plans, CheckIn(u, c, kind, plan)
      PROVE  QualityAgrees'
  <2>1. nextHU \in HUs /\ nextHU \notin inspecting
    BY <1>2, CheckInEffect, Ids DEF FreshRows
  <2>2. hu'[nextHU].status = "RECEIVED" /\ (kind.qc => hu'[nextHU].inv = "RECEIVED_NOT_INSPECTED")
    BY <1>2, CheckInEffect
  <2>3. inspecting' = (IF kind.qc THEN inspecting \cup {nextHU} ELSE inspecting)
    BY <1>2, CheckInEffect
  <2>4. \A h \in HUs \ {nextHU} : hu'[h] = hu[h]
    BY <1>2, CheckInEffect
  <2> QED
    BY <2>1, <2>2, <2>3, <2>4 DEF QualityAgrees
<1>3. CASE ActivateReservations
  BY <1>3 DEF ActivateReservations, floorVars, QualityAgrees
<1>4. ASSUME NEW h \in HUs, NEW accepted \in BOOLEAN, DecideWhole(h, accepted)
      PROVE  QualityAgrees'
  BY <1>4, DecideWholeEffect DEF QualityAgrees
<1>5. ASSUME NEW h \in HUs, NEW dest \in Units, NEW key \in Keys \cup {NoKey},
             NEW accepted \in 1..hu[h].qty, DecideSplit(h, accepted, dest, key)
      PROVE  QualityAgrees'
  <2>1. nextHU \in HUs /\ nextHU \notin inspecting
    BY <1>5, DecideSplitEffect, Ids DEF FreshRows
  <2>2. hu'[nextHU].status = "HOLD" /\ hu'[h].status = "RECEIVED"
    BY <1>5, DecideSplitEffect
  <2>3. inspecting' = inspecting \ {h} /\ \A g \in HUs \ {h, nextHU} : hu'[g] = hu[g]
    BY <1>5, DecideSplitEffect
  <2> QED
    BY <2>1, <2>2, <2>3 DEF QualityAgrees
<1>6. CASE Segregate
  BY <1>6, SegregateEffect DEF QualityAgrees
<1>7. ASSUME NEW h \in HUs, NEW reason \in Reasons, Release(h, reason) PROVE QualityAgrees'
  BY <1>7, ReleaseEffect DEF QualityAgrees
<1>8. CASE CloseRelease
  BY <1>8 DEF CloseRelease, floorVars, QualityAgrees
<1> QED
  BY <1>0, <1>1, <1>2, <1>3, <1>4, <1>5, <1>6, <1>7, <1>8, Steps8

LEMMA OneStayNext == FloorInv /\ [Next]_vars => OneStayPerPosition'
<1> SUFFICES ASSUME FloorInv, [Next]_vars PROVE OneStayPerPosition'
  OBVIOUS
<1> USE DEF FloorInv
<1>0. CASE Quiet
  BY <1>0 DEF Quiet, OneStayPerPosition, StayAt
<1>1. ASSUME NEW c \in Customers, NEW w \in Windows, NEW key \in Keys \cup {NoKey},
             Reserve(c, w, key)
      PROVE  OneStayPerPosition'
  BY <1>1 DEF Reserve, OneStayPerPosition, StayAt
<1>2. ASSUME NEW u \in Units, NEW c \in Customers, NEW kind \in Kinds,
             NEW plan \in Plans, CheckIn(u, c, kind, plan)
      PROVE  OneStayPerPosition'
  BY <1>2, CheckInEffect DEF OneStayPerPosition, StayAt, Occupied
<1>3. CASE ActivateReservations
  BY <1>3 DEF ActivateReservations, floorVars, OneStayPerPosition, StayAt
<1>4. ASSUME NEW h \in HUs, NEW accepted \in BOOLEAN, DecideWhole(h, accepted)
      PROVE  OneStayPerPosition'
  BY <1>4, DecideWholeEffect DEF OneStayPerPosition, StayAt
<1>5. ASSUME NEW h \in HUs, NEW dest \in Units, NEW key \in Keys \cup {NoKey},
             NEW accepted \in 1..hu[h].qty, DecideSplit(h, accepted, dest, key)
      PROVE  OneStayPerPosition'
  BY <1>5, DecideSplitEffect DEF OneStayPerPosition, StayAt
<1>6. CASE Segregate
  BY <1>6, SegregateEffect DEF OneStayPerPosition, StayAt, Occupied, PendingSplit
<1>7. ASSUME NEW h \in HUs, NEW reason \in Reasons, Release(h, reason) PROVE OneStayPerPosition'
  BY <1>7, ReleaseEffect DEF OneStayPerPosition, StayAt
<1>8. CASE CloseRelease
  BY <1>8 DEF CloseRelease, floorVars, OneStayPerPosition, StayAt
<1> QED
  BY <1>0, <1>1, <1>2, <1>3, <1>4, <1>5, <1>6, <1>7, <1>8, Steps8

LEMMA PositionsNext == FloorInv /\ [Next]_vars => PositionsAgree'
<1> SUFFICES ASSUME FloorInv, [Next]_vars PROVE PositionsAgree'
  OBVIOUS
<1> USE DEF FloorInv
<1>0. CASE Quiet
  BY <1>0 DEF Quiet, PositionsAgree, Occupied, StayAt
<1>1. ASSUME NEW c \in Customers, NEW w \in Windows, NEW key \in Keys \cup {NoKey},
             Reserve(c, w, key)
      PROVE  PositionsAgree'
  BY <1>1 DEF Reserve, StatusOf, PositionsAgree, Occupied, StayAt, TypeInv, TypeOK
<1>2. ASSUME NEW u \in Units, NEW c \in Customers, NEW kind \in Kinds,
             NEW plan \in Plans, CheckIn(u, c, kind, plan)
      PROVE  PositionsAgree'
  <2>1. /\ nextHU \in HUs /\ stay[nextHU].status = "NONE"
        /\ \A h \in HUs \ {nextHU} : hu'[h] = hu[h] /\ stay'[h] = stay[h]
        /\ hu'[nextHU].unit = u /\ hu'[nextHU].status = "RECEIVED"
        /\ stay'[nextHU].status = "ACTIVE" /\ stay'[nextHU].unit = u
        /\ unitStatus' = [unitStatus EXCEPT ![u] = "OCCUPIED"]
    BY <1>2, CheckInEffect DEF NoStay
  <2>2. \A v \in Units : Occupied(v)' <=> v = u \/ Occupied(v)
    BY <2>1 DEF Occupied, StayAt
  <2>3. \A v \in Units : unitStatus'[v] = IF v = u THEN "OCCUPIED" ELSE unitStatus[v]
    BY <2>1 DEF TypeInv, TypeOK
  <2>4. \A v \in Units : unitStatus'[v] = "OCCUPIED" <=> Occupied(v)'
    BY <2>2, <2>3 DEF PositionsAgree
  <2>5. \A h \in HUs : stay'[h].status = "ACTIVE" =>
          hu'[h].unit = stay'[h].unit /\ hu'[h].status \in {"RECEIVED", "HOLD"}
    BY <2>1 DEF PositionsAgree
  <2> QED
    BY <2>4, <2>5 DEF PositionsAgree
<1>3. CASE ActivateReservations
  BY <1>3 DEF ActivateReservations, floorVars, PositionsAgree, Occupied, StayAt
<1>4. ASSUME NEW h \in HUs, NEW accepted \in BOOLEAN, DecideWhole(h, accepted)
      PROVE  PositionsAgree'
  BY <1>4, DecideWholeEffect DEF PositionsAgree, Occupied, StayAt
<1>5. ASSUME NEW h \in HUs, NEW dest \in Units, NEW key \in Keys \cup {NoKey},
             NEW accepted \in 1..hu[h].qty, DecideSplit(h, accepted, dest, key)
      PROVE  PositionsAgree'
  <2>1. /\ stay' = stay /\ unitStatus' = unitStatus /\ stay[nextHU].status = "NONE"
        /\ hu'[h].unit = hu[h].unit /\ hu'[h].status = "RECEIVED"
        /\ \A g \in HUs \ {h, nextHU} : hu'[g] = hu[g]
    BY <1>5, DecideSplitEffect DEF NoStay
  <2> QED
    BY <2>1 DEF PositionsAgree, Occupied, StayAt
<1>6. CASE Segregate
  <2> DEFINE c == request.child
             u == request.unit
  <2>1. /\ c \in HUs /\ u \in Units /\ stay[c].status = "NONE"
        /\ \A h \in HUs \ {c} : hu'[h] = hu[h] /\ stay'[h] = stay[h]
        /\ hu'[c].unit = u /\ hu'[c].status = "HOLD"
        /\ stay'[c].status = "ACTIVE" /\ stay'[c].unit = u
        /\ unitStatus' = [unitStatus EXCEPT ![u] = "OCCUPIED"]
    BY <1>6, SegregateEffect DEF NoStay, PendingSplit
  <2> HIDE DEF c, u
  <2>2. \A v \in Units : Occupied(v)' <=> v = u \/ Occupied(v)
    BY <2>1 DEF Occupied, StayAt
  <2>3. \A v \in Units : unitStatus'[v] = IF v = u THEN "OCCUPIED" ELSE unitStatus[v]
    BY <2>1 DEF TypeInv, TypeOK
  <2>4. \A v \in Units : unitStatus'[v] = "OCCUPIED" <=> Occupied(v)'
    BY <2>2, <2>3 DEF PositionsAgree
  <2>5. \A h \in HUs : stay'[h].status = "ACTIVE" =>
          hu'[h].unit = stay'[h].unit /\ hu'[h].status \in {"RECEIVED", "HOLD"}
    BY <2>1 DEF PositionsAgree
  <2> QED
    BY <2>4, <2>5 DEF PositionsAgree
<1>7. ASSUME NEW h \in HUs, NEW reason \in Reasons, Release(h, reason) PROVE PositionsAgree'
  <2>0. PICK u : u = stay[h].unit
    OBVIOUS
  <2>1. /\ \A g \in HUs \ {h} : hu'[g] = hu[g] /\ stay'[g] = stay[g]
        /\ stay'[h].status = "CLOSED" /\ stay[h].status = "ACTIVE"
        /\ unitStatus' = [unitStatus EXCEPT ![u] = StatusOf(u, stay', res)]
    BY <1>7, <2>0, ReleaseEffect
  <2>2. \A v \in Units : unitStatus'[v] = IF v = u THEN StatusOf(u, stay', res) ELSE unitStatus[v]
    BY <2>1 DEF TypeInv, TypeOK
  <2>3. StatusOf(u, stay', res) = "OCCUPIED" <=> Occupied(u)'
    BY DEF StatusOf, Occupied, StayAt
  <2>4. \A v \in Units : v # u => (Occupied(v)' <=> Occupied(v))
    BY <2>0, <2>1 DEF Occupied, StayAt
  <2>5. \A v \in Units : unitStatus'[v] = "OCCUPIED" <=> Occupied(v)'
    BY <2>2, <2>3, <2>4 DEF PositionsAgree
  <2>6. \A g \in HUs : stay'[g].status = "ACTIVE" =>
          hu'[g].unit = stay'[g].unit /\ hu'[g].status \in {"RECEIVED", "HOLD"}
    BY <2>1 DEF PositionsAgree
  <2> QED
    BY <2>5, <2>6 DEF PositionsAgree
<1>8. CASE CloseRelease
  BY <1>8 DEF CloseRelease, floorVars, PositionsAgree, Occupied, StayAt
<1> QED
  BY <1>0, <1>1, <1>2, <1>3, <1>4, <1>5, <1>6, <1>7, <1>8, Steps8

(* Activation rewrites the status of the live rows it takes, and no more.  *)
SameBooking(r, x) ==
  x.unit = r.unit /\ x.cust = r.cust /\ x.from = r.from /\ x.until = r.until
Activated(x) ==
  IF x \in BookedDuring(stay[request.hu].unit, stay[request.hu].from, stay[request.hu].until)
  THEN [x EXCEPT !.status = "ACTIVE"] ELSE x

LEMMA ActivateEffect ==
  ASSUME TypeInv, ActivateReservations, NEW r \in res', Live(r)
  PROVE  \E x \in res : Live(x) /\ SameBooking(r, x) /\ r = Activated(x)
<1> DEFINE taken == BookedDuring(stay[request.hu].unit, stay[request.hu].from,
                                 stay[request.hu].until)
<1>1. r \in res \ taken \/ \E x \in taken : r = [x EXCEPT !.status = "ACTIVE"]
  BY DEF ActivateReservations
<1>2. CASE r \in res \ taken
  BY <1>2 DEF Activated, SameBooking
<1>3. CASE \E x \in taken : r = [x EXCEPT !.status = "ACTIVE"]
  <2>1. PICK x \in taken : r = [x EXCEPT !.status = "ACTIVE"]
    BY <1>3
  <2>2. x \in res /\ Live(x) /\ r = Activated(x)
    BY <2>1 DEF BookedDuring, Activated
  <2>3. x \in ResRow
    BY <2>2 DEF TypeInv, TypeOK
  <2>4. SameBooking(r, x)
    <3> HIDE DEF taken
    <3> QED
      BY <2>1, <2>3 DEF ResRow, SameBooking
  <2> QED
    BY <2>2, <2>4
<1> QED
  BY <1>1, <1>2, <1>3

(* The end of a release takes live rows away, and no more.                 *)
LEMMA CloseEffect ==
  ASSUME TypeInv, CloseRelease, NEW r \in res', Live(r)
  PROVE  r \in res
<1> SUFFICES ASSUME r \notin res PROVE FALSE
  OBVIOUS
<1>1. PICK x \in res : r = [x EXCEPT !.status = "FULFILLED"]
  BY DEF CloseRelease
<1>2. x \in ResRow
  BY DEF TypeInv, TypeOK
<1>3. r.status = "FULFILLED"
  BY <1>1, <1>2 DEF ResRow
<1> QED
  BY <1>3 DEF Live

LEMMA BookingNext == FloorInv /\ [Next]_vars => NoDoubleBooking'
<1> SUFFICES ASSUME FloorInv, [Next]_vars PROVE NoDoubleBooking'
  OBVIOUS
<1> USE DEF FloorInv
<1>0. CASE Quiet
  BY <1>0 DEF Quiet, NoDoubleBooking
<1>1. ASSUME NEW c \in Customers, NEW w \in Windows, NEW key \in Keys \cup {NoKey},
             Reserve(c, w, key)
      PROVE  NoDoubleBooking'
  BY <1>1 DEF Reserve, Bookable, NoDoubleBooking, Overlap
<1>2. ASSUME NEW u \in Units, NEW c \in Customers, NEW kind \in Kinds,
             NEW plan \in Plans, CheckIn(u, c, kind, plan)
      PROVE  NoDoubleBooking'
  BY <1>2, CheckInEffect DEF NoDoubleBooking
<1>3. CASE ActivateReservations
  <2> SUFFICES ASSUME NEW r \in res', NEW s \in res', r # s, Live(r), Live(s),
                      r.unit = s.unit
               PROVE  ~Overlap(r.from, r.until, s.from, s.until)
    BY DEF NoDoubleBooking
  <2>1. PICK x \in res : Live(x) /\ SameBooking(r, x) /\ r = Activated(x)
    BY <1>3, ActivateEffect
  <2>2. PICK y \in res : Live(y) /\ SameBooking(s, y) /\ s = Activated(y)
    BY <1>3, ActivateEffect
  <2>3. x # y
    BY <2>1, <2>2
  <2> QED
    BY <2>1, <2>2, <2>3 DEF NoDoubleBooking, SameBooking
<1>4. ASSUME NEW h \in HUs, NEW accepted \in BOOLEAN, DecideWhole(h, accepted)
      PROVE  NoDoubleBooking'
  BY <1>4, DecideWholeEffect DEF NoDoubleBooking
<1>5. ASSUME NEW h \in HUs, NEW dest \in Units, NEW key \in Keys \cup {NoKey},
             NEW accepted \in 1..hu[h].qty, DecideSplit(h, accepted, dest, key)
      PROVE  NoDoubleBooking'
  BY <1>5, DecideSplitEffect DEF NoDoubleBooking
<1>6. CASE Segregate
  BY <1>6, SegregateEffect DEF NoDoubleBooking
<1>7. ASSUME NEW h \in HUs, NEW reason \in Reasons, Release(h, reason) PROVE NoDoubleBooking'
  BY <1>7, ReleaseEffect DEF NoDoubleBooking
<1>8. CASE CloseRelease
  BY <1>8, CloseEffect DEF NoDoubleBooking
<1> QED
  BY <1>0, <1>1, <1>2, <1>3, <1>4, <1>5, <1>6, <1>7, <1>8, Steps8

LEMMA StayBookingNext == FloorInv /\ [Next]_vars => StayRespectsBookings'
<1> SUFFICES ASSUME FloorInv, [Next]_vars PROVE StayRespectsBookings'
  OBVIOUS
<1> USE DEF FloorInv
<1>0. CASE Quiet
  BY <1>0 DEF Quiet, StayRespectsBookings
<1>1. ASSUME NEW c \in Customers, NEW w \in Windows, NEW key \in Keys \cup {NoKey},
             Reserve(c, w, key)
      PROVE  StayRespectsBookings'
  BY <1>1 DEF Reserve, Bookable, StayRespectsBookings, StayAt
<1>2. ASSUME NEW u \in Units, NEW c \in Customers, NEW kind \in Kinds,
             NEW plan \in Plans, CheckIn(u, c, kind, plan)
      PROVE  StayRespectsBookings'
  <2>1. /\ \A g \in HUs \ {nextHU} : hu'[g] = hu[g] /\ stay'[g] = stay[g]
        /\ hu'[nextHU].owner = c /\ stay'[nextHU].unit = u /\ res' = res
        /\ stay'[nextHU].from = now /\ stay'[nextHU].until = plan.until
        /\ \A r \in BookedDuring(u, now, plan.until) : r.cust = c
    BY <1>2, CheckInEffect
  <2>2. \A r \in res : Live(r) /\ r.unit = u /\ r.cust # c
          => ~(r.until > now /\ r.from < plan.until)
    BY <2>1 DEF BookedDuring
  <2>3. \A r \in res : r.from \in Nat /\ r.until \in Nat
    BY DEF TypeInv, TypeOK, ResRow
  <2>4. now \in Nat /\ plan.until \in Nat
    BY InputAssumption, SizeAssumption DEF TypeInv, TypeOK
  <2>5. \A r \in res : Live(r) /\ r.unit = u /\ r.cust # c
          => r.from >= plan.until \/ r.until <= now
    BY <2>2, <2>3, <2>4
  <2> QED
    BY <2>1, <2>5 DEF StayRespectsBookings, Live
<1>3. CASE ActivateReservations
  <2>1. hu' = hu /\ stay' = stay
    BY <1>3 DEF ActivateReservations, floorVars
  <2> QED
    BY <1>3, <2>1, ActivateEffect DEF StayRespectsBookings, SameBooking
<1>4. ASSUME NEW h \in HUs, NEW accepted \in BOOLEAN, DecideWhole(h, accepted)
      PROVE  StayRespectsBookings'
  BY <1>4, DecideWholeEffect DEF StayRespectsBookings
<1>5. ASSUME NEW h \in HUs, NEW dest \in Units, NEW key \in Keys \cup {NoKey},
             NEW accepted \in 1..hu[h].qty, DecideSplit(h, accepted, dest, key)
      PROVE  StayRespectsBookings'
  BY <1>5, DecideSplitEffect DEF StayRespectsBookings, NoStay
<1>6. CASE Segregate
  BY <1>6, SegregateEffect DEF StayRespectsBookings, PendingSplit
<1>7. ASSUME NEW h \in HUs, NEW reason \in Reasons, Release(h, reason) PROVE StayRespectsBookings'
  BY <1>7, ReleaseEffect DEF StayRespectsBookings
<1>8. CASE CloseRelease
  <2>1. hu' = hu /\ stay' = stay
    BY <1>8 DEF CloseRelease, floorVars
  <2> QED
    BY <1>8, <2>1, CloseEffect DEF StayRespectsBookings
<1> QED
  BY <1>0, <1>1, <1>2, <1>3, <1>4, <1>5, <1>6, <1>7, <1>8, Steps8

LEMMA BilledNext == FloorInv /\ [Next]_vars => BilledOnce'
<1> SUFFICES ASSUME FloorInv, [Next]_vars PROVE BilledOnce'
  OBVIOUS
<1> USE DEF FloorInv
<1>0. CASE Quiet
  BY <1>0 DEF Quiet, BilledOnce
<1>1. ASSUME NEW c \in Customers, NEW w \in Windows, NEW key \in Keys \cup {NoKey},
             Reserve(c, w, key)
      PROVE  BilledOnce'
  BY <1>1 DEF Reserve, BilledOnce
<1>2. ASSUME NEW u \in Units, NEW c \in Customers, NEW kind \in Kinds,
             NEW plan \in Plans, CheckIn(u, c, kind, plan)
      PROVE  BilledOnce'
  BY <1>2, CheckInEffect DEF BilledOnce, NoStay
<1>3. CASE ActivateReservations
  BY <1>3 DEF ActivateReservations, floorVars, BilledOnce
<1>4. ASSUME NEW h \in HUs, NEW accepted \in BOOLEAN, DecideWhole(h, accepted)
      PROVE  BilledOnce'
  BY <1>4, DecideWholeEffect DEF BilledOnce
<1>5. ASSUME NEW h \in HUs, NEW dest \in Units, NEW key \in Keys \cup {NoKey},
             NEW accepted \in 1..hu[h].qty, DecideSplit(h, accepted, dest, key)
      PROVE  BilledOnce'
  BY <1>5, DecideSplitEffect DEF BilledOnce, NoStay
<1>6. CASE Segregate
  BY <1>6, SegregateEffect DEF BilledOnce, PendingSplit, NoStay
<1>7. ASSUME NEW h \in HUs, NEW reason \in Reasons, Release(h, reason) PROVE BilledOnce'
  BY <1>7, ReleaseEffect DEF BilledOnce
<1>8. CASE CloseRelease
  BY <1>8 DEF CloseRelease, floorVars, BilledOnce
<1> QED
  BY <1>0, <1>1, <1>2, <1>3, <1>4, <1>5, <1>6, <1>7, <1>8, Steps8

-----------------------------------------------------------------------------
LEMMA FloorInit == Init => FloorInv
<1> SUFFICES ASSUME Init PROVE FloorInv
  OBVIOUS
<1>1. TypeInv
  BY TypeInit
<1>2. FreshRows /\ PendingSplit /\ QualityAgrees
  BY DEF Init, FreshRows, PendingSplit, QualityAgrees, Idle, NoHU
<1>3. OneStayPerPosition /\ PositionsAgree
  BY DEF Init, OneStayPerPosition, PositionsAgree, Occupied, StayAt, NoStay
<1>4. NoDoubleBooking /\ StayRespectsBookings
  BY DEF Init, NoDoubleBooking, StayRespectsBookings
<1>5. BilledOnce
  BY DEF Init, BilledOnce, NoStay, BillKinds
<1> QED
  BY <1>1, <1>2, <1>3, <1>4, <1>5 DEF FloorInv

LEMMA FloorNext == FloorInv /\ [Next]_vars => FloorInv'
<1>1. FloorInv => TypeInv
  BY DEF FloorInv
<1> QED
  BY <1>1, TypeNext, FreshNext, PendingNext, QualityNext, OneStayNext, PositionsNext,
     BookingNext, StayBookingNext, BilledNext DEF FloorInv

(* FloorInv holds after every transaction of every handler.                *)
THEOREM FloorInvariant == Spec => []FloorInv
  BY FloorInit, FloorNext, PTL DEF Spec

(* The occupancies, the handling units and the status column of the         *)
(* positions agree after every transaction of every handler, and no two    *)
(* pallets are in one position.                                            *)
THEOREM PositionsSafe == Spec => []PositionsSound
<1>1. FloorInv => PositionsSound
  BY DEF FloorInv, PositionsSound
<1> QED
  BY <1>1, FloorInvariant, PTL

(* No position is booked twice for one time, nor used across the booking of *)
(* another customer by a pallet that was checked in.                       *)
THEOREM BookingsSafe == Spec => []BookingsSound
<1>1. FloorInv => BookingsSound
  BY DEF FloorInv, BookingsSound
<1> QED
  BY <1>1, FloorInvariant, PTL

(* Each receipt and each ended stay is charged exactly once.               *)
THEOREM BillingExact == Spec => []BilledOnce
<1>1. FloorInv => BilledOnce
  BY DEF FloorInv
<1> QED
  BY <1>1, FloorInvariant, PTL

(* A shipped pallet never changes again, by whatever handler.              *)
THEOREM ShippedForGood == Spec => ShippedIsFinal
<1> DEFINE Kept == \A h \in HUs :
                     hu[h].status = "SHIPPED" => hu'[h] = hu[h] /\ stay'[h] = stay[h]
<1>1. FloorInv /\ [Next]_vars => [Kept]_vars
  <2> SUFFICES ASSUME FloorInv, [Next]_vars, NEW g \in HUs, hu[g].status = "SHIPPED"
               PROVE  hu'[g] = hu[g] /\ stay'[g] = stay[g]
    OBVIOUS
  <2> USE DEF FloorInv
  <2>1. g \notin inspecting /\ stay[g].status # "ACTIVE" /\ ~(g >= nextHU)
    BY DEF QualityAgrees, PositionsAgree, FreshRows, NoHU
  <2>2. g # nextHU
    BY <2>1, Ids
  <2>3. request.step = "segregate" => g # request.child
    BY DEF PendingSplit
  <2>4. CASE Quiet
    BY <2>4 DEF Quiet
  <2>5. ASSUME NEW c \in Customers, NEW w \in Windows, NEW key \in Keys \cup {NoKey},
               Reserve(c, w, key)
        PROVE  hu' = hu /\ stay' = stay
    BY <2>5 DEF Reserve
  <2>6. ASSUME NEW u \in Units, NEW c \in Customers, NEW kind \in Kinds, NEW plan \in Plans,
               CheckIn(u, c, kind, plan)
        PROVE  hu'[g] = hu[g] /\ stay'[g] = stay[g]
    BY <2>2, <2>6, CheckInEffect
  <2>7. CASE ActivateReservations \/ CloseRelease
    BY <2>7 DEF ActivateReservations, CloseRelease, floorVars
  <2>8. ASSUME NEW h \in HUs, NEW accepted \in BOOLEAN, DecideWhole(h, accepted)
        PROVE  hu'[g] = hu[g] /\ stay'[g] = stay[g]
    BY <2>1, <2>8, DecideWholeEffect
  <2>9. ASSUME NEW h \in HUs, NEW dest \in Units, NEW key \in Keys \cup {NoKey},
               NEW accepted \in 1..hu[h].qty, DecideSplit(h, accepted, dest, key)
        PROVE  hu'[g] = hu[g] /\ stay'[g] = stay[g]
    BY <2>1, <2>2, <2>9, DecideSplitEffect
  <2>10. CASE Segregate
    BY <2>3, <2>10, SegregateEffect
  <2>11. ASSUME NEW h \in HUs, NEW reason \in Reasons, Release(h, reason)
         PROVE  hu'[g] = hu[g] /\ stay'[g] = stay[g]
    BY <2>1, <2>11, ReleaseEffect
  <2> QED
    BY <2>4, <2>5, <2>6, <2>7, <2>8, <2>9, <2>10, <2>11, Steps8
<1> QED
  BY <1>1, FloorInvariant, PTL DEF Spec, ShippedIsFinal

=============================================================================
