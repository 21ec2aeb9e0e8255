--------------------------- MODULE WmsLedgerProofs --------------------------
(***************************************************************************)
(* The movements that the floor posts to the inventory ledger, for every   *)
(* value of the constants: stock enters only accepted and once, and leaves *)
(* from the bin it entered. A posting is made one or two transactions after *)
(* the decision it follows from, so the invariant says what each owed      *)
(* posting may rely on when it commits. Then what the rows add up to: a    *)
(* balance is the sum of its movements, and what is allocated of a pallet  *)
(* is on it and is reserved in the balance of its bin, also while a        *)
(* shipment has left the position and its second transaction is owed.      *)
(***************************************************************************)
EXTENDS WmsFloorProofs, SumTheorems

\* The goods of a pallet that is still on the floor are in the bin under it.
PostedWhereStored ==
  \A m \in moved : (m.type = "WMS_RECEIVE" /\ stay[m.hu].status = "ACTIVE")
                     => m.bin = BinOf[stay[m.hu].unit]

OwedPostings ==
  LET h == request.hu
  IN /\ request.step \in {"activate", "receipt"} => request.unit = hu[h].unit
     /\ request.step \in {"segregate", "receipt"} => hu[h].inv = "AVAILABLE"
     /\ request.step = "ship" =>
          Movement("WMS_RECEIVE", h, BinOf[request.unit], hu[h].qty) \in moved

LedgerInv ==
  FloorInv /\ OnlyAcceptedStockPosted /\ PostedWhereStored /\ OwedPostings

(* Steps that leave what these parts speak of as it is. *)
Still ==
  /\ UNCHANGED <<hu, stay, inspecting, moved>>
  /\ request' = request \/ request' = Idle

LEMMA Steps11 ==
  ASSUME [Next]_vars
  PROVE  \/ Still
         \/ \E u \in Units, c \in Customers, kind \in Kinds, plan \in Plans :
              CheckIn(u, c, kind, plan)
         \/ ActivateReservations
         \/ PostReceipt
         \/ \E h \in HUs, accepted \in BOOLEAN : DecideWhole(h, accepted)
         \/ \E h \in HUs, dest \in Units, key \in Keys \cup {NoKey} :
              \E accepted \in 1..hu[h].qty : DecideSplit(h, accepted, dest, key)
         \/ Segregate
         \/ \E h \in HUs, reason \in Reasons : Release(h, reason)
         \/ PostShipment
<1> USE DEF clockVars, floorVars, bookVars, ledgerVars, orderVars
<1>0. UNCHANGED vars => Still
  BY DEF vars, Still
<1>1. \A u \in Units : CreateUnit(u) => Still
  BY DEF CreateUnit, Still
<1>2. \A last \in Bins : SyncBins(last) => Still
  BY DEF SyncBins, Still
<1>3. \A c \in Customers, w \in Windows, key \in Keys \cup {NoKey} :
        Reserve(c, w, key) => Still
  BY DEF Reserve, Still
<1>4. \A d \in Demands, r \in Requests, key \in Keys \cup {NoKey} :
        Allocate(d, r.n, r.short, key) => Still
  BY DEF Allocate, Still
<1>5. CloseRelease => Still
  BY DEF CloseRelease, Still
<1>6. Abort => Still
  BY DEF Abort, Still
<1>7. \A b \in Bins, delta \in Deltas : AdjustStock(b, delta) => Still
  BY DEF AdjustStock, Still
<1>8. \A active \in ItemStates : UpdateItem(active) => Still
  BY DEF UpdateItem, Still
<1>9. Tick => Still
  BY DEF Tick, Still
<1> QED
  BY <1>0, <1>1, <1>2, <1>3, <1>4, <1>5, <1>6, <1>7, <1>8, <1>9 DEF Next

LEMMA MovedRows ==
  ASSUME TypeInv, NEW m \in moved
  PROVE  m.hu \in HUs /\ m.type \in {"WMS_RECEIVE", "WMS_SHIP"}
  BY DEF TypeInv, TypeOK

LEMMA MovementRow ==
  ASSUME NEW type, NEW h, NEW b, NEW q
  PROVE  LET m == Movement(type, h, b, q)
         IN /\ m.type = type /\ m.hu = h /\ m.bin = b /\ m.qty = q
            /\ [m EXCEPT !.type = "WMS_RECEIVE"] = Movement("WMS_RECEIVE", h, b, q)
  BY DEF Movement

(* Steps after which every posted pallet still has its quantity, its        *)
(* acceptance and, if it still stays, its position.                        *)
LEMMA PostedKept ==
  ASSUME LedgerInv, moved' = moved, inspecting' \subseteq inspecting \cup {nextHU},
         \A m \in moved : /\ m.hu # nextHU
                          /\ hu'[m.hu].inv = hu[m.hu].inv /\ hu'[m.hu].qty = hu[m.hu].qty
                          /\ stay'[m.hu].status = "ACTIVE" => stay'[m.hu] = stay[m.hu]
  PROVE  OnlyAcceptedStockPosted' /\ PostedWhereStored'
<1>1. OnlyAcceptedStockPosted'
  BY DEF LedgerInv, OnlyAcceptedStockPosted
<1>2. PostedWhereStored'
  BY DEF LedgerInv, PostedWhereStored
<1> QED
  BY <1>1, <1>2

LEMMA PostedHU ==
  ASSUME LedgerInv, NEW m \in moved
  PROVE  /\ m.hu \in HUs /\ m.hu < nextHU /\ m.hu # nextHU /\ m.hu \notin inspecting
         /\ hu[m.hu].inv = "AVAILABLE"
         /\ request.step = "segregate" => m.hu # request.child
<1> USE DEF LedgerInv, FloorInv
<1>1. hu[m.hu].inv = "AVAILABLE" /\ m.hu \notin inspecting /\ m.hu \in HUs
  BY MovedRows DEF OnlyAcceptedStockPosted
<1>2. ~(m.hu >= nextHU)
  BY <1>1 DEF FreshRows, NoHU
<1>3. m.hu < nextHU /\ m.hu # nextHU
  BY <1>1, <1>2, Ids
<1>4. request.step = "segregate" => m.hu # request.child
  BY <1>1 DEF PendingSplit
<1> QED
  BY <1>1, <1>3, <1>4

LEMMA LedgerNext == LedgerInv /\ [Next]_vars => LedgerInv'
<1> SUFFICES ASSUME LedgerInv, [Next]_vars
             PROVE  OnlyAcceptedStockPosted' /\ PostedWhereStored' /\ OwedPostings'
  BY FloorNext DEF LedgerInv
<1> DEFINE P == OnlyAcceptedStockPosted' /\ PostedWhereStored' /\ OwedPostings'
<1>f. FloorInv /\ TypeInv /\ FreshRows
  BY DEF LedgerInv, FloorInv
<1>0. CASE Still
  <2>1. OnlyAcceptedStockPosted' /\ PostedWhereStored'
    BY <1>0 DEF Still, LedgerInv, OnlyAcceptedStockPosted, PostedWhereStored
  <2>2. OwedPostings'
    BY <1>0 DEF Still, LedgerInv, OwedPostings, Idle
  <2> QED
    BY <2>1, <2>2
<1>1. ASSUME NEW u \in Units, NEW c \in Customers, NEW kind \in Kinds, NEW plan \in Plans,
             CheckIn(u, c, kind, plan)
      PROVE  P
  <2>1. moved' = moved
    BY <1>1 DEF CheckIn, ledgerVars
  <2>2. OnlyAcceptedStockPosted' /\ PostedWhereStored'
    BY <1>1, <1>f, <2>1, CheckInEffect, PostedHU, PostedKept
  <2>3. /\ nextHU \in HUs /\ hu'[nextHU].unit = u
        /\ hu'[nextHU].inv = IF kind.qc THEN "RECEIVED_NOT_INSPECTED" ELSE "AVAILABLE"
    <3>1. nextHU \in HUs /\ hu'[nextHU].unit = u
      BY <1>1, <1>f, CheckInEffect
    <3>2. hu'[nextHU].inv = IF kind.qc THEN "RECEIVED_NOT_INSPECTED" ELSE "AVAILABLE"
      BY <1>1, <1>f, <3>1 DEF CheckIn, TypeInv, TypeOK
    <3> QED
      BY <3>1, <3>2
  <2>4. OwedPostings'
    BY <1>1, <2>3 DEF CheckIn, ReceiptOwed, Owed, Idle, OwedPostings
  <2> QED
    BY <2>2, <2>4
<1>2. CASE ActivateReservations
  <2>1. UNCHANGED <<hu, stay, inspecting, moved>>
    BY <1>2 DEF ActivateReservations, floorVars, ledgerVars
  <2>2. OnlyAcceptedStockPosted' /\ PostedWhereStored'
    BY <2>1 DEF LedgerInv, OnlyAcceptedStockPosted, PostedWhereStored
  <2>3. OwedPostings'
    BY <1>2, <2>1 DEF ActivateReservations, ReceiptOwed, Owed, Idle, LedgerInv, OwedPostings
  <2> QED
    BY <2>2, <2>3
<1>3. CASE PostReceipt
  <2> DEFINE h == request.hu
             mv == Movement("WMS_RECEIVE", h, BinOf[request.unit], hu[h].qty)
  <2>1. UNCHANGED <<hu, stay, inspecting>> /\ request' = Idle
    BY <1>3 DEF PostReceipt, floorVars
  <2>2. /\ h \in HUs /\ hu[h].inv = "AVAILABLE" /\ h \notin inspecting
        /\ request.unit = hu[h].unit
    BY <1>3 DEF PostReceipt, LedgerInv, OwedPostings, FloorInv, QualityAgrees, TypeInv, RequestOK
  <2>3. OwedPostings'
    BY <2>1 DEF OwedPostings, Idle
  <2>4. CASE moved' = moved
    BY <2>1, <2>3, <2>4 DEF LedgerInv, OnlyAcceptedStockPosted, PostedWhereStored
  <2>5. CASE moved' = moved \cup {mv} /\ ~Posted("WMS_RECEIVE", h)
    <3>1. mv.type = "WMS_RECEIVE" /\ mv.hu = h /\ mv.bin = BinOf[request.unit] /\ mv.qty = hu[h].qty
      BY MovementRow
    <3>2. \A m \in moved : m.type = "WMS_RECEIVE" => m.hu # h
      BY <2>5 DEF Posted
    <3>3. stay[h].status = "ACTIVE" => mv.bin = BinOf[stay[h].unit]
      BY <2>2, <3>1 DEF LedgerInv, FloorInv, PositionsAgree
    <3> HIDE DEF mv
    <3>4. OnlyAcceptedStockPosted'
      BY <2>1, <2>2, <2>5, <3>1, <3>2 DEF LedgerInv, OnlyAcceptedStockPosted
    <3>5. PostedWhereStored'
      BY <2>1, <2>5, <3>1, <3>3 DEF LedgerInv, PostedWhereStored
    <3> QED
      BY <2>3, <3>4, <3>5
  <2> QED
    BY <1>3, <2>4, <2>5 DEF PostReceipt, ledgerVars
<1>4. ASSUME NEW h \in HUs, NEW accepted \in BOOLEAN, DecideWhole(h, accepted) PROVE P
  <2>1. moved' = moved /\ hu[h] \in HURow
    BY <1>4, <1>f DEF DecideWhole, ledgerVars, TypeInv, TypeOK
  <2>2. OnlyAcceptedStockPosted' /\ PostedWhereStored'
    BY <1>4, <1>f, <2>1, DecideWholeEffect, PostedHU, PostedKept
  <2>3. /\ hu'[h].unit = hu[h].unit
        /\ hu'[h].inv = IF accepted THEN "AVAILABLE" ELSE "REJECTED"
    BY <1>4, <1>f, <2>1 DEF DecideWhole, TypeInv, TypeOK, HURow
  <2>4. OwedPostings'
    BY <1>4, <2>3 DEF DecideWhole, ReceiptOwed, Owed, Idle, OwedPostings
  <2> QED
    BY <2>2, <2>4
<1>5. ASSUME NEW h \in HUs, NEW dest \in Units, NEW key \in Keys \cup {NoKey},
             NEW accepted \in 1..hu[h].qty, DecideSplit(h, accepted, dest, key)
      PROVE  P
  <2>1. moved' = moved /\ hu[h] \in HURow
    BY <1>5, <1>f DEF DecideSplit, ledgerVars, TypeInv, TypeOK
  <2>2. OnlyAcceptedStockPosted' /\ PostedWhereStored'
    BY <1>5, <1>f, <2>1, DecideSplitEffect, PostedHU, PostedKept
  <2>3. hu'[h].inv = "AVAILABLE"
    <3>1. h # nextHU /\ nextHU \in HUs
      BY <1>5, <1>f, DecideSplitEffect
    <3>2. hu'[h] = [hu[h] EXCEPT !.qty = accepted, !.inv = "AVAILABLE",
                                 !.status = "RECEIVED"]
      BY <1>5, <1>f, <3>1 DEF DecideSplit, TypeInv, TypeOK
    <3> QED
      BY <2>1, <3>2 DEF HURow
  <2>4. OwedPostings'
    BY <1>5, <2>3 DEF DecideSplit, OwedPostings
  <2> QED
    BY <2>2, <2>4
<1>6. CASE Segregate
  <2> DEFINE h == request.hu
  <2>1. moved' = moved
    BY <1>6 DEF Segregate, ledgerVars
  <2>2. /\ request.step = "segregate" /\ h \in HUs /\ hu[h].inv = "AVAILABLE"
        /\ request.child \in HUs /\ h # request.child
    BY <1>6 DEF Segregate, LedgerInv, FloorInv, OwedPostings, PendingSplit, TypeInv, RequestOK
  <2>3. OnlyAcceptedStockPosted' /\ PostedWhereStored'
    BY <1>6, <1>f, <2>1, <2>2, SegregateEffect, PostedHU, PostedKept
  <2>4. hu'[h] = hu[h]
    BY <1>6, <1>f, <2>2, SegregateEffect
  <2>5. OwedPostings'
    BY <1>6, <2>2, <2>4 DEF Segregate, ReceiptOwed, Owed, Idle, OwedPostings
  <2> QED
    BY <2>3, <2>5
<1>7. ASSUME NEW h \in HUs, NEW reason \in Reasons, Release(h, reason) PROVE P
  <2>1. moved' = moved /\ hu[h] \in HURow /\ hu'[h].qty = hu[h].qty
    BY <1>7, <1>f DEF Release, ledgerVars, TypeInv, TypeOK, HURow
  <2>2. OnlyAcceptedStockPosted' /\ PostedWhereStored'
    BY <1>7, <1>f, <2>1, ReleaseEffect, PostedHU, PostedKept
  <2>3. hu[h].unit = stay[h].unit /\ stay[h].status = "ACTIVE"
    BY <1>7, <1>f, ReleaseEffect DEF FloorInv, PositionsAgree
  <2>4. ASSUME request'.step = "ship"
        PROVE  Movement("WMS_RECEIVE", h, BinOf[hu[h].unit], hu[h].qty) \in moved
    <3>1. Posted("WMS_RECEIVE", h)
      BY <1>7, <2>4 DEF Release, Shippable, Owed, Idle
    <3>2. PICK m \in moved : m.type = "WMS_RECEIVE" /\ m.hu = h
      BY <3>1 DEF Posted
    <3>3. m.bin = BinOf[hu[h].unit] /\ m.qty = hu[h].qty
      BY <2>3, <3>2 DEF LedgerInv, PostedWhereStored, OnlyAcceptedStockPosted
    <3>4. m \in [type : {"WMS_RECEIVE", "WMS_SHIP"}, hu : HUs, bin : Bins, qty : Nat]
      BY <1>f DEF TypeInv, TypeOK
    <3> QED
      BY <3>2, <3>3, <3>4 DEF Movement
  <2>5. OwedPostings'
    BY <1>7, <2>1, <2>4 DEF Release, Owed, Idle, OwedPostings
  <2> QED
    BY <2>2, <2>5
<1>8. CASE PostShipment
  <2> DEFINE h == request.hu
             mv == Movement("WMS_SHIP", h, BinOf[request.unit], hu[h].qty)
             rc == Movement("WMS_RECEIVE", h, BinOf[request.unit], hu[h].qty)
  <2>1. UNCHANGED <<hu, stay, inspecting>> /\ request'.step = "close"
    BY <1>8 DEF PostShipment, floorVars, Owed, Idle
  <2>2. rc \in moved
    BY <1>8 DEF PostShipment, LedgerInv, OwedPostings
  <2>3. OwedPostings'
    BY <2>1 DEF OwedPostings
  <2>4. CASE moved' = moved
    BY <2>1, <2>3, <2>4 DEF LedgerInv, OnlyAcceptedStockPosted, PostedWhereStored
  <2>5. CASE moved' = moved \cup {mv} /\ ~Posted("WMS_SHIP", h)
    <3>1. /\ mv.type = "WMS_SHIP" /\ mv.hu = h /\ mv.qty = hu[h].qty
          /\ [mv EXCEPT !.type = "WMS_RECEIVE"] = rc
      BY MovementRow
    <3>2. \A m \in moved : m.type = "WMS_SHIP" => m.hu # h
      BY <2>5 DEF Posted
    <3>3. hu[h].inv = "AVAILABLE" /\ h \notin inspecting
      BY <2>2, MovementRow DEF LedgerInv, OnlyAcceptedStockPosted
    <3> HIDE DEF mv, rc
    <3>4. OnlyAcceptedStockPosted'
      BY <2>1, <2>2, <2>5, <3>1, <3>2, <3>3 DEF LedgerInv, OnlyAcceptedStockPosted
    <3>5. PostedWhereStored'
      BY <2>1, <2>5, <3>1 DEF LedgerInv, PostedWhereStored
    <3> QED
      BY <2>3, <3>4, <3>5
  <2> QED
    BY <1>8, <2>4, <2>5 DEF PostShipment, ledgerVars
<1> QED
  BY <1>0, <1>1, <1>2, <1>3, <1>4, <1>5, <1>6, <1>7, <1>8, Steps11

LEMMA LedgerInit == Init => LedgerInv
<1>1. Init => FloorInv
  BY FloorInit
<1>2. Init => OnlyAcceptedStockPosted /\ PostedWhereStored /\ OwedPostings
  BY DEF Init, OnlyAcceptedStockPosted, PostedWhereStored, OwedPostings, Idle
<1> QED
  BY <1>1, <1>2 DEF LedgerInv

(* Stock enters the ledger only accepted, once and with the accepted        *)
(* quantity, and leaves it once, from the bin it entered.                  *)
THEOREM PostingsSound == Spec => []OnlyAcceptedStockPosted
<1>1. LedgerInv => OnlyAcceptedStockPosted
  BY DEF LedgerInv
<1> QED
  BY <1>1, LedgerInit, LedgerNext, PTL DEF Spec

-----------------------------------------------------------------------------
(* What the movements of a bin add up to.                                 *)

MoveRow == [type : {"WMS_RECEIVE", "WMS_SHIP"}, hu : HUs, bin : Bins, qty : Nat]

\* Movements are added one by one, so there are finitely many.
StockInv == IsFiniteSet(moved) /\ LedgerReconciles

LEMMA SumMovedType ==
  ASSUME NEW rows, IsFiniteSet(rows), rows \subseteq MoveRow, NEW t, NEW b
  PROVE  SumMoved(rows, t, b) \in Int
<1> DEFINE E == {m \in rows : m.type = t /\ m.bin = b}
           f == [m \in E |-> m.qty]
<1>1. IsFiniteSet(E) /\ f \in [E -> Int]
  BY FS_Subset DEF MoveRow
<1>2. SumFunction(f) \in Int
  <2> HIDE DEF f, E
  <2> QED BY <1>1, SumFunctionType
<1> QED BY <1>2 DEF SumMoved

\* A new movement is added to what it is a movement of, and to nothing else.
LEMMA SumMovedGrows ==
  ASSUME NEW rows, IsFiniteSet(rows), rows \subseteq MoveRow, NEW x \in MoveRow, x \notin rows,
         NEW t, NEW b
  PROVE  SumMoved(rows \cup {x}, t, b) =
           IF t = x.type /\ b = x.bin THEN SumMoved(rows, t, b) + x.qty
           ELSE SumMoved(rows, t, b)
<1> DEFINE E == {m \in rows : m.type = t /\ m.bin = b}
           F == {m \in rows \cup {x} : m.type = t /\ m.bin = b}
           f == [m \in E |-> m.qty]
           g == [m \in E \cup {x} |-> m.qty]
<1>1. CASE t = x.type /\ b = x.bin
  <2>1. x \notin E /\ IsFiniteSet(E)
    BY FS_Subset
  <2>2. F = E \cup {x}
    BY <1>1
  <2>3. f \in [E -> Int] /\ g \in [E \cup {x} -> Int] /\ g[x] = x.qty
    BY DEF MoveRow
  <2>4. \A m \in E : g[m] = f[m]
    OBVIOUS
  <2>5. SumFunction(g) = SumFunction(f) + g[x]
    <3> HIDE DEF f, g, E
    <3> QED BY ONLY <2>1, <2>3, <2>4, SumFunctionGrows
  <2> QED BY <1>1, <2>2, <2>3, <2>5 DEF SumMoved
<1>2. CASE ~(t = x.type /\ b = x.bin)
  <2>1. F = E
    BY <1>2
  <2> QED BY <1>2, <2>1 DEF SumMoved
<1> QED BY <1>1, <1>2

\* The balances on hand and their movements are written by two postings and by hand.
LEMMA StockWriters ==
  ASSUME TypeInv, [Next]_vars
  PROVE  \/ /\ UNCHANGED <<moved, adjusted>>
            /\ \A b \in Bins : bal'[b].onHand = bal[b].onHand
         \/ PostReceipt
         \/ PostShipment
         \/ \E b \in Bins, delta \in Deltas : AdjustStock(b, delta)
<1> DEFINE Kept == /\ UNCHANGED <<moved, adjusted>>
                   /\ \A b \in Bins : bal'[b].onHand = bal[b].onHand
<1>k. UNCHANGED ledgerVars => Kept
  BY DEF ledgerVars
<1>1. UNCHANGED vars => UNCHANGED ledgerVars
  BY DEF vars
<1>2. \A u \in Units : CreateUnit(u) => UNCHANGED ledgerVars
  BY DEF CreateUnit
<1>3. \A last \in Bins : SyncBins(last) => UNCHANGED ledgerVars
  BY DEF SyncBins
<1>4. \A c \in Customers, w \in Windows, key \in Keys \cup {NoKey} :
        Reserve(c, w, key) => UNCHANGED ledgerVars
  BY DEF Reserve
<1>5. \A u \in Units, c \in Customers, kind \in Kinds, plan \in Plans :
        CheckIn(u, c, kind, plan) => UNCHANGED ledgerVars
  BY DEF CheckIn
<1>6. ActivateReservations => UNCHANGED ledgerVars
  BY DEF ActivateReservations
<1>7. \A h \in HUs, accepted \in BOOLEAN : DecideWhole(h, accepted) => UNCHANGED ledgerVars
  BY DEF DecideWhole
<1>8. \A h \in HUs, dest \in Units, key \in Keys \cup {NoKey} :
        \A accepted \in 1..hu[h].qty :
          DecideSplit(h, accepted, dest, key) => UNCHANGED ledgerVars
  BY DEF DecideSplit
<1>9. Segregate => UNCHANGED ledgerVars
  BY DEF Segregate
<1>10. ASSUME NEW d \in Demands, NEW r \in Requests, NEW key \in Keys \cup {NoKey},
              Allocate(d, r.n, r.short, key)
       PROVE  Kept
  <2>1. /\ UNCHANGED <<moved, adjusted>>
        /\ \A b \in Bins : bal'[b] = Promised(bal[b], TakenFrom(FefoTake(r.n), b))
    BY <1>10 DEF Allocate
  <2>2. \A b \in Bins : bal[b] \in Balance
    BY DEF TypeInv, TypeOK
  <2>3. ASSUME NEW b \in Bins, NEW q PROVE Promised(bal[b], q).onHand = bal[b].onHand
    BY <2>2 DEF Promised, Balance
  <2> QED BY <2>1, <2>3
<1>11. \A h \in HUs, reason \in Reasons : Release(h, reason) => UNCHANGED ledgerVars
  BY DEF Release
<1>12. CloseRelease => UNCHANGED ledgerVars
  BY DEF CloseRelease
<1>13. Abort => UNCHANGED ledgerVars
  BY DEF Abort
<1>14. \A active \in ItemStates : UpdateItem(active) => UNCHANGED ledgerVars
  BY DEF UpdateItem
<1>15. Tick => UNCHANGED ledgerVars
  BY DEF Tick
<1> QED
  BY <1>k, <1>1, <1>2, <1>3, <1>4, <1>5, <1>6, <1>7, <1>8, <1>9, <1>10, <1>11, <1>12, <1>13,
     <1>14, <1>15 DEF Next

LEMMA StockInit == Init => StockInv
<1> SUFFICES ASSUME Init PROVE StockInv
  OBVIOUS
<1> DEFINE f == [m \in {} |-> m.qty]
<1>1. SumFunction(f) = 0
  <2>1. DOMAIN f = {} /\ IsFiniteSet({}) /\ \A m \in {} : f[m] = 0
    BY FS_EmptySet
  <2> HIDE DEF f
  <2> QED BY <2>1, SumFunctionZero
<1>2. \A t, b : {m \in {} : m.type = t /\ m.bin = b} = {}
  OBVIOUS
<1>3. \A t, b : SumMoved({}, t, b) = 0
  BY <1>1, <1>2 DEF SumMoved
<1> QED
  BY <1>3, FS_EmptySet DEF Init, StockInv, LedgerReconciles

\* A new movement of q in bin b, with its balance.
LEMMA PostingReconciles ==
  ASSUME TypeInv, StockInv, NEW x \in MoveRow, x \notin moved, moved' = moved \cup {x},
         adjusted' = adjusted,
         bal'[x.bin].onHand = IF x.type = "WMS_RECEIVE" THEN bal[x.bin].onHand + x.qty
                              ELSE bal[x.bin].onHand - x.qty,
         bal'[x.bin].onHand >= 0,
         \A b \in Bins \ {x.bin} : bal'[b].onHand = bal[b].onHand
  PROVE  StockInv'
<1>1. IsFiniteSet(moved) /\ moved \subseteq MoveRow
  BY DEF StockInv, TypeInv, TypeOK, MoveRow
<1>2. IsFiniteSet(moved')
  BY <1>1, FS_AddElement
<1>3. ASSUME NEW b \in Bins
      PROVE  /\ bal'[b].onHand = SumMoved(moved', "WMS_RECEIVE", b)
                                   - SumMoved(moved', "WMS_SHIP", b) + adjusted'[b]
             /\ bal'[b].onHand >= 0
  <2> DEFINE in == SumMoved(moved, "WMS_RECEIVE", b)
             out == SumMoved(moved, "WMS_SHIP", b)
             inAfter == SumMoved(moved', "WMS_RECEIVE", b)
             outAfter == SumMoved(moved', "WMS_SHIP", b)
  <2>1. in \in Int /\ out \in Int
    BY <1>1, SumMovedType
  <2>2. /\ inAfter = IF "WMS_RECEIVE" = x.type /\ b = x.bin THEN in + x.qty ELSE in
        /\ outAfter = IF "WMS_SHIP" = x.type /\ b = x.bin THEN out + x.qty ELSE out
    BY <1>1, SumMovedGrows
  <2>3. bal[b].onHand = in - out + adjusted[b] /\ bal[b].onHand >= 0 /\ adjusted[b] \in Int
    BY DEF StockInv, LedgerReconciles, TypeInv, TypeOK
  <2>4. x.qty \in Nat /\ x.type \in {"WMS_RECEIVE", "WMS_SHIP"}
    BY DEF MoveRow
  <2> HIDE DEF in, out, inAfter, outAfter
  <2>5. bal'[b].onHand = inAfter - outAfter + adjusted'[b] /\ bal'[b].onHand >= 0
    <3>1. CASE b # x.bin
      BY <2>1, <2>2, <2>3, <3>1
    <3>2. CASE b = x.bin
      BY <2>1, <2>2, <2>3, <2>4, <3>2
    <3> QED BY <3>1, <3>2
  <2> QED BY <2>5 DEF inAfter, outAfter
<1> QED BY <1>2, <1>3 DEF StockInv, LedgerReconciles

LEMMA StockNext == LedgerInv /\ StockInv /\ [Next]_vars => StockInv'
<1> SUFFICES ASSUME LedgerInv, StockInv, [Next]_vars PROVE StockInv'
  OBVIOUS
<1>t. TypeInv
  BY DEF LedgerInv, FloorInv
<1>b. bal \in [Bins -> Balance] /\ hu \in [HUs -> HURow]
  BY <1>t DEF TypeInv, TypeOK
<1>1. ASSUME UNCHANGED <<moved, adjusted>>, \A b \in Bins : bal'[b].onHand = bal[b].onHand
      PROVE  StockInv'
  BY <1>1 DEF StockInv, LedgerReconciles
<1>2. CASE PostReceipt
  <2> DEFINE h == request.hu
             b == BinOf[request.unit]
             x == Movement("WMS_RECEIVE", h, b, hu[h].qty)
  <2>1. CASE Posted("WMS_RECEIVE", h)
    BY <1>1, <1>2, <2>1 DEF PostReceipt, ledgerVars
  <2>2. CASE ~Posted("WMS_RECEIVE", h)
    <3>1. /\ bal' = [bal EXCEPT ![b] = Received(@, hu[h].qty)]
          /\ moved' = moved \cup {x} /\ adjusted' = adjusted
      BY <1>2, <2>2 DEF PostReceipt
    <3>2. h \in HUs /\ request.unit \in Units /\ b \in Bins /\ hu[h].qty \in Nat
      BY <1>2, <1>t, <1>b, <2>2, LayoutAssumption, Columns
         DEF PostReceipt, TypeInv, TypeOK, RequestOK, Request, None
    <3>3. x \in MoveRow /\ x \notin moved /\ x.type = "WMS_RECEIVE" /\ x.bin = b /\ x.qty = hu[h].qty
      BY <2>2, <3>2 DEF Posted, Movement, MoveRow
    <3>4. Received(bal[b], hu[h].qty).onHand = bal[b].onHand + hu[h].qty /\ bal[b].onHand >= 0
          /\ bal[b].onHand \in Int
      BY <1>b, <3>2 DEF Received, Balance, StockInv, LedgerReconciles
    <3>5. /\ bal'[b].onHand = bal[b].onHand + hu[h].qty /\ bal'[b].onHand >= 0
          /\ \A c \in Bins \ {b} : bal'[c].onHand = bal[c].onHand
      BY <1>b, <3>1, <3>2, <3>4
    <3> HIDE DEF x, b
    <3> QED BY <1>t, <3>1, <3>3, <3>5, PostingReconciles
  <2> QED BY <2>1, <2>2
<1>3. CASE PostShipment
  <2> DEFINE h == request.hu
             b == BinOf[request.unit]
             x == Movement("WMS_SHIP", h, b, hu[h].qty)
  <2>1. CASE Posted("WMS_SHIP", h)
    BY <1>1, <1>3, <2>1 DEF PostShipment, ledgerVars
  <2>2. CASE ~Posted("WMS_SHIP", h)
    <3>1. /\ bal' = [bal EXCEPT ![b] = Shipped(@, hu[h].qty)] /\ bal[b].onHand >= hu[h].qty
          /\ moved' = moved \cup {x} /\ adjusted' = adjusted
      BY <1>3, <2>2 DEF PostShipment
    <3>2. h \in HUs /\ request.unit \in Units /\ b \in Bins /\ hu[h].qty \in Nat
      BY <1>3, <1>t, <1>b, <2>2, LayoutAssumption, Columns
         DEF PostShipment, TypeInv, TypeOK, RequestOK, Request, None
    <3>3. x \in MoveRow /\ x \notin moved /\ x.type = "WMS_SHIP" /\ x.bin = b /\ x.qty = hu[h].qty
      BY <2>2, <3>2 DEF Posted, Movement, MoveRow
    <3>4. Shipped(bal[b], hu[h].qty).onHand = bal[b].onHand - hu[h].qty /\ bal[b].onHand \in Int
      BY <1>b, <3>2 DEF Shipped, Balance
    <3>5. /\ bal'[b].onHand = bal[b].onHand - hu[h].qty /\ bal'[b].onHand >= 0
          /\ \A c \in Bins \ {b} : bal'[c].onHand = bal[c].onHand
      BY <1>b, <3>1, <3>2, <3>4
    <3> HIDE DEF x, b
    <3> QED BY <1>t, <3>1, <3>3, <3>5, PostingReconciles
  <2> QED BY <2>1, <2>2
<1>4. ASSUME NEW b \in Bins, NEW delta \in Deltas, AdjustStock(b, delta) PROVE StockInv'
  <2>1. /\ moved' = moved /\ adjusted' = [adjusted EXCEPT ![b] = @ + delta]
        /\ bal' = [bal EXCEPT ![b] = Counted(@, bal[b].onHand + delta)]
        /\ bal[b].onHand + delta >= 0
    BY <1>4 DEF AdjustStock
  <2>2. Counted(bal[b], bal[b].onHand + delta).onHand = bal[b].onHand + delta
    BY <1>b DEF Counted, Balance
  <2>3. /\ bal'[b].onHand = bal[b].onHand + delta
        /\ \A c \in Bins \ {b} : bal'[c].onHand = bal[c].onHand
    BY <1>b, <2>1, <2>2
  <2>4. /\ adjusted'[b] = adjusted[b] + delta
        /\ \A c \in Bins \ {b} : adjusted'[c] = adjusted[c]
    BY <1>t, <2>1 DEF TypeInv, TypeOK
  <2>5. delta \in Int /\ bal[b].onHand \in Int /\ adjusted[b] \in Int
    BY <1>t, <1>b, InputAssumption DEF TypeInv, TypeOK, Balance
  <2>6. /\ SumMoved(moved, "WMS_RECEIVE", b) \in Int /\ SumMoved(moved, "WMS_SHIP", b) \in Int
        /\ bal[b].onHand = SumMoved(moved, "WMS_RECEIVE", b)
                             - SumMoved(moved, "WMS_SHIP", b) + adjusted[b]
    BY <1>t, SumMovedType DEF StockInv, LedgerReconciles, TypeInv, TypeOK, MoveRow
  <2>7. /\ bal'[b].onHand = SumMoved(moved, "WMS_RECEIVE", b)
                              - SumMoved(moved, "WMS_SHIP", b) + adjusted'[b]
        /\ bal'[b].onHand >= 0
    BY <2>1, <2>3, <2>4, <2>5, <2>6
  <2> QED BY <2>1, <2>3, <2>4, <2>7 DEF StockInv, LedgerReconciles
<1> QED BY <1>t, <1>1, <1>2, <1>3, <1>4, StockWriters

(* A balance is what its movements add up to and is never negative, in      *)
(* every state that a crash between two transactions can leave.            *)
THEOREM LedgerAddsUp == Spec => []LedgerReconciles
<1>1. StockInv => LedgerReconciles
  BY DEF StockInv
<1> QED
  BY <1>1, LedgerInit, LedgerNext, StockInit, StockNext, PTL DEF Spec

-----------------------------------------------------------------------------
(* What the demands hold of the pallets in a bin.                          *)

AllocTable == [Demands -> [HUs -> Nat]]

\* Goods stay in a position, and only accepted goods are allocated.
StayedSomewhere == \A h \in HUs : stay[h].status = "ACTIVE" => stay[h].unit # None
AllocatedAccepted == \A h \in HUs : Allocated(alloc, h) > 0 => hu[h].inv = "AVAILABLE"

\* Between the transactions of a shipment the pallet has left its position, and
\* its quantity is still reserved beyond what the pallets left there are allocated.
OwedShipment ==
  request.step = "ship" =>
    LET b == BinOf[request.unit]
    IN b \in Bins => bal[b].reserved >= HeldOf(alloc, StoredIn(b)) + hu[request.hu].qty

AllocInv == AllocationsCovered /\ StayedSomewhere /\ AllocatedAccepted /\ OwedShipment

LEMMA FiniteHUs == IsFiniteSet(HUs) /\ IsFiniteSet(Demands)
BY FS_Interval, SizeAssumption, InputAssumption DEF HUs

LEMMA AllocatedType ==
  ASSUME NEW rows \in AllocTable, NEW h \in HUs
  PROVE  Allocated(rows, h) \in Nat
<1> DEFINE f == [d \in Demands |-> rows[d][h]]
<1>1. f \in [Demands -> Nat]
  BY DEF AllocTable
<1>2. SumFunction(f) \in Nat
  <2> HIDE DEF f
  <2> QED BY <1>1, FiniteHUs, SumFunctionNatural
<1> QED BY <1>2 DEF Allocated

LEMMA HeldType ==
  ASSUME NEW rows \in AllocTable, NEW S \in SUBSET HUs
  PROVE  HeldOf(rows, S) \in Nat
<1> DEFINE f == [h \in S |-> Allocated(rows, h)]
<1>1. f \in [S -> Nat] /\ IsFiniteSet(S)
  BY AllocatedType, FiniteHUs, FS_Subset
<1>2. SumFunction(f) \in Nat
  <2> HIDE DEF f
  <2> QED BY <1>1, SumFunctionNatural
<1> QED BY <1>2 DEF HeldOf

\* What some pallets hold is within what others do.
LEMMA HeldWithin ==
  ASSUME NEW rows \in AllocTable, NEW others \in AllocTable,
         NEW S \in SUBSET HUs, NEW T \in SUBSET HUs,
         \A h \in S : Allocated(rows, h) <= IF h \in T THEN Allocated(others, h) ELSE 0
  PROVE  HeldOf(rows, S) <= HeldOf(others, T)
<1> DEFINE f == [h \in S |-> Allocated(rows, h)]
           g == [h \in T |-> Allocated(others, h)]
<1>1. f \in [S -> Nat] /\ g \in [T -> Nat]
  BY AllocatedType
<1>2. \A h \in S : f[h] <= IF h \in T THEN g[h] ELSE 0
  OBVIOUS
<1>3. SumFunction(f) <= SumFunction(g)
  <2> HIDE DEF f, g
  <2> QED BY <1>1, <1>2, FiniteHUs, SumFunctionWithin
<1> QED BY <1>3 DEF HeldOf

\* One pallet less.
LEMMA HeldWithout ==
  ASSUME NEW rows \in AllocTable, NEW T \in SUBSET HUs, NEW h \in T
  PROVE  HeldOf(rows, T) = Allocated(rows, h) + HeldOf(rows, T \ {h})
<1> DEFINE f == [g \in T |-> Allocated(rows, g)]
           r == [g \in T \ {h} |-> Allocated(rows, g)]
<1>1. f \in [T -> Nat] /\ r \in [T \ {h} -> Nat] /\ f[h] = Allocated(rows, h)
  BY AllocatedType
<1>2. IsFiniteSet(T) /\ IsFiniteSet(T \ {h})
  BY FiniteHUs, FS_Subset
<1>3. \A g \in T \ {h} : f[g] = r[g]
  OBVIOUS
<1>4. SumFunctionOnSet(f, T) = f[h] + SumFunctionOnSet(f, T \ {h})
  <2> HIDE DEF f
  <2> QED BY <1>1, <1>2, SumTaken
<1>5. SumFunctionOnSet(f, T \ {h}) = SumFunctionOnSet(r, T \ {h})
  <2> HIDE DEF f, r
  <2> QED BY <1>2, <1>3, SumSame
<1> QED BY <1>1, <1>4, <1>5, SumIsOnDomain DEF HeldOf

\* A demand that held nothing takes of the pallets.
LEMMA AllocatedTaken ==
  ASSUME NEW rows \in AllocTable, NEW d \in Demands, NEW take \in [HUs -> Nat],
         \A h \in HUs : rows[d][h] = 0
  PROVE  LET after == [rows EXCEPT ![d] = take]
         IN /\ after \in AllocTable
            /\ \A h \in HUs : Allocated(after, h) = Allocated(rows, h) + take[h]
<1> DEFINE after == [rows EXCEPT ![d] = take]
<1>1. after \in AllocTable /\ after[d] = take /\ \A e \in Demands \ {d} : after[e] = rows[e]
  BY DEF AllocTable
<1> HIDE DEF after
<1>2. ASSUME NEW h \in HUs PROVE Allocated(after, h) = Allocated(rows, h) + take[h]
  <2> DEFINE f == [e \in Demands |-> rows[e][h]]
             g == [e \in Demands |-> after[e][h]]
  <2>1. f \in [Demands -> Int] /\ g \in [Demands -> Int]
    BY <1>1 DEF AllocTable
  <2>2. f[d] = 0 /\ g[d] = take[h] /\ take[h] \in Int
    BY <1>1
  <2>3. \A e \in Demands \ {d} : g[e] = f[e]
    BY <1>1
  <2>4. SumFunction(g) = SumFunction(f) + g[d] - f[d] /\ SumFunction(f) \in Int
    <3> HIDE DEF f, g
    <3> QED BY <2>1, <2>3, FiniteHUs, SumFunctionChanged, SumFunctionType
  <2>5. Allocated(after, h) = SumFunction(g) /\ Allocated(rows, h) = SumFunction(f)
    BY DEF Allocated
  <2> HIDE DEF f, g
  <2> QED BY <2>2, <2>4, <2>5
<1> QED BY <1>1, <1>2 DEF after

\* What is taken of some pallets is at most what is taken of more.
LEMMA HeldTaken ==
  ASSUME NEW rows \in AllocTable, NEW after \in AllocTable, NEW take \in [HUs -> Nat],
         \A h \in HUs : Allocated(after, h) = Allocated(rows, h) + take[h],
         NEW S \in SUBSET HUs, NEW T \in SUBSET HUs, S \subseteq T
  PROVE  /\ HeldOf(after, S) <= HeldOf(rows, S) + SumFunctionOnSet(take, T)
         /\ SumFunctionOnSet(take, T) \in Nat
<1> DEFINE f == [h \in S |-> Allocated(rows, h)]
           g == [h \in S |-> take[h]]
           k == [h \in S |-> Allocated(after, h)]
           t == [h \in T |-> take[h]]
<1>1. IsFiniteSet(S) /\ IsFiniteSet(T)
  BY FiniteHUs, FS_Subset
<1>2. /\ f \in [S -> Nat] /\ g \in [S -> Nat] /\ k \in [S -> Nat] /\ t \in [T -> Nat]
      /\ \A h \in S : k[h] = f[h] + g[h] /\ g[h] = t[h]
      /\ \A h \in T : t[h] = take[h]
  BY AllocatedType
<1>3. HeldOf(after, S) = SumFunction(k) /\ HeldOf(rows, S) = SumFunction(f)
  BY DEF HeldOf
<1> HIDE DEF f, g, k, t
<1>4. SumFunctionOnSet(k, S) = SumFunctionOnSet(f, S) + SumFunctionOnSet(g, S)
  BY <1>1, <1>2, SumPlus
<1>5. SumFunctionOnSet(g, S) \in Int /\ SumFunctionOnSet(f, S) \in Int
  BY <1>1, <1>2, SumType
<1>6. SumFunction(g) <= SumFunction(t)
  <2>1. \A h \in S : g[h] <= IF h \in T THEN t[h] ELSE 0
    BY <1>2
  <2> QED BY <1>2, <2>1, FiniteHUs, SumFunctionWithin
<1>7. SumFunctionOnSet(t, T) = SumFunctionOnSet(take, T)
  BY <1>1, <1>2, SumSame
<1>8. SumFunctionOnSet(take, T) \in Nat
  BY <1>1, SumNatural
<1> QED BY <1>2, <1>3, <1>4, <1>5, <1>6, <1>7, <1>8, SumIsOnDomain

\* allocateFefo takes of eligible pallets, and no more than is free.
LEMMA FefoWithin ==
  ASSUME TypeInv, NEW n \in Nat, NEW h \in HUs
  PROVE  \/ FefoTake(n)[h] = 0
         \/ h \in Eligible /\ FefoTake(n)[h] <= Free(h)
<1> DEFINE near == {e \in Eligible : Sooner(e, h)}
           f == [g \in near |-> Free(g)]
           ahead == SumFunction(f)
<1>1. alloc \in AllocTable /\ hu \in [HUs -> HURow]
  BY DEF TypeInv, TypeOK, AllocTable
<1>2. \A g \in HUs : Free(g) \in Int
  BY <1>1, AllocatedType, Columns DEF Free
<1>3. IsFiniteSet(near) /\ f \in [near -> Int]
  BY <1>2, FiniteHUs, FS_Subset DEF Eligible
<1>4. ahead \in Int
  <2> HIDE DEF near, f
  <2> QED BY <1>3, SumFunctionType
<1>5. FefoTake(n)[h] = IF h \notin Eligible \/ ahead >= n THEN 0
                       ELSE IF Free(h) < n - ahead THEN Free(h) ELSE n - ahead
  BY DEF FefoTake
<1> HIDE DEF ahead
<1> QED BY <1>2, <1>4, <1>5

\* Steps that leave allocations, reserved quantities and pallets alone.
Untouched ==
  /\ UNCHANGED <<alloc, hu, stay>>
  /\ \A b \in Bins : bal'[b].reserved = bal[b].reserved
  /\ request' = request \/ request'.step # "ship"

LEMMA AllocWriters ==
  ASSUME TypeInv, [Next]_vars
  PROVE  \/ Untouched
         \/ \E u \in Units, c \in Customers, kind \in Kinds, plan \in Plans :
              CheckIn(u, c, kind, plan)
         \/ \E h \in HUs, accepted \in BOOLEAN : DecideWhole(h, accepted)
         \/ \E h \in HUs, dest \in Units, key \in Keys \cup {NoKey} :
              \E accepted \in 1..hu[h].qty : DecideSplit(h, accepted, dest, key)
         \/ Segregate
         \/ \E d \in Demands, r \in Requests, key \in Keys \cup {NoKey} :
              Allocate(d, r.n, r.short, key)
         \/ \E h \in HUs, reason \in Reasons : Release(h, reason)
         \/ PostShipment
         \/ CloseRelease
<1> USE DEF clockVars, floorVars, bookVars, ledgerVars, orderVars
<1>b. \A b \in Bins : bal[b] \in Balance
  BY DEF TypeInv, TypeOK
<1>0. UNCHANGED vars => Untouched
  BY DEF vars, Untouched
<1>1. \A u \in Units : CreateUnit(u) => Untouched
  BY DEF CreateUnit, Untouched
<1>2. \A last \in Bins : SyncBins(last) => Untouched
  BY DEF SyncBins, Untouched
<1>3. \A c \in Customers, w \in Windows, key \in Keys \cup {NoKey} :
        Reserve(c, w, key) => Untouched
  BY DEF Reserve, Untouched
<1>4. ActivateReservations => Untouched
  BY DEF ActivateReservations, Untouched, ReceiptOwed, Owed, Idle
<1>5. PostReceipt => Untouched
  <2>1. \A b \in Bins : \A q : Received(bal[b], q).reserved = bal[b].reserved
    BY <1>b DEF Received, Balance
  <2>2. PostReceipt => /\ UNCHANGED <<alloc, hu, stay>> /\ request' = Idle
                       /\ \/ bal' = bal
                          \/ \E b, q : bal' = [bal EXCEPT ![b] = Received(@, q)]
    BY DEF PostReceipt
  <2>3. PostReceipt => \A b \in Bins : bal'[b].reserved = bal[b].reserved
    BY <2>1, <2>2 DEF TypeInv, TypeOK
  <2> QED BY <2>2, <2>3 DEF Untouched, Idle
<1>6. Abort => Untouched
  BY DEF Abort, Untouched, Idle
<1>7. ASSUME NEW b \in Bins, NEW delta \in Deltas, AdjustStock(b, delta) PROVE Untouched
  <2>1. \A n : Counted(bal[b], n).reserved = bal[b].reserved
    BY <1>b DEF Counted, Balance
  <2>2. /\ UNCHANGED <<alloc, hu, stay, request>>
        /\ bal' = [bal EXCEPT ![b] = Counted(@, bal[b].onHand + delta)]
    BY <1>7 DEF AdjustStock
  <2>3. \A c \in Bins : bal'[c].reserved = bal[c].reserved
    BY <2>1, <2>2 DEF TypeInv, TypeOK
  <2> QED BY <2>2, <2>3 DEF Untouched
<1>8. \A active \in ItemStates : UpdateItem(active) => Untouched
  BY DEF UpdateItem, Untouched
<1>9. Tick => Untouched
  BY DEF Tick, Untouched
<1> QED
  BY <1>0, <1>1, <1>2, <1>3, <1>4, <1>5, <1>6, <1>7, <1>8, <1>9 DEF Next

LEMMA Rows ==
  ASSUME TypeInv
  PROVE  /\ alloc \in AllocTable /\ hu \in [HUs -> HURow] /\ stay \in [HUs -> StayRow]
         /\ bal \in [Bins -> Balance]
         /\ \A h \in HUs : Allocated(alloc, h) \in Nat /\ hu[h].qty \in Nat
         /\ \A b \in Bins : StoredIn(b) \subseteq HUs /\ bal[b].reserved \in Int
BY AllocatedType DEF TypeInv, TypeOK, AllocTable, StoredIn, HURow, Balance

GoodsKept ==
  \A h \in HUs : Allocated(alloc, h) # 0 =>
                   hu'[h].qty = hu[h].qty /\ hu'[h].inv = hu[h].inv
PlacesKept ==
  \A h \in HUs : stay'[h].status = "ACTIVE" =>
                   \/ stay'[h] = stay[h]
                   \/ Allocated(alloc, h) = 0 /\ stay'[h].unit # None

\* What is allocated stays where it was, and only what is not comes to new positions.
LEMMA AllocatedKept ==
  ASSUME TypeInv, TypeInv', AllocInv, alloc' = alloc,
         \A b \in Bins : bal'[b].reserved = bal[b].reserved,
         GoodsKept, PlacesKept
  PROVE  AllocationsCovered' /\ StayedSomewhere' /\ AllocatedAccepted'
<1>1. \A h \in HUs : Allocated(alloc, h) \in Nat /\ Allocated(alloc', h) = Allocated(alloc, h)
  BY Rows
<1>2. \A h \in HUs : hu'[h].qty \in Nat
  BY DEF TypeInv, TypeOK, HURow
<1>3. NoOverAllocation'
  BY <1>1, <1>2 DEF GoodsKept, AllocInv, AllocationsCovered, NoOverAllocation
<1>4. ASSUME NEW b \in Bins
      PROVE  bal'[b].reserved >= HeldOf(alloc', StoredIn(b)')
  <2> DEFINE S == StoredIn(b)
             T == StoredIn(b)'
  <2>1. S \in SUBSET HUs /\ T \in SUBSET HUs /\ alloc \in AllocTable
    BY Rows DEF StoredIn
  <2>2. \A h \in T : Allocated(alloc, h) <= IF h \in S THEN Allocated(alloc, h) ELSE 0
    BY <1>1 DEF PlacesKept, StoredIn
  <2> HIDE DEF S, T
  <2>3. HeldOf(alloc, T) <= HeldOf(alloc, S) /\ HeldOf(alloc, T) \in Nat /\ HeldOf(alloc, S) \in Nat
    BY <2>1, <2>2, HeldWithin, HeldType
  <2>4. bal[b].reserved >= HeldOf(alloc, S) /\ bal[b].reserved \in Int
    BY Rows DEF AllocInv, AllocationsCovered, ReservedCoversAllocations, S
  <2> QED BY <2>3, <2>4 DEF T
<1>5. ReservedCoversAllocations'
  BY <1>4 DEF ReservedCoversAllocations
<1>6. StayedSomewhere'
  BY DEF PlacesKept, AllocInv, StayedSomewhere
<1>7. AllocatedAccepted'
  BY <1>1 DEF GoodsKept, AllocInv, AllocatedAccepted
<1> QED BY <1>3, <1>5, <1>6, <1>7 DEF AllocationsCovered

\* What is not accepted is not allocated: neither what is inspected nor what is new.
LEMMA NotAllocated ==
  ASSUME FloorInv, AllocInv, NEW h \in HUs, hu[h].inv # "AVAILABLE"
  PROVE  Allocated(alloc, h) = 0
BY Rows DEF FloorInv, AllocInv, AllocatedAccepted

LEMMA AllocInit == Init => AllocInv
<1> SUFFICES ASSUME Init PROVE AllocInv
  OBVIOUS
<1>1. TypeInv
  BY TypeInit
<1>2. ASSUME NEW h \in HUs PROVE Allocated(alloc, h) = 0
  <2> DEFINE f == [d \in Demands |-> alloc[d][h]]
  <2>1. DOMAIN f = Demands /\ \A d \in Demands : f[d] = 0
    BY DEF Init
  <2>2. SumFunction(f) = 0
    <3> HIDE DEF f
    <3> QED BY <2>1, FiniteHUs, SumFunctionZero
  <2> QED BY <2>2 DEF Allocated
<1>3. ASSUME NEW b \in Bins PROVE bal[b].reserved >= HeldOf(alloc, StoredIn(b))
  <2> DEFINE S == StoredIn(b)
             f == [h \in S |-> Allocated(alloc, h)]
  <2>1. S \in SUBSET HUs
    BY DEF StoredIn
  <2>2. IsFiniteSet(S) /\ DOMAIN f = S /\ \A h \in S : f[h] = 0
    BY <1>2, <2>1, FiniteHUs, FS_Subset
  <2>3. SumFunction(f) = 0
    <3> HIDE DEF f, S
    <3> QED BY <2>2, SumFunctionZero
  <2> QED BY <2>3 DEF HeldOf, Init
<1>4. NoOverAllocation
  BY <1>1, <1>2, Rows DEF NoOverAllocation
<1>5. StayedSomewhere /\ AllocatedAccepted /\ OwedShipment
  BY <1>2 DEF Init, NoStay, Idle, StayedSomewhere, AllocatedAccepted, OwedShipment
<1> QED BY <1>3, <1>4, <1>5 DEF AllocInv, AllocationsCovered, ReservedCoversAllocations

\* The check-in, the decision and the move of a rejected part bring nothing allocated.
LEMMA AllocOnFloor ==
  ASSUME FloorInv, FloorInv', AllocInv,
         \/ \E u \in Units, c \in Customers, kind \in Kinds, plan \in Plans :
              CheckIn(u, c, kind, plan)
         \/ \E h \in HUs, accepted \in BOOLEAN : DecideWhole(h, accepted)
         \/ \E h \in HUs, dest \in Units, key \in Keys \cup {NoKey} :
              \E accepted \in 1..hu[h].qty : DecideSplit(h, accepted, dest, key)
         \/ Segregate
  PROVE  AllocInv'
<1>f. TypeInv /\ TypeInv' /\ FreshRows
  BY DEF FloorInv
<1>k. ASSUME alloc' = alloc, bal' = bal, request'.step # "ship", GoodsKept, PlacesKept
      PROVE  AllocInv'
  <2>1. AllocationsCovered' /\ StayedSomewhere' /\ AllocatedAccepted'
    BY <1>f, <1>k, AllocatedKept
  <2> QED BY <1>k, <2>1 DEF AllocInv, OwedShipment
<1>n. nextHU \in HUs => Allocated(alloc, nextHU) = 0
  <2>1. nextHU \in HUs => hu[nextHU].inv # "AVAILABLE"
    BY <1>f, Ids DEF FreshRows, NoHU
  <2> QED BY <2>1, NotAllocated
<1>i. \A h \in inspecting : Allocated(alloc, h) = 0
  <2>1. \A h \in inspecting : h \in HUs /\ hu[h].inv # "AVAILABLE"
    BY <1>f DEF FloorInv, QualityAgrees, TypeInv, TypeOK
  <2> QED BY <2>1, NotAllocated
<1>1. ASSUME NEW u \in Units, NEW c \in Customers, NEW kind \in Kinds, NEW plan \in Plans,
             CheckIn(u, c, kind, plan)
      PROVE  AllocInv'
  <2>1. alloc' = alloc /\ bal' = bal /\ request'.step # "ship"
    BY <1>1 DEF CheckIn, ledgerVars, orderVars, ReceiptOwed, Owed, Idle
  <2>2. u # None
    BY DEF Units, None
  <2>3. /\ \A h \in HUs \ {nextHU} : hu'[h] = hu[h] /\ stay'[h] = stay[h]
        /\ nextHU \in HUs /\ stay'[nextHU].unit = u
    BY <1>1, <1>f, CheckInEffect
  <2>4. GoodsKept
    BY <1>n, <2>3 DEF GoodsKept
  <2>5. PlacesKept
    BY <1>n, <2>2, <2>3 DEF PlacesKept
  <2> QED BY <1>k, <2>1, <2>4, <2>5
<1>2. ASSUME NEW h \in HUs, NEW accepted \in BOOLEAN, DecideWhole(h, accepted)
      PROVE  AllocInv'
  <2>1. alloc' = alloc /\ bal' = bal /\ request'.step # "ship"
    BY <1>2 DEF DecideWhole, ledgerVars, orderVars, ReceiptOwed, Owed, Idle
  <2>2. h \in inspecting /\ stay' = stay /\ \A g \in HUs \ {h} : hu'[g] = hu[g]
    BY <1>2, <1>f, DecideWholeEffect
  <2>3. GoodsKept /\ PlacesKept
    BY <1>i, <2>2 DEF GoodsKept, PlacesKept
  <2> QED BY <1>k, <2>1, <2>3
<1>3. ASSUME NEW h \in HUs, NEW dest \in Units, NEW key \in Keys \cup {NoKey},
             NEW accepted \in 1..hu[h].qty, DecideSplit(h, accepted, dest, key)
      PROVE  AllocInv'
  <2>1. alloc' = alloc /\ bal' = bal /\ request'.step # "ship"
    BY <1>3 DEF DecideSplit, ledgerVars, orderVars
  <2>2. /\ h \in inspecting /\ nextHU \in HUs /\ stay' = stay
        /\ \A g \in HUs \ {h, nextHU} : hu'[g] = hu[g]
    BY <1>3, <1>f, DecideSplitEffect
  <2>3. GoodsKept /\ PlacesKept
    BY <1>i, <1>n, <2>2 DEF GoodsKept, PlacesKept
  <2> QED BY <1>k, <2>1, <2>3
<1>4. CASE Segregate
  <2>1. alloc' = alloc /\ bal' = bal /\ request'.step # "ship"
    BY <1>4 DEF Segregate, ledgerVars, orderVars, ReceiptOwed, Owed, Idle
  <2>2. /\ request.step = "segregate" /\ request.child \in HUs
        /\ hu[request.child].inv = "REJECTED" /\ request.unit # None
    BY <1>4, <1>f, SegregateEffect DEF FloorInv, PendingSplit, Units, None
  <2>3. Allocated(alloc, request.child) = 0
    BY <2>2, NotAllocated
  <2>4. /\ \A g \in HUs \ {request.child} : hu'[g] = hu[g] /\ stay'[g] = stay[g]
        /\ stay'[request.child].unit = request.unit
    BY <1>4, <1>f, SegregateEffect
  <2>5. GoodsKept
    BY <2>3, <2>4 DEF GoodsKept
  <2>6. PlacesKept
    BY <2>2, <2>3, <2>4 DEF PlacesKept
  <2> QED BY <1>k, <2>1, <2>5, <2>6
<1> QED BY <1>1, <1>2, <1>3, <1>4

LEMMA AllocTakes ==
  ASSUME FloorInv, FloorInv', AllocInv, NEW d \in Demands, NEW r \in Requests,
         NEW key \in Keys \cup {NoKey}, Allocate(d, r.n, r.short, key)
  PROVE  AllocInv'
<1> DEFINE take == FefoTake(r.n)
<1>f. TypeInv /\ alloc \in AllocTable /\ r.n \in Nat
  BY Rows, InputAssumption DEF FloorInv
<1>1. /\ \A h \in HUs : alloc[d][h] = 0
      /\ take \in [HUs -> Nat] /\ alloc' = [alloc EXCEPT ![d] = take]
      /\ UNCHANGED <<hu, stay, request>> /\ request = Idle
  BY DEF Allocate, floorVars
<1>2. \A b \in Bins : TakenFrom(take, b) \in Nat /\ bal'[b] = Promised(bal[b], TakenFrom(take, b))
  BY DEF Allocate
<1>3. ASSUME NEW h \in HUs
      PROVE  take[h] = 0 \/ (h \in Eligible /\ take[h] <= Free(h))
  BY <1>f, FefoWithin DEF take
<1> HIDE DEF take
<1>4. /\ alloc' \in AllocTable
      /\ \A h \in HUs : Allocated(alloc', h) = Allocated(alloc, h) + take[h]
  BY <1>f, <1>1, AllocatedTaken
<1>5. NoOverAllocation'
  <2>1. \A h \in HUs : take[h] = 0 \/ take[h] <= hu[h].qty - Allocated(alloc, h)
    BY <1>3 DEF Free
  <2>2. ASSUME NEW h \in HUs PROVE Allocated(alloc', h) <= hu[h].qty
    <3>1. Allocated(alloc, h) \in Nat /\ hu[h].qty \in Nat /\ take[h] \in Nat
      BY <1>f, <1>1, Rows
    <3>2. Allocated(alloc, h) <= hu[h].qty /\ Allocated(alloc', h) = Allocated(alloc, h) + take[h]
      BY <1>4 DEF AllocInv, AllocationsCovered, NoOverAllocation
    <3> QED BY <2>1, <3>1, <3>2
  <2> QED BY <1>1, <2>2 DEF NoOverAllocation
<1>6. AllocatedAccepted'
  <2>1. \A h \in HUs : take[h] # 0 => hu[h].inv = "AVAILABLE"
    BY <1>3 DEF Eligible
  <2>2. ASSUME NEW h \in HUs, Allocated(alloc', h) > 0 PROVE hu[h].inv = "AVAILABLE"
    <3>1. Allocated(alloc, h) \in Nat /\ take[h] \in Nat
      BY <1>f, <1>1, Rows
    <3>2. Allocated(alloc', h) = Allocated(alloc, h) + take[h]
      BY <1>4
    <3>3. Allocated(alloc, h) > 0 \/ take[h] # 0
      BY <2>2, <3>1, <3>2
    <3> QED BY <2>1, <3>3 DEF AllocInv, AllocatedAccepted
  <2> QED BY <1>1, <2>2 DEF AllocatedAccepted
<1>7. ASSUME NEW b \in Bins PROVE bal'[b].reserved >= HeldOf(alloc', StoredIn(b))
  <2> DEFINE S == StoredIn(b)
             T == {h \in HUs : hu[h].unit # None /\ BinOf[hu[h].unit] = b}
  <2>1. S \in SUBSET HUs /\ T \in SUBSET HUs
    BY DEF StoredIn
  <2>2. S \subseteq T
    BY DEF StoredIn, FloorInv, PositionsAgree, AllocInv, StayedSomewhere
  <2>3. TakenFrom(take, b) = SumFunctionOnSet(take, T)
    BY DEF TakenFrom
  <2> HIDE DEF S, T
  <2>4. /\ HeldOf(alloc', S) <= HeldOf(alloc, S) + TakenFrom(take, b)
        /\ HeldOf(alloc', S) \in Nat /\ HeldOf(alloc, S) \in Nat
    BY <1>f, <1>1, <1>4, <2>1, <2>2, <2>3, HeldTaken, HeldType
  <2>5. bal[b].reserved >= HeldOf(alloc, S) /\ bal[b].reserved \in Int
    BY <1>f, Rows DEF AllocInv, AllocationsCovered, ReservedCoversAllocations, S
  <2>6. bal'[b].reserved = bal[b].reserved + TakenFrom(take, b)
    <3>1. bal[b] \in Balance
      BY <1>f, Rows
    <3> QED BY <1>2, <3>1 DEF Promised, Balance
  <2>7. bal'[b].reserved >= HeldOf(alloc', S)
    BY <1>2, <2>4, <2>5, <2>6
  <2> QED BY <2>7 DEF S
<1>8. ReservedCoversAllocations'
  BY <1>1, <1>7 DEF ReservedCoversAllocations, StoredIn
<1>9. StayedSomewhere' /\ OwedShipment'
  BY <1>1 DEF AllocInv, StayedSomewhere, OwedShipment, Idle
<1> QED BY <1>5, <1>6, <1>8, <1>9 DEF AllocInv, AllocationsCovered

LEMMA AllocReleased ==
  ASSUME FloorInv, FloorInv', AllocInv, NEW h \in HUs, NEW reason \in Reasons,
         Release(h, reason)
  PROVE  AllocInv'
<1>f. TypeInv /\ TypeInv'
  BY DEF FloorInv
<1>1. alloc' = alloc /\ bal' = bal
  BY DEF Release, ledgerVars, orderVars
<1>2. \A g \in HUs : hu'[g].qty = hu[g].qty /\ hu'[g].inv = hu[g].inv
  <2>1. hu[h] \in HURow
    BY <1>f, Rows
  <2>2. hu'[h].qty = hu[h].qty
    BY <1>f, <2>1 DEF Release, TypeInv, TypeOK, HURow
  <2> QED BY <1>f, <2>2, ReleaseEffect
<1>3. \A g \in HUs : stay'[g].status = "ACTIVE" => g # h /\ stay'[g] = stay[g]
  BY <1>f, ReleaseEffect
<1>4. AllocationsCovered' /\ StayedSomewhere' /\ AllocatedAccepted'
  <2>1. GoodsKept /\ PlacesKept
    BY <1>2, <1>3 DEF GoodsKept, PlacesKept
  <2> QED BY <1>f, <1>1, <2>1, AllocatedKept
<1>5. ASSUME request'.step = "ship", NEW b \in Bins, BinOf[request'.unit] = b
      PROVE  bal'[b].reserved >= HeldOf(alloc', StoredIn(b)') + hu'[request'.hu].qty
  <2>1. request'.hu = h /\ request'.unit = hu[h].unit /\ reason = "SHIPPED" /\ hu[h].item
    BY <1>5 DEF Release, Owed, Idle
  <2>2. Allocated(alloc, h) >= hu[h].qty
    BY <2>1 DEF Release, Shippable
  <2>3. hu[h].unit = stay[h].unit /\ stay[h].status = "ACTIVE"
    BY <1>f, ReleaseEffect DEF FloorInv, PositionsAgree
  <2> DEFINE S == StoredIn(b)
             T == StoredIn(b)'
  <2>4. S \in SUBSET HUs /\ T \in SUBSET HUs /\ h \in S /\ alloc \in AllocTable
    BY <1>5, <1>f, <2>1, <2>3, Rows DEF StoredIn
  <2>5. T \subseteq S \ {h}
    BY <1>3 DEF StoredIn
  <2>6. bal[b].reserved >= HeldOf(alloc, S) /\ bal[b].reserved \in Int
    BY <1>f, Rows DEF AllocInv, AllocationsCovered, ReservedCoversAllocations, S
  <2>7. /\ Allocated(alloc, h) \in Nat /\ hu[h].qty \in Nat
        /\ \A g \in HUs : Allocated(alloc, g) <= Allocated(alloc, g)
    BY <1>f, Rows
  <2> HIDE DEF S, T
  <2>8. HeldOf(alloc, S) = Allocated(alloc, h) + HeldOf(alloc, S \ {h})
    BY <2>4, HeldWithout
  <2>9. HeldOf(alloc, T) <= HeldOf(alloc, S \ {h})
    <3>1. \A g \in T : Allocated(alloc, g) <=
                         IF g \in S \ {h} THEN Allocated(alloc, g) ELSE 0
      BY <2>4, <2>5, <2>7
    <3> QED BY <2>4, <3>1, HeldWithin
  <2>10. HeldOf(alloc, T) \in Nat /\ HeldOf(alloc, S \ {h}) \in Nat
    BY <2>4, HeldType
  <2>11. bal[b].reserved >= HeldOf(alloc, T) + hu[h].qty
    BY <2>2, <2>6, <2>7, <2>8, <2>9, <2>10
  <2> QED BY <1>1, <1>2, <2>1, <2>11 DEF T
<1>6. OwedShipment'
  BY <1>5 DEF OwedShipment
<1> QED BY <1>4, <1>6 DEF AllocInv

LEMMA AllocShipped ==
  ASSUME FloorInv, FloorInv', AllocInv, PostShipment
  PROVE  AllocInv'
<1> DEFINE h == request.hu
           b == BinOf[request.unit]
<1>f. TypeInv /\ TypeInv'
  BY DEF FloorInv
<1>1. UNCHANGED <<alloc, hu, stay>> /\ request.step = "ship" /\ request'.step = "close"
  BY DEF PostShipment, floorVars, orderVars, Owed, Idle
<1>2. OwedShipment'
  BY <1>1 DEF OwedShipment
<1>3. CASE bal' = bal
  <2>1. GoodsKept /\ PlacesKept
    BY <1>1 DEF GoodsKept, PlacesKept
  <2>2. AllocationsCovered' /\ StayedSomewhere' /\ AllocatedAccepted'
    BY <1>f, <1>1, <1>3, <2>1, AllocatedKept
  <2> QED BY <1>2, <2>2 DEF AllocInv
<1>4. CASE /\ request.unit # None /\ b # None
           /\ bal' = [bal EXCEPT ![b] = Shipped(@, hu[h].qty)]
  <2>1. h \in HUs /\ request.unit \in Units /\ b \in Bins
    BY <1>1, <1>4, <1>f, LayoutAssumption DEF TypeInv, TypeOK, RequestOK, Request, None
  <2>2. /\ bal[b] \in Balance /\ hu[h].qty \in Nat
        /\ \A c \in Bins : bal[c].reserved \in Int
    BY <1>f, <2>1, Rows
  <2>3. Shipped(bal[b], hu[h].qty).reserved = bal[b].reserved - hu[h].qty
    BY <2>2 DEF Shipped, Balance
  <2>4. \A c \in Bins : bal'[c].reserved = IF c = b THEN bal[b].reserved - hu[h].qty
                                           ELSE bal[c].reserved
    <3>1. bal \in [Bins -> Balance]
      BY <1>f, Rows
    <3> QED BY <1>4, <2>1, <2>3, <3>1
  <2>5. bal[b].reserved >= HeldOf(alloc, StoredIn(b)) + hu[h].qty
    BY <1>1, <2>1 DEF AllocInv, OwedShipment
  <2>6. \A c \in Bins : bal[c].reserved >= HeldOf(alloc, StoredIn(c)) /\ HeldOf(alloc, StoredIn(c)) \in Nat
    BY <1>f, Rows, HeldType DEF AllocInv, AllocationsCovered, ReservedCoversAllocations
  <2>7. \A c \in Bins : bal'[c].reserved >= HeldOf(alloc, StoredIn(c))
    BY <2>1, <2>2, <2>4, <2>5, <2>6
  <2>8. ReservedCoversAllocations'
    BY <1>1, <2>7 DEF ReservedCoversAllocations, StoredIn
  <2>9. NoOverAllocation' /\ StayedSomewhere' /\ AllocatedAccepted'
    BY <1>1 DEF AllocInv, AllocationsCovered, NoOverAllocation, StayedSomewhere, AllocatedAccepted
  <2> QED BY <1>2, <2>8, <2>9 DEF AllocInv, AllocationsCovered
<1> QED BY <1>3, <1>4 DEF PostShipment, ledgerVars

LEMMA AllocClosed ==
  ASSUME FloorInv, FloorInv', AllocInv, CloseRelease
  PROVE  AllocInv'
<1> DEFINE h == request.hu
<1>f. TypeInv /\ alloc \in AllocTable
  BY Rows DEF FloorInv
<1>1. /\ alloc' = [d \in Demands |-> [alloc[d] EXCEPT ![h] = 0]]
      /\ UNCHANGED <<bal, hu, stay>> /\ request' = Idle
  BY DEF CloseRelease, floorVars, ledgerVars
<1>2. /\ alloc' \in AllocTable
      /\ \A d \in Demands, g \in HUs : alloc'[d][g] = IF g = h THEN 0 ELSE alloc[d][g]
  BY <1>f, <1>1 DEF AllocTable
<1>3. ASSUME NEW g \in HUs
      PROVE  Allocated(alloc', g) = IF g = h THEN 0 ELSE Allocated(alloc, g)
  <2> DEFINE f == [d \in Demands |-> alloc[d][g]]
             k == [d \in Demands |-> alloc'[d][g]]
  <2>1. Allocated(alloc', g) = SumFunction(k) /\ Allocated(alloc, g) = SumFunction(f)
    BY DEF Allocated
  <2>2. CASE g = h
    <3>1. DOMAIN k = Demands /\ \A d \in Demands : k[d] = 0
      BY <1>2, <2>2
    <3> HIDE DEF k, f
    <3> QED BY <2>1, <2>2, <3>1, FiniteHUs, SumFunctionZero
  <2>3. CASE g # h
    <3>1. k = f
      BY <1>2, <2>3
    <3> HIDE DEF k, f
    <3> QED BY <2>1, <2>3, <3>1
  <2> QED BY <2>2, <2>3
<1>4. \A g \in HUs : /\ Allocated(alloc, g) \in Nat /\ Allocated(alloc', g) \in Nat
                     /\ Allocated(alloc', g) <= Allocated(alloc, g)
  BY <1>f, <1>2, <1>3, AllocatedType
<1>5. NoOverAllocation' /\ StayedSomewhere' /\ AllocatedAccepted'
  BY <1>f, <1>1, <1>4, Rows
     DEF AllocInv, AllocationsCovered, NoOverAllocation, StayedSomewhere, AllocatedAccepted
<1>6. ASSUME NEW b \in Bins PROVE bal[b].reserved >= HeldOf(alloc', StoredIn(b))
  <2>1. /\ StoredIn(b) \in SUBSET HUs /\ bal[b].reserved \in Int
        /\ bal[b].reserved >= HeldOf(alloc, StoredIn(b))
    BY <1>f, Rows DEF AllocInv, AllocationsCovered, ReservedCoversAllocations
  <2>2. \A g \in StoredIn(b) : Allocated(alloc', g) <=
                                 IF g \in StoredIn(b) THEN Allocated(alloc, g) ELSE 0
    BY <1>4, <2>1
  <2>3. HeldOf(alloc', StoredIn(b)) <= HeldOf(alloc, StoredIn(b))
    BY <1>f, <1>2, <2>1, <2>2, HeldWithin
  <2>4. HeldOf(alloc', StoredIn(b)) \in Nat /\ HeldOf(alloc, StoredIn(b)) \in Nat
    BY <1>f, <1>2, <2>1, HeldType
  <2> QED BY <2>1, <2>3, <2>4
<1>7. ReservedCoversAllocations'
  BY <1>1, <1>6 DEF ReservedCoversAllocations, StoredIn
<1>8. OwedShipment'
  BY <1>1 DEF OwedShipment, Idle
<1> QED BY <1>5, <1>7, <1>8 DEF AllocInv, AllocationsCovered

LEMMA AllocNext == FloorInv /\ AllocInv /\ [Next]_vars => AllocInv'
<1> SUFFICES ASSUME FloorInv, AllocInv, [Next]_vars PROVE AllocInv'
  OBVIOUS
<1>f. TypeInv /\ FloorInv' /\ TypeInv'
  BY FloorNext DEF FloorInv
<1>1. CASE Untouched
  <2>1. AllocationsCovered' /\ StayedSomewhere' /\ AllocatedAccepted'
    BY <1>1, <1>f, AllocatedKept DEF Untouched, GoodsKept, PlacesKept
  <2>2. OwedShipment'
    BY <1>1 DEF Untouched, AllocInv, OwedShipment, StoredIn
  <2> QED BY <2>1, <2>2 DEF AllocInv
<1>2. \A d \in Demands, r \in Requests, key \in Keys \cup {NoKey} :
        Allocate(d, r.n, r.short, key) => AllocInv'
  BY <1>f, AllocTakes
<1>3. \A h \in HUs, reason \in Reasons : Release(h, reason) => AllocInv'
  BY <1>f, AllocReleased
<1>4. PostShipment \/ CloseRelease => AllocInv'
  BY <1>f, AllocShipped, AllocClosed
<1> QED BY <1>f, <1>1, <1>2, <1>3, <1>4, AllocWriters, AllocOnFloor

(* What demands are promised is there, on the pallet and in the balance of  *)
(* its bin, wherever a shipment is cut off.                                *)
THEOREM AllocationsSafe == Spec => []AllocationsCovered
<1>1. AllocInv => AllocationsCovered
  BY DEF AllocInv
<1> QED
  BY <1>1, FloorInit, FloorNext, AllocInit, AllocNext, PTL DEF Spec
=============================================================================
