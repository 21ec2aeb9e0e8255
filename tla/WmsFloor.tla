------------------------------ MODULE WmsFloor ------------------------------
(***************************************************************************)
(* The warehouse floor of opstrax-supplyops-v1: capacity positions, the    *)
(* handling units (pallets) that stay in them, quality inspection, booking *)
(* of positions ahead of time, allocation of stock to demands, and the     *)
(* posting of each pallet to the inventory ledger.                         *)
(*                                                                         *)
(* Code: src/wms.js (the base handlers), src/wms-safety.js (the wrappers   *)
(* that wms-server.js routes to), and the one handler of src/services.js   *)
(* that writes the same ledger rows by hand.                               *)
(*                                                                         *)
(* One Node process serves every request, and each database call blocks    *)
(* it, so a handler runs without interruption once its body is parsed.     *)
(* But a handler commits in up to three transactions, and the process may  *)
(* die, or a later transaction may throw, after an earlier one committed.  *)
(* `request' holds the transactions the handler in progress still owes:    *)
(* each transaction is one action, no other handler starts while one is    *)
(* owed, and Abort drops what is owed.                                     *)
(***************************************************************************)
EXTENDS Integers, FiniteSets, FiniteSetsExt

CONSTANTS
  NumUnits,    \* capacity positions, numbered in the order of their codes
  NumBins,     \* inventory bins, numbered in the order of their codes
  BinOf,       \* the bin_id of each position, 0 for a position without bin
  InitUnits,   \* the positions that exist at start
  Customers,   \* customer references
  Demands,     \* (demandType, demandId) pairs that stock is allocated to
  Keys,        \* clientRequestId values a client may send
  Kinds,       \* check-in inputs: [item, qc : BOOLEAN, qty : Nat, expiry : Nat]
  Plans,       \* check-in inputs: [until : Nat, firm : BOOLEAN]
  Windows,     \* reservation inputs: [from, until, n : Nat]
  Requests,    \* allocation inputs: [n : Nat, short : BOOLEAN]
  Reasons,     \* release inputs, a subset of {"SHIPPED", "OTHER"}
  Deltas,      \* hand adjustments of a balance
  ItemStates,  \* whether the item may be ACTIVE, and not
  MaxHU,       \* bound: handling units ever created
  MaxRes,      \* bound: reservations ever made
  MaxStock,    \* bound: on-hand quantity a hand adjustment may reach
  MaxTime,     \* bound: the clock
  Never        \* a date beyond the clock: stands for a null expiry or release

Units == 1..NumUnits
Bins == 1..NumBins
HUs == 1..MaxHU
None == 0      \* a null reference: no unit, no bin, no handling unit
NoKey == "no key"
NoOwner == "no owner"

ASSUME SizeAssumption ==
  /\ NumUnits \in Nat /\ NumBins \in Nat /\ MaxHU \in Nat
  /\ MaxRes \in Nat /\ MaxStock \in Nat /\ MaxTime \in Nat /\ Never \in Nat
ASSUME LayoutAssumption ==
  /\ BinOf \in [Units -> Bins \cup {None}]
  /\ InitUnits \subseteq Units
ASSUME InputAssumption ==
  /\ \A k \in Kinds : /\ k.item \in BOOLEAN /\ k.qc \in BOOLEAN
                      /\ k.qty \in Nat \ {0} /\ k.expiry \in Nat
  /\ \A p \in Plans : p.until \in Nat /\ p.firm \in BOOLEAN
  /\ \A w \in Windows : /\ w.from \in Nat /\ w.until \in Nat
                        /\ w.n \in Nat \ {0}
  /\ \A r \in Requests : r.n \in Nat \ {0} /\ r.short \in BOOLEAN
  /\ Reasons \subseteq {"SHIPPED", "OTHER"} /\ IsFiniteSet(Demands)
  /\ Deltas \subseteq Int /\ ItemStates \subseteq BOOLEAN

VARIABLES
  now,         \* the clock, in ticks
  itemActive,  \* the item is ACTIVE (one item: ledger rows of two never mix)
  units,       \* rows of wms_capacity_units
  unitStatus,  \* their status column
  hu,          \* rows of wms_handling_units
  nextHU,      \* the next handling unit to be created
  stay,        \* rows of wms_space_occupancies: each handling unit has one at most
  inspecting,  \* handling units with a PENDING row in wms_quality_inspections
  res,         \* rows of wms_space_reservations
  bal,         \* rows of stock_balances of the item, by bin
  moved,       \* rows of stock_movements of the warehouse: WMS_RECEIVE, WMS_SHIP
  adjusted,    \* sum of the ADJUSTMENT rows of stock_movements, by bin
  alloc,       \* ALLOCATED quantity in wms_allocations, by demand and unit
  events,      \* idempotency keys in wms_operational_events that can collide
  billed,      \* rows of wms_billable_events of each handling unit, counted
  request      \* transactions that the handler in progress still owes

clockVars == <<now, itemActive>>
floorVars == <<units, unitStatus, hu, nextHU, stay, inspecting>>
bookVars == <<res>>
ledgerVars == <<bal, moved, adjusted>>
orderVars == <<alloc, events>>
vars == <<clockVars, floorVars, bookVars, ledgerVars, orderVars, billed, request>>

Inventory == {"NONE", "RECEIVED_NOT_INSPECTED", "AVAILABLE", "REJECTED"}
Progress == {"NONE", "RECEIVED", "HOLD", "SHIPPED", "RELEASED"}
Booking == {"CONFIRMED", "ACTIVE", "FULFILLED"}
HURow == [inv : Inventory, status : Progress,
          qty : Nat, unit : Units \cup {None}, owner : Customers \cup {NoOwner},
          item : BOOLEAN, expiry : Nat, parent : HUs \cup {None}]
StayRow == [status : {"NONE", "ACTIVE", "CLOSED"}, unit : Units \cup {None},
            from : Nat, until : Nat, firm : BOOLEAN]
ResRow == [unit : Units, cust : Customers, from : Nat, until : Nat,
           status : Booking, key : Keys \cup {NoKey}, made : 0..MaxRes]
Balance == [onHand : Int, reserved : Int, available : Int]
BillKinds == {"RECEIVING", "STORAGE", "OUTBOUND"}
Steps == {"idle", "activate", "segregate", "receipt", "ship", "close"}
Request == [step : Steps, hu : HUs \cup {None}, child : HUs \cup {None},
            unit : Units \cup {None}, key : Keys \cup {NoKey}]

NoHU == [inv |-> "NONE", status |-> "NONE", qty |-> 0, unit |-> None,
         owner |-> NoOwner, item |-> FALSE, expiry |-> 0, parent |-> None]
NoStay == [status |-> "NONE", unit |-> None, from |-> 0, until |-> 0, firm |-> FALSE]
Idle == [step |-> "idle", hu |-> None, child |-> None, unit |-> None, key |-> NoKey]
Owed(step, h, u) == [Idle EXCEPT !.step = step, !.hu = h, !.unit = u]

-----------------------------------------------------------------------------
(* Queries of the code.                                                    *)

\* The live reservation statuses of every query; HELD is read but never written.
Live(r) == r.status \in {"CONFIRMED", "ACTIVE"}

\* intervalsOverlap: half-open intervals.
Overlap(fromA, untilA, fromB, untilB) == fromA < untilB /\ fromB < untilA

StayAt(h, u) == stay[h].status = "ACTIVE" /\ stay[h].unit = u
\* Fault for Occupied: a position that only holds rejected goods counts as free.
OccupiedByGoods(u) == \E h \in HUs : StayAt(h, u) /\ hu[h].status = "RECEIVED"
Occupied(u) == \E h \in HUs : StayAt(h, u)

\* overlappingReservations of the safe check-in.
BookedDuring(u, from, until) ==
  {r \in res : r.unit = u /\ Live(r) /\ r.until > from /\ r.from < until}

\* Fault for StatusOf: the status of the reservation is written to the position.
StatusCopied(u, stays, rs) ==
  IF \E h \in HUs : stays[h].status = "ACTIVE" /\ stays[h].unit = u THEN "OCCUPIED"
  ELSE IF \E r \in rs : r.unit = u /\ Live(r) THEN "CONFIRMED" ELSE "AVAILABLE"
\* refreshCapacityStatus, with the stays and reservations of the transaction.
StatusOf(u, stays, rs) ==
  IF \E h \in HUs : stays[h].status = "ACTIVE" /\ stays[h].unit = u THEN "OCCUPIED"
  ELSE IF \E r \in rs : r.unit = u /\ Live(r) /\ r.from <= now /\ r.until > now
       THEN "RESERVED"
  ELSE "AVAILABLE"

\* Fault for Bookable: a position is judged at the start of the booking alone.
BookableAtStart(from, until) ==
  {u \in units :
     /\ \A h \in HUs : StayAt(h, u) => stay[h].until <= from /\ stay[h].firm
     /\ \A r \in res : r.unit = u /\ Live(r) => ~(r.from <= from /\ from < r.until)}
\* selectBookableUnits: positions whose stay firmly ends by then and that no
\* live reservation overlaps.
Bookable(from, until) ==
  {u \in units :
     /\ \A h \in HUs : StayAt(h, u) => stay[h].until <= from /\ stay[h].firm
     /\ \A r \in res : r.unit = u /\ Live(r) => ~Overlap(from, until, r.from, r.until)}

\* What each posting does to a row of stock_balances.
Received(row, q) == [row EXCEPT !.onHand = @ + q, !.available = @ + q]
Promised(row, q) == [row EXCEPT !.reserved = @ + q, !.available = @ - q]
Shipped(row, q) == [row EXCEPT !.onHand = @ - q, !.reserved = @ - q]
Counted(row, onHand) ==
  LET free == onHand - row.reserved
  IN [row EXCEPT !.onHand = onHand, !.available = IF free > 0 THEN free ELSE 0]

Movement(type, h, b, q) == [type |-> type, hu |-> h, bin |-> b, qty |-> q]
Posted(type, h) == \E m \in moved : m.type = type /\ m.hu = h

\* What the demands of a table of allocations hold of a handling unit.
Allocated(rows, h) == SumFunction([d \in Demands |-> rows[d][h]])
Free(h) == hu[h].qty - Allocated(alloc, h)

\* The handling units that allocateWmsInventorySafe hands to allocateFefo.
Eligible ==
  {h \in HUs : /\ hu[h].item /\ hu[h].inv = "AVAILABLE"
               /\ hu[h].status \notin {"RELEASED", "SHIPPED"}
               /\ Free(h) > 0}

\* allocateFefo's order: by expiry, then by time of receipt.
Sooner(g, h) ==
  \/ hu[g].expiry < hu[h].expiry
  \/ hu[g].expiry = hu[h].expiry /\ g < h

\* allocateFefo: what it takes of each unit when n are requested.
FefoTake(n) ==
  [h \in HUs |->
     LET ahead == SumFunction([g \in {e \in Eligible : Sooner(e, h)} |-> Free(g)])
     IN IF h \notin Eligible \/ ahead >= n THEN 0
        ELSE IF Free(h) < n - ahead THEN Free(h) ELSE n - ahead]

\* Fault for TakenFrom: two entries of one bin update its balance row only once.
TakenFromOnce(take, b) ==
  LET here == {take[h] : h \in {g \in HUs : hu[g].unit # None /\ BinOf[hu[g].unit] = b}}
  IN IF here = {} THEN 0 ELSE Max(here)
TakenFrom(take, b) ==
  SumFunctionOnSet(take, {h \in HUs : hu[h].unit # None /\ BinOf[hu[h].unit] = b})

\* Fault for ReceiptOwed: stock-keeping goods are posted before they are accepted.
ReceiptOwedByAll(h, item, inv, u) == IF item THEN Owed("receipt", h, u) ELSE Idle
\* The transaction a handler owes once the stay and status of h are settled.
ReceiptOwed(h, item, inv, u) ==
  IF item /\ inv = "AVAILABLE" THEN Owed("receipt", h, u) ELSE Idle

-----------------------------------------------------------------------------
Init ==
  /\ now = 0 /\ itemActive = TRUE
  /\ units = InitUnits
  /\ unitStatus = [u \in Units |-> "AVAILABLE"]
  /\ hu = [h \in HUs |-> NoHU]
  /\ nextHU = 1
  /\ stay = [h \in HUs |-> NoStay]
  /\ inspecting = {}
  /\ res = {}
  /\ bal = [b \in Bins |-> [onHand |-> 0, reserved |-> 0, available |-> 0]]
  /\ moved = {}
  /\ adjusted = [b \in Bins |-> 0]
  /\ alloc = [d \in Demands |-> [h \in HUs |-> 0]]
  /\ events = {}
  /\ billed = [h \in HUs |-> [k \in BillKinds |-> 0]]
  /\ request = Idle

(* createWmsCapacityUnit: a position of a fixed bin, or of none. *)
CreateUnit(u) ==
  /\ request = Idle
  /\ u \notin units
  /\ units' = units \cup {u}
  /\ UNCHANGED <<clockVars, unitStatus, hu, nextHU, stay, inspecting, bookVars,
                 ledgerVars, orderVars, billed, request>>

(* syncWmsCapacityFromBins, and the same statement run at every start: one  *)
(* position for each bin that has none. The loop runs in code order outside *)
(* any transaction, so a crash leaves it done up to bin `last'.             *)
SyncBins(last) ==
  LET made == {u \in Units : /\ BinOf[u] \in 1..last
                             /\ \A v \in units : BinOf[v] # BinOf[u]
                             /\ \A v \in Units : BinOf[v] = BinOf[u] => u <= v}
  IN /\ request = Idle
     /\ made # {}
     /\ units' = units \cup made
     /\ UNCHANGED <<clockVars, unitStatus, hu, nextHU, stay, inspecting, bookVars,
                    ledgerVars, orderVars, billed, request>>

(* reserveWmsCapacity: the first w.n bookable positions in code order. The *)
(* key is written to SPACE_RESERVED; finding it there only changes the     *)
(* answer, after the rows have been inserted. Rows are never deleted, so   *)
(* `made', their number when a row is inserted, tells its request apart as *)
(* the row's own id does.                                                  *)
Reserve(c, w, key) ==
  LET free == Bookable(w.from, w.until)
      chosen == {u \in free : Cardinality({v \in free : v < u}) < w.n}
      booked == [unit : chosen, cust : {c}, from : {w.from}, until : {w.until},
                 status : {"CONFIRMED"}, key : {key}, made : {Cardinality(res)}]
  IN /\ request = Idle
     /\ w.from < w.until
     /\ Cardinality(free) >= w.n
     /\ Cardinality(res) \in 0..(MaxRes - w.n)
     /\ res' = res \cup booked
     /\ unitStatus' = [u \in Units |-> IF u \in chosen THEN StatusOf(u, stay, res')
                                       ELSE unitStatus[u]]
     /\ events' = events \cup (IF key = NoKey THEN {} ELSE {<<"SPACE_RESERVED", key>>})
     /\ UNCHANGED <<clockVars, units, hu, nextHU, stay, inspecting, ledgerVars,
                    alloc, billed, request>>

-----------------------------------------------------------------------------
(* Check-in: checkInWmsHandlingUnitSafe around checkInWmsHandlingUnit.     *)

(* First transaction: the handling unit, its stay, its inspection, its     *)
(* RECEIVING bill. Each check-in brings a fresh LPN: a known one is refused. *)
CheckIn(u, c, kind, plan) ==
  LET inv == IF kind.qc THEN "RECEIVED_NOT_INSPECTED" ELSE "AVAILABLE"
      booked == BookedDuring(u, now, plan.until)
  IN /\ request = Idle
     /\ nextHU <= MaxHU
     /\ u \in units
     /\ kind.item => itemActive /\ BinOf[u] # None
     /\ \A r \in booked : r.cust = c
     /\ ~Occupied(u)
     /\ hu' = [hu EXCEPT ![nextHU] =
                [inv |-> inv, status |-> "RECEIVED", qty |-> kind.qty, unit |-> u,
                 owner |-> c, item |-> kind.item, expiry |-> kind.expiry,
                 parent |-> None]]
     /\ nextHU' = nextHU + 1
     /\ stay' = [stay EXCEPT ![nextHU] =
                  [status |-> "ACTIVE", unit |-> u, from |-> now,
                   until |-> plan.until, firm |-> plan.firm]]
     /\ unitStatus' = [unitStatus EXCEPT ![u] = "OCCUPIED"]
     /\ inspecting' = IF kind.qc THEN inspecting \cup {nextHU} ELSE inspecting
     /\ billed' = [billed EXCEPT ![nextHU]["RECEIVING"] = @ + 1]
     /\ request' = IF booked # {} THEN Owed("activate", nextHU, u)
                   ELSE ReceiptOwed(nextHU, kind.item, inv, u)
     /\ UNCHANGED <<clockVars, units, bookVars, ledgerVars, orderVars>>

(* Second transaction: the customer's reservations this stay overlaps.     *)
ActivateReservations ==
  LET h == request.hu
      taken == BookedDuring(stay[h].unit, stay[h].from, stay[h].until)
  IN /\ request.step = "activate"
     /\ res' = (res \ taken) \cup {[r EXCEPT !.status = "ACTIVE"] : r \in taken}
     /\ request' = ReceiptOwed(h, hu[h].item, hu[h].inv, request.unit)
     /\ UNCHANGED <<clockVars, floorVars, ledgerVars, orderVars, billed>>

(* postCanonicalReceipt: the last transaction of a check-in without        *)
(* inspection and of a quality decision. It throws when the item is not    *)
(* ACTIVE or the unit has no bin (then only Abort is left), and does       *)
(* nothing when the WMS_RECEIVE movement exists.                           *)
PostReceipt ==
  LET h == request.hu
      u == request.unit
      b == BinOf[u]
      q == hu[h].qty
  IN /\ request.step = "receipt"
     /\ itemActive
     /\ request' = Idle
     /\ IF Posted("WMS_RECEIVE", h)
        THEN UNCHANGED ledgerVars
        ELSE /\ u # None /\ b # None
             /\ bal' = [bal EXCEPT ![b] = Received(@, q)]
             /\ moved' = moved \cup {Movement("WMS_RECEIVE", h, b, q)}
             /\ UNCHANGED adjusted
     /\ UNCHANGED <<clockVars, floorVars, bookVars, orderVars, billed>>

-----------------------------------------------------------------------------
(* Quality: recordWmsQualitySafe around recordWmsQuality.                  *)

(* First transaction, all accepted or all rejected. *)
DecideWhole(h, accepted) ==
  LET inv == IF accepted THEN "AVAILABLE" ELSE "REJECTED"
  IN /\ request = Idle
     /\ h \in inspecting
     /\ inspecting' = inspecting \ {h}
     /\ hu' = [hu EXCEPT ![h] =
                [@ EXCEPT !.inv = inv,
                          !.status = IF accepted THEN "RECEIVED" ELSE "HOLD"]]
     /\ request' = ReceiptOwed(h, hu[h].item, inv, hu[h].unit)
     /\ UNCHANGED <<clockVars, units, unitStatus, nextHU, stay, bookVars, ledgerVars,
                    orderVars, billed>>

(* First transaction, some of each: the accepted part stays, the rejected  *)
(* part becomes a handling unit of its own, at first in the same position. *)
DecideSplit(h, accepted, dest, key) ==
  /\ request = Idle
  /\ nextHU <= MaxHU
  /\ h \in inspecting
  /\ accepted > 0 /\ accepted < hu[h].qty
  /\ dest \in units /\ dest # hu[h].unit /\ ~Occupied(dest)
  /\ inspecting' = inspecting \ {h}
  /\ hu' = [hu EXCEPT ![h] = [@ EXCEPT !.qty = accepted, !.inv = "AVAILABLE",
                                       !.status = "RECEIVED"],
                      ![nextHU] = [hu[h] EXCEPT !.qty = hu[h].qty - accepted,
                                                !.inv = "REJECTED", !.status = "HOLD",
                                                !.parent = h]]
  /\ nextHU' = nextHU + 1
  /\ request' = [step |-> "segregate", hu |-> h, child |-> nextHU, unit |-> dest,
                 key |-> key]
  /\ UNCHANGED <<clockVars, units, unitStatus, stay, bookVars, ledgerVars, orderVars,
                 billed>>

(* Second transaction of a split: the rejected part gets a stay in the     *)
(* destination. The event insert throws when its key is taken.             *)
Segregate ==
  LET h == request.hu
      c == request.child
      key == request.key
  IN /\ request.step = "segregate"
     /\ <<"QUALITY_REJECT_SEGREGATED", key>> \notin events
     /\ hu' = [hu EXCEPT ![c] = [@ EXCEPT !.unit = request.unit]]
     /\ stay' = [stay EXCEPT ![c] = [status |-> "ACTIVE", unit |-> request.unit,
                                     from |-> now, until |-> Never, firm |-> FALSE]]
     /\ unitStatus' = [unitStatus EXCEPT ![request.unit] = "OCCUPIED"]
     /\ events' = events \cup (IF key = NoKey THEN {}
                               ELSE {<<"QUALITY_REJECT_SEGREGATED", key>>})
     /\ request' = ReceiptOwed(h, hu[h].item, hu[h].inv, hu[h].unit)
     /\ UNCHANGED <<clockVars, units, nextHU, inspecting, bookVars, ledgerVars, alloc,
                    billed>>

-----------------------------------------------------------------------------
(* allocateWmsInventorySafe. A demand with live allocations is answered    *)
(* from them or refused. Each entry of the plan is checked on its own      *)
(* against the balance of its bin. The event key defaults to the demand.   *)
Allocate(d, n, short, key) ==
  LET take == FefoTake(n)
      taken == {h \in HUs : take[h] > 0}
      given == [b \in Bins |-> TakenFrom(take, b)]
      event == <<"INVENTORY_ALLOCATED", IF key = NoKey THEN d ELSE key>>
  IN /\ request = Idle
     /\ itemActive
     /\ \A h \in HUs : alloc[d][h] = 0
     /\ short \/ SumFunctionOnSet(take, taken) = n
     /\ \A h \in taken : /\ hu[h].unit # None
                         /\ BinOf[hu[h].unit] # None
                         /\ bal[BinOf[hu[h].unit]].available >= take[h]
     /\ event \notin events
     /\ events' = events \cup {event}
     /\ take \in [HUs -> Nat] /\ given \in [Bins -> Nat]
     /\ alloc' = [alloc EXCEPT ![d] = take]
     /\ bal' = [b \in Bins |-> Promised(bal[b], given[b])]
     /\ UNCHANGED <<clockVars, floorVars, bookVars, moved, adjusted, billed, request>>

-----------------------------------------------------------------------------
(* Release: releaseWmsHandlingUnitSafe around releaseWmsHandlingUnit.      *)

\* What the wrapper checks before a customer shipment.
Shippable(h) ==
  /\ hu[h].inv = "AVAILABLE"
  /\ hu[h].item =>
       LET b == BinOf[hu[h].unit]
       IN /\ Posted("WMS_RECEIVE", h)
          /\ Allocated(alloc, h) >= hu[h].qty
          /\ hu[h].unit # None /\ b # None
          /\ bal[b].onHand >= hu[h].qty /\ bal[b].reserved >= hu[h].qty

\* Fault for HasStay: any stay is found, whatever its status.
HadStay(h) == stay[h].status # "NONE"
HasStay(h) == stay[h].status = "ACTIVE"

(* First transaction: the stay ends, the position is free, the stay is billed. *)
Release(h, reason) ==
  LET ended == [stay EXCEPT ![h] = [@ EXCEPT !.status = "CLOSED"]]
      u == stay[h].unit
  IN /\ request = Idle
     /\ reason = "SHIPPED" => Shippable(h)
     /\ HasStay(h)
     /\ stay' = ended
     /\ hu' = [hu EXCEPT ![h] =
                [@ EXCEPT !.status = IF reason = "SHIPPED" THEN "SHIPPED" ELSE "RELEASED",
                          !.unit = None]]
     /\ unitStatus' = [unitStatus EXCEPT ![u] = StatusOf(u, ended, res)]
     /\ billed' = [billed EXCEPT ![h]["STORAGE"] = @ + 1, ![h]["OUTBOUND"] = @ + 1]
     /\ request' = IF reason = "SHIPPED" /\ hu[h].item THEN Owed("ship", h, hu[h].unit)
                   ELSE Owed("close", h, u)
     /\ UNCHANGED <<clockVars, units, nextHU, inspecting, bookVars, ledgerVars, orderVars>>

(* Second transaction of a shipment: postCanonicalShipment. *)
PostShipment ==
  LET h == request.hu
      b == BinOf[request.unit]
      q == hu[h].qty
  IN /\ request.step = "ship"
     /\ request' = Owed("close", h, stay[h].unit)
     /\ IF Posted("WMS_SHIP", h)
        THEN UNCHANGED ledgerVars
        ELSE /\ request.unit # None /\ b # None
             /\ bal[b].onHand >= q /\ bal[b].reserved >= q
             /\ bal' = [bal EXCEPT ![b] = Shipped(@, q)]
             /\ moved' = moved \cup {Movement("WMS_SHIP", h, b, q)}
             /\ UNCHANGED adjusted
     /\ UNCHANGED <<clockVars, floorVars, bookVars, orderVars, billed>>

(* Last transaction: the customer's ACTIVE reservations of the position and *)
(* the allocations of the handling unit are FULFILLED.                      *)
CloseRelease ==
  LET h == request.hu
      done == {r \in res : /\ r.unit = request.unit /\ r.cust = hu[h].owner
                           /\ r.status = "ACTIVE"}
  IN /\ request.step = "close"
     /\ res' = (res \ done) \cup {[r EXCEPT !.status = "FULFILLED"] : r \in done}
     /\ alloc' = [d \in Demands |-> [alloc[d] EXCEPT ![h] = 0]]
     /\ request' = Idle
     /\ UNCHANGED <<clockVars, floorVars, ledgerVars, events, billed>>

-----------------------------------------------------------------------------
(* The process dies, or the next transaction throws (a key that is taken,  *)
(* an item no longer ACTIVE, a database error): what was committed stays.  *)
Abort ==
  /\ request # Idle
  /\ request' = Idle
  /\ UNCHANGED <<clockVars, floorVars, bookVars, ledgerVars, orderVars, billed>>

\* Fault for AdjustStock: the quantity on hand is floored instead of refused.
AdjustStockFloored(b, delta) ==
  LET onHand == IF bal[b].onHand + delta < 0 THEN 0 ELSE bal[b].onHand + delta
  IN /\ request = Idle
     /\ onHand <= MaxStock
     /\ bal' = [bal EXCEPT ![b] = Counted(@, onHand)]
     /\ adjusted' = [adjusted EXCEPT ![b] = @ + delta]
     /\ UNCHANGED <<clockVars, floorVars, bookVars, moved, orderVars, billed, request>>

(* createStockAdjustment of services.js, on a bin of this item. *)
AdjustStock(b, delta) ==
  LET onHand == bal[b].onHand + delta
  IN /\ request = Idle
     /\ onHand >= 0 /\ onHand <= MaxStock
     /\ bal' = [bal EXCEPT ![b] = Counted(@, onHand)]
     /\ adjusted' = [adjusted EXCEPT ![b] = @ + delta]
     /\ UNCHANGED <<clockVars, floorVars, bookVars, moved, orderVars, billed, request>>

(* updateItem of services.js: the item becomes ACTIVE, or no longer is. *)
UpdateItem(active) ==
  /\ request = Idle
  /\ itemActive # active
  /\ itemActive' = active
  /\ UNCHANGED <<now, floorVars, bookVars, ledgerVars, orderVars, billed, request>>

(* Time passes between requests: a handler takes far less than a tick. *)
Tick ==
  /\ request = Idle
  /\ now < MaxTime
  /\ now' = now + 1
  /\ UNCHANGED <<itemActive, floorVars, bookVars, ledgerVars, orderVars, billed, request>>

Next ==
  \/ \E u \in Units : CreateUnit(u)
  \/ \E last \in Bins : SyncBins(last)
  \/ \E c \in Customers, w \in Windows, key \in Keys \cup {NoKey} : Reserve(c, w, key)
  \/ \E u \in Units, c \in Customers, kind \in Kinds, plan \in Plans :
       CheckIn(u, c, kind, plan)
  \/ ActivateReservations
  \/ PostReceipt
  \/ \E h \in HUs, accepted \in BOOLEAN : DecideWhole(h, accepted)
  \/ \E h \in HUs, dest \in Units, key \in Keys \cup {NoKey} :
       \E accepted \in 1..hu[h].qty : DecideSplit(h, accepted, dest, key)
  \/ Segregate
  \/ \E d \in Demands, r \in Requests, key \in Keys \cup {NoKey} :
       Allocate(d, r.n, r.short, key)
  \/ \E h \in HUs, reason \in Reasons : Release(h, reason)
  \/ PostShipment
  \/ CloseRelease
  \/ Abort
  \/ \E b \in Bins, delta \in Deltas : AdjustStock(b, delta)
  \/ \E active \in ItemStates : UpdateItem(active)
  \/ Tick

Spec == Init /\ [][Next]_vars

-----------------------------------------------------------------------------
(* Properties.                                                             *)

(* Every table holds the columns and statuses that the code writes to it.  *)
TypeOK ==
  /\ now \in 0..MaxTime /\ itemActive \in BOOLEAN
  /\ units \subseteq Units
  /\ unitStatus \in [Units -> {"AVAILABLE", "RESERVED", "OCCUPIED"}]
  /\ hu \in [HUs -> HURow] /\ nextHU \in 1..(MaxHU + 1)
  /\ stay \in [HUs -> StayRow]
  /\ inspecting \subseteq HUs
  /\ res \subseteq ResRow
  /\ bal \in [Bins -> Balance]
  /\ moved \subseteq [type : {"WMS_RECEIVE", "WMS_SHIP"}, hu : HUs, bin : Bins, qty : Nat]
  /\ adjusted \in [Bins -> Int]
  /\ alloc \in [Demands -> [HUs -> Nat]]
  /\ events \subseteq ({"SPACE_RESERVED", "QUALITY_REJECT_SEGREGATED"} \X Keys)
                      \cup ({"INVENTORY_ALLOCATED"} \X (Keys \cup Demands))
  /\ billed \in [HUs -> [BillKinds -> Nat]]
  /\ request \in Request

(* No two handling units are ever in one position: check-in and the move   *)
(* of a rejected part both read wms_space_occupancies in another           *)
(* transaction than the one that writes it, and no UNIQUE index backs them. *)
OneStayPerPosition ==
  \A g, h \in HUs, u \in Units : StayAt(g, u) /\ StayAt(h, u) => g = h

(* The three tables that say where a pallet is agree whatever transaction  *)
(* was the last to commit: an active stay is where the handling unit's     *)
(* current_capacity_unit_id says, its unit is on the floor, and exactly    *)
(* the positions with an active stay have status OCCUPIED.                 *)
PositionsAgree ==
  /\ \A h \in HUs : stay[h].status = "ACTIVE" =>
       hu[h].unit = stay[h].unit /\ hu[h].status \in {"RECEIVED", "HOLD"}
  /\ \A u \in Units : unitStatus[u] = "OCCUPIED" <=> Occupied(u)

(* Where pallets are: no position is shared, and its tables agree.          *)
PositionsSound == OneStayPerPosition /\ PositionsAgree

(* Two live reservations of a position never overlap in time, though rows   *)
(* are inserted from a snapshot read before the transaction and their      *)
(* status is later rewritten by check-in and release.                      *)
NoDoubleBooking ==
  \A r, s \in res :
    (r # s /\ Live(r) /\ Live(s) /\ r.unit = s.unit)
      => ~Overlap(r.from, r.until, s.from, s.until)

(* A pallet that a customer checked in was never promised, for the time it  *)
(* declared, a position that another customer holds a live reservation of: *)
(* whichever of check-in and reservation came first. A part rejected by    *)
(* inspection is moved without reading reservations and is left out here.  *)
StayRespectsBookings ==
  \A h \in HUs, r \in res :
    (stay[h].status = "ACTIVE" /\ hu[h].parent = None
       /\ Live(r) /\ r.unit = stay[h].unit /\ r.cust # hu[h].owner)
      => r.from >= stay[h].until \/ r.until <= stay[h].from

(* What is booked: no time is booked twice, nor given away at check-in.     *)
BookingsSound == NoDoubleBooking /\ StayRespectsBookings

(* docs/phase-0-foundation-contract.md:585: "Mutations are idempotent when  *)
(* a client request key is supplied." For reservations: once the key of a  *)
(* request is recorded, the positions booked under that key are final.     *)
\* The positions and times that requests with this key booked.
BookedBy(key, rs) ==
  {<<r.unit, r.from, r.until>> : r \in {x \in rs : x.key = key}}
ReserveIdempotent ==
  [][\A k \in Keys : <<"SPACE_RESERVED", k>> \in events
                       => BookedBy(k, res') = BookedBy(k, res)]_vars

(* What demands hold of a pallet never exceeds what it holds: the plan is   *)
(* computed from the allocations of every demand before its transaction.   *)
NoOverAllocation == \A h \in HUs : Allocated(alloc, h) <= hu[h].qty

\* The handling units that stay in bin b, and the quantity allocated of some.
StoredIn(b) == {h \in HUs : stay[h].status = "ACTIVE" /\ BinOf[stay[h].unit] = b}
HeldOf(rows, pallets) == SumFunction([h \in pallets |-> Allocated(rows, h)])

(* Whatever is allocated of the pallets in a bin is reserved in the bin's   *)
(* balance, across crashes between the transactions of a shipment and hand *)
(* adjustments: otherwise the last of them could never be shipped, because *)
(* the release handler refuses a balance with too little reserved.         *)
ReservedCoversAllocations == \A b \in Bins : bal[b].reserved >= HeldOf(alloc, StoredIn(b))

(* What is allocated: it is there, on the pallet and in the balance.        *)
AllocationsCovered == NoOverAllocation /\ ReservedCoversAllocations

(* Stock enters the ledger only once it is accepted, once per pallet, with  *)
(* the quantity that was accepted, and leaves it only after it entered,    *)
(* from the bin it entered, with the same quantity (tests/wms-http.test.mjs: *)
(* "QC-controlled receipt must not post available stock before acceptance"). *)
OnlyAcceptedStockPosted ==
  /\ \A m \in moved : /\ hu[m.hu].inv = "AVAILABLE" /\ m.hu \notin inspecting
                      /\ m.qty = hu[m.hu].qty
                      /\ m.type = "WMS_SHIP" => [m EXCEPT !.type = "WMS_RECEIVE"] \in moved
  /\ \A m, n \in moved : m.type = n.type /\ m.hu = n.hu => m = n

\* Sum of the movements of a type in a bin.
SumMoved(rows, type, b) ==
  SumFunction([m \in {r \in rows : r.type = type /\ r.bin = b} |-> m.qty])

(* A balance is what its movements add up to, in every state a crash can    *)
(* leave (docs/phase-0-foundation-contract.md:543: stock balances are      *)
(* "derived from movements"), and is never negative.                       *)
LedgerReconciles ==
  \A b \in Bins :
    /\ bal[b].onHand =
         SumMoved(moved, "WMS_RECEIVE", b) - SumMoved(moved, "WMS_SHIP", b) + adjusted[b]
    /\ bal[b].onHand >= 0

(* A customer is charged once for each pallet received and once for each    *)
(* stay that ended, although release has no idempotency key of its own and *)
(* is retried after a crash between its transactions.                      *)
BilledOnce ==
  \A h \in HUs :
    /\ billed[h]["RECEIVING"] = (IF stay[h].status # "NONE" /\ hu[h].parent = None
                                 THEN 1 ELSE 0)
    /\ billed[h]["STORAGE"] = (IF stay[h].status = "CLOSED" THEN 1 ELSE 0)
    /\ billed[h]["OUTBOUND"] = billed[h]["STORAGE"]

(* A pallet that was shipped to a customer never changes again: no late     *)
(* quality decision or second release brings it back.                      *)
ShippedIsFinal ==
  [][\A h \in HUs : hu[h].status = "SHIPPED" => hu'[h] = hu[h] /\ stay'[h] = stay[h]]_vars
=============================================================================
