----------------------------- MODULE Receiving -----------------------------
(***************************************************************************)
(* Receiving of one purchase order of opstrax-supplyops-v1 (services.js):  *)
(* sessions are made from an issued order, started, filled line by line,   *)
(* posted to stock or cancelled. Every handler is one transaction. The     *)
(* lines of the order are of one item.                                     *)
(***************************************************************************)
EXTENDS StockBook

CONSTANTS
  OrderLines,  \* lines of the order
  Ordered,     \* what each asks for
  Sessions,    \* bound: receive sessions ever made of it
  Deliveries,  \* what a client records of a line at once
  MaxGot,      \* bound: what a session may record of a line
  Allowances   \* whether some user may over-receive: subset of BOOLEAN

ASSUME ReceivingAssumption ==
  /\ IsFiniteSet(OrderLines) /\ IsFiniteSet(Sessions)
  /\ Ordered \in [OrderLines -> Nat \ {0}]
  /\ Deliveries \subseteq [received : Nat, damaged : Nat, short : Nat]
  /\ \A d \in Deliveries : d.received + d.damaged + d.short > 0
  /\ MaxGot \in Nat /\ Allowances \subseteq BOOLEAN

VARIABLES
  order,       \* status of the purchase order
  tally,       \* qty_received, _damaged, _short of its lines
  session      \* rows of receive_sessions with their lines

ReceivingVars == <<order, tally, session, StockVars>>

OrderStatus == {"ISSUED", "PARTIALLY_RECEIVED", "RECEIVED", "RECEIVED_WITH_EXCEPTIONS"}
Quantities == [received : Nat, damaged : Nat, short : Nat]
SessionLine == [ordered : Nat, got : Quantities, bin : Bins]
SessionRow == [status : {"NONE", "DRAFT", "IN_PROGRESS", "POSTED", "CANCELLED"},
               lines : [OrderLines -> SessionLine]]

Nothing == [received |-> 0, damaged |-> 0, short |-> 0]
Plus(a, b) == [received |-> a.received + b.received, damaged |-> a.damaged + b.damaged,
               short |-> a.short + b.short]
Processed(q) == q.received + q.damaged + q.short
\* A session has only lines that asked for something when it was made.
NoSessionLine == [ordered |-> 0, got |-> Nothing, bin |-> CHOOSE b \in Bins : TRUE]
LinesOf(s) == {l \in OrderLines : session[s].lines[l].ordered > 0}

ReceivingInit ==
  /\ StockInit
  /\ order = "ISSUED"
  /\ tally = [l \in OrderLines |-> Nothing]
  /\ session = [s \in Sessions |->
                  [status |-> "NONE", lines |-> [l \in OrderLines |-> NoSessionLine]]]

-----------------------------------------------------------------------------
\* receivingReceiptTotals, of one line: what the POSTED sessions of a table say.
PostedTotal(rows, l) ==
  LET got == [s \in {t \in Sessions : rows[t].status = "POSTED"} |-> rows[s].lines[l].got]
  IN [received |-> SumFunction([s \in DOMAIN got |-> got[s].received]),
      damaged |-> SumFunction([s \in DOMAIN got |-> got[s].damaged]),
      short |-> SumFunction([s \in DOMAIN got |-> got[s].short])]
Remaining(l) == AtLeastZero(Ordered[l] - Processed(PostedTotal(session, l)))

AllProcessed(totals) == SumFunction([l \in OrderLines |-> Processed(totals[l])])
AllReceived(totals) == SumFunction([l \in OrderLines |-> totals[l].received])
\* receivingOrderStatusFromTotals
StatusFromTotals(totals) ==
  LET processed == AllProcessed(totals)
      ordered == SumFunction(Ordered)
  IN IF processed = 0 THEN "ISSUED"
     ELSE IF processed < ordered THEN "PARTIALLY_RECEIVED"
     ELSE IF AllReceived(totals) = processed THEN "RECEIVED"
     ELSE "RECEIVED_WITH_EXCEPTIONS"

-----------------------------------------------------------------------------
CreateReceiveSession(s) ==
  /\ session[s].status = "NONE"
  /\ order \in {"ISSUED", "PARTIALLY_RECEIVED"}
  /\ \E l \in OrderLines : Remaining(l) > 0
  /\ session' = [session EXCEPT ![s] =
       [status |-> "DRAFT",
        lines |-> [l \in OrderLines |-> [NoSessionLine EXCEPT !.ordered = Remaining(l)]]]]
  /\ UNCHANGED <<order, tally, StockVars>>

StartReceiveSession(s) ==
  /\ session[s].status = "DRAFT"
  /\ session' = [session EXCEPT ![s].status = "IN_PROGRESS"]
  /\ UNCHANGED <<order, tally, StockVars>>

\* The client names a bin, or it is the fullest one.
RecordReceiveLine(s, l, d, bin, over) ==
  LET got == Plus(session[s].lines[l].got, d)
  IN /\ session[s].status = "IN_PROGRESS"
     /\ l \in LinesOf(s)
     /\ Processed(got) <= MaxGot
     /\ Processed(got) > session[s].lines[l].ordered => over
     /\ session' = [session EXCEPT ![s].lines[l].got = got, ![s].lines[l].bin = bin]
     /\ UNCHANGED <<order, tally, StockVars>>

\* The lines are posted one after the other, to the bin of each.
Brought(s, b) ==
  SumFunction([l \in {k \in LinesOf(s) : session[s].lines[k].bin = b} |->
                 session[s].lines[l].got.received])
Stocked(rows, s) == [b \in Bins |-> Gained(rows[b], Brought(s, b))]
Booked(ledger, s) ==
  [ledger EXCEPT !["receive_session"] = [b \in Bins |-> @[b] + Brought(s, b)]]

PostReceiveSession(s, over) ==
  /\ session[s].status = "IN_PROGRESS"
  /\ \A l \in LinesOf(s) :
       LET row == session[s].lines[l]
       IN /\ Processed(row.got) > 0
          /\ Processed(row.got) > row.ordered => over
  /\ session' = [session EXCEPT ![s].status = "POSTED"]
  /\ tally' = [l \in OrderLines |-> Plus(tally[l], session[s].lines[l].got)]
  /\ order' = StatusFromTotals([l \in OrderLines |-> PostedTotal(session', l)])
  /\ bal' = Stocked(bal, s)
  /\ moved' = Booked(moved, s)

\* Fault for CancelReceiveSession: a posted session may be cancelled too.
CancelReceiveSessionLate(s) ==
  /\ session[s].status \in {"DRAFT", "IN_PROGRESS", "POSTED"}
  /\ session' = [session EXCEPT ![s].status = "CANCELLED"]
  /\ UNCHANGED <<order, tally, StockVars>>
CancelReceiveSession(s) ==
  /\ session[s].status \in {"DRAFT", "IN_PROGRESS"}
  /\ session' = [session EXCEPT ![s].status = "CANCELLED"]
  /\ UNCHANGED <<order, tally, StockVars>>

ReceivingNext ==
  \/ \E s \in Sessions :
       \/ CreateReceiveSession(s) \/ StartReceiveSession(s) \/ CancelReceiveSession(s)
       \/ \E l \in OrderLines, d \in Deliveries, bin \in Bins, over \in Allowances :
            RecordReceiveLine(s, l, d, bin, over)
       \/ \E over \in Allowances : PostReceiveSession(s, over)
  \/ AdjustStock /\ UNCHANGED <<order, tally, session>>

ReceivingSpec == ReceivingInit /\ [][ReceivingNext]_ReceivingVars

-----------------------------------------------------------------------------
ReceivingTypes ==
  /\ order \in OrderStatus
  /\ tally \in [OrderLines -> Quantities]
  /\ session \in [Sessions -> SessionRow]
  /\ StockTypes

(* Whatever sessions of an order are open at once, and in whatever order    *)
(* they are posted and cancelled, three tables tell one story: the lines   *)
(* of the order and the movements of stock add up to the sessions that     *)
(* were posted, and the status of the order is what those amount to.       *)
ReceiptsAgree ==
  /\ \A l \in OrderLines : tally[l] = PostedTotal(session, l)
  /\ Explains(moved, "receive_session") = AllReceived(tally)
  /\ order = StatusFromTotals(tally)
=============================================================================
