----------------------------- MODULE CycleCount -----------------------------
(***************************************************************************)
(* Cycle counts of opstrax-supplyops-v1 (inventory-optimization.js): a     *)
(* plan, the sessions that count it, the variances they find, and their    *)
(* posting to stock. The plan counts the item of StockBook. The status     *)
(* UNDER_REVIEW of a variance is written by no handler.                    *)
(***************************************************************************)
EXTENDS StockBook, SequencesExt

CONSTANTS
  LineBins,    \* the bins that lines of the plan may name
  Counts,      \* bound: count sessions ever made of the plan
  MaxFound,    \* bound: variances ever found
  Tallies,     \* quantities a counter may enter
  Controlled   \* whether the item is controlled or restricted

Found == 1..MaxFound

ASSUME CountAssumption ==
  /\ LineBins \subseteq Bins
  /\ IsFiniteSet(Counts) /\ MaxFound \in Nat
  /\ Tallies \subseteq Nat /\ Controlled \in BOOLEAN

VARIABLES
  plan,        \* the row of cycle_count_plans, and the bins its lines name
  count,       \* rows of cycle_count_sessions, and the quantity their lines expect
  variance     \* rows of inventory_variances

CountVars == <<plan, count, variance, StockVars>>

PlanRow == [status : {"DRAFT", "SCHEDULED", "IN_PROGRESS", "REVIEW_PENDING", "POSTED",
                      "CANCELLED"},
            lines : SUBSET LineBins]
CountRow == [status : {"NONE", "OPEN", "REVIEW_PENDING", "APPROVED", "POSTED"},
             expected : Int]
VarianceRow == [status : {"OPEN", "APPROVED", "REJECTED", "WAIVED", "POSTED"},
                severity : {"INFO", "WARNING", "BLOCKER"},
                of : Counts, bin : LineBins, adjustment : Int]
NoVariance == [status |-> "NONE"]

CountInit ==
  /\ StockInit
  /\ plan = [status |-> "DRAFT", lines |-> {}]
  /\ count = [c \in Counts |-> [status |-> "NONE", expected |-> 0]]
  /\ variance = [v \in Found |-> NoVariance]

Absolute(n) == IF n < 0 THEN -n ELSE n
\* varianceSeverity: at least 20% of what is expected, at least 5%, or less.
Severity(adjustment, expected) ==
  IF Controlled \/ 100 * Absolute(adjustment) >= 20 * expected THEN "BLOCKER"
  ELSE IF 100 * Absolute(adjustment) >= 5 * expected THEN "WARNING"
  ELSE "INFO"

VariancesOf(c, states) ==
  {v \in Found : variance[v].status \in states /\ variance[v].of = c}

-----------------------------------------------------------------------------
ScheduleCycleCountPlan ==
  /\ plan.status = "DRAFT"
  /\ plan' = [plan EXCEPT !.status = "SCHEDULED"]
  /\ UNCHANGED <<count, variance, StockVars>>

StartCycleCountPlan ==
  /\ plan.status \in {"DRAFT", "SCHEDULED"}
  /\ plan' = [plan EXCEPT !.status = "IN_PROGRESS"]
  /\ UNCHANGED <<count, variance, StockVars>>

CancelCycleCountPlan ==
  /\ plan.status \notin {"POSTED", "CANCELLED"}
  /\ plan' = [plan EXCEPT !.status = "CANCELLED"]
  /\ UNCHANGED <<count, variance, StockVars>>

AddPlanLine(b) ==
  /\ plan.status \in {"DRAFT", "SCHEDULED"}
  /\ plan' = [plan EXCEPT !.lines = @ \cup {b}]
  /\ UNCHANGED <<count, variance, StockVars>>

\* Whatever bin a line names, it expects what all bins hold of the item.
CreateCountSession(c) ==
  /\ plan.status = "IN_PROGRESS"
  /\ count[c].status = "NONE"
  /\ count' = [count EXCEPT ![c] = [status |-> "OPEN", expected |-> OnHand(bal)]]
  /\ UNCHANGED <<plan, variance, StockVars>>

\* A count that agrees leaves what an earlier count of the line found, and so
\* does one that does not: nothing else is recorded of a count here.
CountSessionLine(c, b, n, v) ==
  LET adjustment == n - count[c].expected
  IN /\ count[c].status = "OPEN"
     /\ b \in plan.lines
     /\ adjustment # 0
     /\ variance[v] = NoVariance /\ \A w \in 1..(v - 1) : variance[w] # NoVariance
     /\ variance' = [variance EXCEPT ![v] =
          [status |-> "OPEN", severity |-> Severity(adjustment, count[c].expected),
           of |-> c, bin |-> b, adjustment |-> adjustment]]
     /\ UNCHANGED <<plan, count, StockVars>>

\* Two statements without a transaction: the second may never run.
SubmitSessionForReview(c, whole) ==
  /\ count[c].status = "OPEN"
  /\ count' = [count EXCEPT ![c].status = "REVIEW_PENDING"]
  /\ plan' = IF whole /\ plan.status = "IN_PROGRESS"
             THEN [plan EXCEPT !.status = "REVIEW_PENDING"] ELSE plan
  /\ UNCHANGED <<variance, StockVars>>

\* Fault for Undecided: a rejected variance counts as decided.
UndecidedOpen(c) == {v \in VariancesOf(c, {"OPEN"}) : variance[v].severity = "BLOCKER"}
Undecided(c) ==
  {v \in VariancesOf(c, {"OPEN", "REJECTED"}) : variance[v].severity = "BLOCKER"}
ApproveCountSession(c) ==
  /\ count[c].status = "REVIEW_PENDING"
  /\ Undecided(c) = {}
  /\ count' = [count EXCEPT ![c].status = "APPROVED"]
  /\ UNCHANGED <<plan, variance, StockVars>>

DecideVariance(v, decision) ==
  /\ variance[v].status = "OPEN"
  /\ variance' = [variance EXCEPT ![v].status = decision]
  /\ UNCHANGED <<plan, count, StockVars>>

-----------------------------------------------------------------------------
(* Each variance adds its adjustment to the sum of all bins and writes the  *)
(* result to the row of each of them; available and reserved stay.         *)
NextHolding(sum, v) == AtLeastZero(sum + variance[v].adjustment)
HoldingAfter(posted) ==
  LET bins == Cardinality(Bins)
      sum[n \in 0..Len(posted)] ==
        IF n = 0 THEN OnHand(bal) ELSE bins * NextHolding(sum[n - 1], posted[n])
  IN sum[Len(posted)] \div bins
Adjustments(rows, found) == SumFunction([v \in found |-> rows[v].adjustment])
AdjustmentsIn(b, posted) == Adjustments(variance, {v \in posted : variance[v].bin = b})

Overwritten(n) == [b \in Bins |-> [bal[b] EXCEPT !.onHand = n]]
Posting(c) == VariancesOf(c, {"APPROVED"})
\* The status of the plan is not looked at.
PostCountSession(c) ==
  /\ count[c].status = "APPROVED"
  /\ \E posted \in SetToSeqs(Posting(c)) :
       bal' = IF posted = <<>> THEN bal ELSE Overwritten(HoldingAfter(posted))
  /\ moved' = [moved EXCEPT !["cycle_count_session"] =
       [b \in Bins |-> @[b] + AdjustmentsIn(b, Posting(c))]]
  /\ variance' = [v \in Found |-> IF v \in Posting(c)
                                  THEN [variance[v] EXCEPT !.status = "POSTED"] ELSE variance[v]]
  /\ count' = [count EXCEPT ![c].status = "POSTED"]
  /\ plan' = [plan EXCEPT !.status = "POSTED"]

CountNext ==
  \/ ScheduleCycleCountPlan \/ StartCycleCountPlan \/ CancelCycleCountPlan
  \/ \E b \in LineBins : AddPlanLine(b)
  \/ \E c \in Counts :
       \/ CreateCountSession(c) \/ ApproveCountSession(c) \/ PostCountSession(c)
       \/ \E whole \in BOOLEAN : SubmitSessionForReview(c, whole)
       \/ \E b \in LineBins, n \in Tallies, v \in Found : CountSessionLine(c, b, n, v)
  \/ \E v \in Found, decision \in {"APPROVED", "REJECTED", "WAIVED"} :
       DecideVariance(v, decision)
  \/ AdjustStock /\ UNCHANGED <<plan, count, variance>>

CountSpec == CountInit /\ [][CountNext]_CountVars

-----------------------------------------------------------------------------
CountTypes ==
  /\ plan \in PlanRow
  /\ count \in [Counts -> CountRow]
  /\ variance \in [Found -> VarianceRow \cup {NoVariance}]
  /\ StockTypes

(* A count is approved or posted only with every blocking variance decided  *)
(* in its favour or waived, although variances are decided one by one and  *)
(* at any time; stock moves only for variances that were approved, each    *)
(* once; and the plan is done exactly when one of its counts is posted.    *)
CountIsDecided ==
  /\ \A c \in Counts : count[c].status \in {"APPROVED", "POSTED"} => 
       \A v \in Found : variance[v].status \in {"OPEN", "REJECTED"} /\ variance[v].of = c
                          => variance[v].severity # "BLOCKER"
  /\ \A v \in Found : variance[v].status = "POSTED" => count[variance[v].of].status = "POSTED"
  /\ plan.status = "POSTED" <=> \E c \in Counts : count[c].status = "POSTED"
CountIsExplained ==
  Explains(moved, "cycle_count_session") =
    Adjustments(variance, {v \in Found : variance[v].status = "POSTED"})
NoCountPosted == \A v \in Found : variance[v].status # "POSTED"
=============================================================================
