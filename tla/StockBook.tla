----------------------------- MODULE StockBook -----------------------------
(***************************************************************************)
(* The stock of one item of opstrax-supplyops-v1: its balance in each bin  *)
(* and the movements that should explain it. Receiving, counting and the   *)
(* devices that work offline all write these two tables, each in its own   *)
(* way; the hand adjustment (services.js, createStockAdjustment) stands    *)
(* for the handlers that other modules model.                              *)
(***************************************************************************)
EXTENDS Integers, FiniteSets, Functions

CONSTANTS
  Bins,        \* the bins with a stock_balances row of the item
  Shelved,     \* what each of them holds at start
  Promises,    \* and how much of that is reserved
  HandDeltas,  \* hand adjustments
  HandTotals   \* bound: what hand adjustments may add up to

ASSUME StockAssumption ==
  /\ IsFiniteSet(Bins) /\ Bins # {}
  /\ Shelved \in [Bins -> Nat] /\ Promises \in [Bins -> Nat]
  /\ \A b \in Bins : Promises[b] <= Shelved[b]
  /\ HandDeltas \subseteq Int /\ HandTotals \subseteq Int

VARIABLES
  bal,         \* rows of stock_balances, by bin
  moved        \* rows of stock_movements, summed by what they refer to and bin

StockVars == <<bal, moved>>

BalanceRow == [onHand : Int, reserved : Nat, available : Int]
References == {"manual_adjustment", "receive_session", "cycle_count_session",
               "offline_batch", "sync_batch"}

StockInit ==
  /\ bal = [b \in Bins |-> [onHand |-> Shelved[b], reserved |-> Promises[b],
                            available |-> Shelved[b] - Promises[b]]]
  /\ moved = [r \in References |-> [b \in Bins |-> 0]]

AtLeastZero(n) == IF n < 0 THEN 0 ELSE n

\* What a handler makes of a balance: q more of it, or n counted in it.
\* Fault for Gained: what is offered is left as it was.
GainedOnHand(row, q) == [row EXCEPT !.onHand = @ + q]
Gained(row, q) == [row EXCEPT !.onHand = @ + q, !.available = @ + q]
Recounted(row, n) ==
  [row EXCEPT !.onHand = n, !.available = AtLeastZero(n - row.reserved)]
Explained(ledger, r, b, q) == [ledger EXCEPT ![r][b] = @ + q]

\* ORDER BY available DESC LIMIT 1: of equals, any.
Fullest(rows) == {b \in Bins : \A c \in Bins : rows[c].available <= rows[b].available}
OnHand(rows) == SumFunction([b \in Bins |-> rows[b].onHand])
Explains(ledger, r) == SumFunction([b \in Bins |-> ledger[r][b]])

AdjustStock ==
  \E b \in Bins, d \in HandDeltas :
    /\ bal[b].onHand + d >= 0
    /\ Explains(moved, "manual_adjustment") + d \in HandTotals
    /\ bal' = [bal EXCEPT ![b] = Recounted(@, @.onHand + d)]
    /\ moved' = Explained(moved, "manual_adjustment", b, d)

StockTypes ==
  /\ bal \in [Bins -> BalanceRow]
  /\ moved \in [References -> [Bins -> Int]]

(* Every change of what a bin holds has a movement that explains it, no bin *)
(* holds less than nothing, and what is offered leaves out no more than    *)
(* what is reserved.                                                       *)
BinExplained(b) ==
  bal[b].onHand = Shelved[b] + SumFunction([r \in References |-> moved[r][b]])
BinSound(b) ==
  /\ 0 <= bal[b].onHand
  /\ bal[b].onHand - bal[b].reserved <= bal[b].available
  /\ bal[b].available <= bal[b].onHand
=============================================================================
