-------------------------- MODULE AtomicOperations --------------------------
(***************************************************************************)
(* What transaction(handler) of src/db.js promises its callers: operations *)
(* run one after the other; the writes of each become durable at once or   *)
(* not at all; one that returns has written all it asked for, and one that *)
(* throws has written nothing. An operation the process died in may have   *)
(* taken effect or not.                                                    *)
(***************************************************************************)
EXTENDS Naturals

CONSTANTS Ops, Writes    \* Ops is 1..n: operations in the order they start

VARIABLES
  asked,     \* the writes each operation has asked for
  effect,    \* the writes of each operation that are durable
  answer     \* "none", or how the operation ended: "ok", "failed", "lost"

vars == <<asked, effect, answer>>

Init ==
  /\ asked = [o \in Ops |-> {}]
  /\ effect = [o \in Ops |-> {}]
  /\ answer = [o \in Ops |-> "none"]

InTurn(o) == answer[o] = "none" /\ \A p \in Ops : p < o => answer[p] # "none"

Ask(o, w) ==
  /\ InTurn(o)
  /\ effect[o] = {}
  /\ asked' = [asked EXCEPT ![o] = @ \cup {w}]
  /\ UNCHANGED <<effect, answer>>

Apply(o) ==
  /\ InTurn(o)
  /\ effect' = [effect EXCEPT ![o] = asked[o]]
  /\ UNCHANGED <<asked, answer>>

Return(o) ==
  /\ InTurn(o)
  /\ effect[o] = asked[o]
  /\ answer' = [answer EXCEPT ![o] = "ok"]
  /\ UNCHANGED <<asked, effect>>

Throw(o) ==
  /\ InTurn(o)
  /\ effect[o] = {}
  /\ answer' = [answer EXCEPT ![o] = "failed"]
  /\ UNCHANGED <<asked, effect>>

Lose(o) ==
  /\ InTurn(o)
  /\ answer' = [answer EXCEPT ![o] = "lost"]
  /\ UNCHANGED <<asked, effect>>

Next ==
  \E o \in Ops : \/ \E w \in Writes : Ask(o, w)
                 \/ Apply(o) \/ Return(o) \/ Throw(o) \/ Lose(o)

Spec == Init /\ [][Next]_vars
=============================================================================
