---------------------------- MODULE SumTheorems ----------------------------
(***************************************************************************)
(* What SumFunctionOnSet and SumFunction of the community module Functions *)
(* give on finite sets.  The components sum rows of tables; a handler      *)
(* changes one row, adds one or removes one, and the theorems about        *)
(* totals need to know what becomes of the sum.                            *)
(*                                                                         *)
(* The induction is by a smallest counterexample: strict inclusion of      *)
(* finite sets is well-founded, so a family of subsets of a finite set     *)
(* that is not empty has a minimal member.                                 *)
(***************************************************************************)
EXTENDS Integers, FiniteSets, Functions, FiniteSetTheorems, TLAPS

Picked(s) == CHOOSE x \in s : TRUE

\* What the recursive function of MapThenFoldSet returns for t, from g.
Unfolded(g, f, t) == IF t = {} THEN 0 ELSE f[Picked(t)] + g[t \ {Picked(t)}]

\* The recursive function itself, and that a function is a solution of its equation.
Solves(g, f, S) == g = [t \in SUBSET S |-> Unfolded(g, f, t)]
Partial(f, S) == CHOOSE g : Solves(g, f, S)

\* A family of subsets of a finite set has a minimal member.
LEMMA MinimalSubset ==
  ASSUME NEW S, IsFiniteSet(S), NEW F \in SUBSET SUBSET S, F # {}
  PROVE  \E m \in F : \A t \in F : t \subseteq m => t = m
<1>1. IsWellFoundedOn(StrictSubsetOrdering(S), SUBSET S)
  BY FS_FiniteSubsetsOfFinite, FS_StrictSubsetOrderingWellFounded
<1>2. PICK m \in F : \A t \in F : <<t, m>> \notin StrictSubsetOrdering(S)
  BY <1>1, WFMin
<1> QED BY <1>2 DEF StrictSubsetOrdering

LEMMA PickedMember ==
  ASSUME NEW s, s # {}
  PROVE  Picked(s) \in s
BY DEF Picked

LEMMA SumIsPartial ==
  ASSUME NEW f, NEW S
  PROVE  SumFunctionOnSet(f, S) = Partial(f, S)[S]
BY DEF SumFunctionOnSet, FoldFunctionOnSet, MapThenFoldSet, Partial, Solves, Unfolded, Picked

\* Two solutions agree where both are defined.
LEMMA SolutionsAgree ==
  ASSUME NEW f, NEW S, IsFiniteSet(S), NEW T, NEW g, NEW h, Solves(g, f, S), Solves(h, f, T),
         NEW u \in SUBSET (S \cap T)
  PROVE  g[u] = h[u]
<1> DEFINE Differ == {v \in SUBSET (S \cap T) : g[v] # h[v]}
<1>1. SUFFICES ASSUME Differ # {} PROVE FALSE
  OBVIOUS
<1>2. Differ \in SUBSET SUBSET S
  OBVIOUS
<1>3. PICK m \in Differ : \A t \in Differ : t \subseteq m => t = m
  <2> HIDE DEF Differ
  <2> QED BY <1>1, <1>2, MinimalSubset
<1>4. g[m] = Unfolded(g, f, m) /\ h[m] = Unfolded(h, f, m)
  BY DEF Solves
<1>5. m # {}
  BY <1>4 DEF Unfolded
<1>6. g[m \ {Picked(m)}] = h[m \ {Picked(m)}]
  BY <1>3, <1>5, PickedMember
<1> QED BY <1>4, <1>5, <1>6 DEF Unfolded

\* The equation of the recursive function has a solution.
LEMMA SolutionExists ==
  ASSUME NEW f, NEW S, IsFiniteSet(S)
  PROVE  Solves(Partial(f, S), f, S)
<1> DEFINE Without == {s \in SUBSET S : ~ Solves(Partial(f, s), f, s)}
<1>1. SUFFICES ASSUME Without # {} PROVE FALSE
  OBVIOUS
<1>2. PICK m \in Without : \A t \in Without : t \subseteq m => t = m
  <2>1. Without \in SUBSET SUBSET S
    OBVIOUS
  <2> HIDE DEF Without
  <2> QED BY <1>1, <2>1, MinimalSubset
<1> DEFINE below(t) == t \ {Picked(t)}
           g == [t \in SUBSET m |-> IF t = {} THEN 0 ELSE f[Picked(t)] + Partial(f, below(t))[below(t)]]
<1>3. ASSUME NEW t \in SUBSET m, t # {}
      PROVE  g[below(t)] = Partial(f, below(t))[below(t)]
  <2> DEFINE b == below(t)
  <2>1. b \in SUBSET m /\ b # m /\ b \in SUBSET S /\ IsFiniteSet(b)
    BY <1>3, PickedMember, FS_Subset
  <2>2. Solves(Partial(f, b), f, b)
    BY <1>2, <2>1
  <2>3. Partial(f, b)[b] = Unfolded(Partial(f, b), f, b)
    <3> HIDE DEF b
    <3> QED BY <2>2 DEF Solves
  <2>4. CASE b = {}
    BY <2>1, <2>3, <2>4 DEF Unfolded
  <2>5. CASE b # {}
    <3> DEFINE c == below(b)
    <3>1. c \in SUBSET m /\ c # m /\ c \in SUBSET S /\ IsFiniteSet(c) /\ c \in SUBSET b
      BY <2>1, <2>5, FS_Subset
    <3>2. Solves(Partial(f, c), f, c)
      <4> HIDE DEF c
      <4> QED BY <1>2, <3>1
    <3>3. Partial(f, b)[c] = Partial(f, c)[c]
      <4>1. c \in SUBSET (b \cap c)
        BY <3>1
      <4> HIDE DEF b, c
      <4> QED BY <2>1, <2>2, <3>2, <4>1, SolutionsAgree
    <3>4. g[b] = f[Picked(b)] + Partial(f, c)[c]
      BY <2>1, <2>5
    <3>5. Partial(f, b)[b] = f[Picked(b)] + Partial(f, b)[c]
      BY <2>3, <2>5 DEF Unfolded
    <3> QED BY <3>3, <3>4, <3>5
  <2> QED BY <2>4, <2>5
<1>4. Solves(g, f, m)
  <2>1. \A t \in SUBSET m : g[t] = Unfolded(g, f, t)
    BY <1>3 DEF Unfolded
  <2> HIDE DEF g
  <2>2. g = [t \in SUBSET m |-> g[t]]
    BY DEF g
  <2> QED BY <2>1, <2>2 DEF Solves
<1>5. Solves(Partial(f, m), f, m)
  <2> HIDE DEF g
  <2> QED BY <1>4 DEF Partial
<1> QED BY <1>2, <1>5

-----------------------------------------------------------------------------
\* The sum over no element.
LEMMA SumEmpty ==
  ASSUME NEW f
  PROVE  SumFunctionOnSet(f, {}) = 0
<1>1. Solves(Partial(f, {}), f, {})
  BY SolutionExists, FS_EmptySet
<1>2. Partial(f, {})[{}] = Unfolded(Partial(f, {}), f, {})
  BY <1>1 DEF Solves
<1> QED BY <1>2, SumIsPartial DEF Unfolded

\* The sum over a set that is not empty, by the element the definition picks.
LEMMA SumPicked ==
  ASSUME NEW f, NEW S, IsFiniteSet(S), S # {}
  PROVE  SumFunctionOnSet(f, S) = f[Picked(S)] + SumFunctionOnSet(f, S \ {Picked(S)})
<1> DEFINE T == S \ {Picked(S)}
<1>1. IsFiniteSet(T)
  BY FS_RemoveElement
<1>2. Solves(Partial(f, S), f, S) /\ Solves(Partial(f, T), f, T)
  <2> HIDE DEF T
  <2> QED BY <1>1, SolutionExists
<1>3. Partial(f, S)[S] = Unfolded(Partial(f, S), f, S)
  BY <1>2 DEF Solves
<1>4. Partial(f, S)[T] = Partial(f, T)[T]
  <2>1. T \in SUBSET (S \cap T)
    OBVIOUS
  <2> HIDE DEF T
  <2> QED BY <1>2, <2>1, SolutionsAgree
<1> QED BY <1>3, <1>4, SumIsPartial DEF Unfolded

\* A sum of integers is an integer.
LEMMA SumType ==
  ASSUME NEW f, NEW S, IsFiniteSet(S), \A s \in S : f[s] \in Int
  PROVE  SumFunctionOnSet(f, S) \in Int
<1> DEFINE Untyped == {t \in SUBSET S : SumFunctionOnSet(f, t) \notin Int}
<1>1. SUFFICES ASSUME Untyped # {} PROVE FALSE
  OBVIOUS
<1>2. PICK m \in Untyped : \A t \in Untyped : t \subseteq m => t = m
  <2>1. Untyped \in SUBSET SUBSET S
    OBVIOUS
  <2> HIDE DEF Untyped
  <2> QED BY <1>1, <2>1, MinimalSubset
<1>3. m # {} /\ IsFiniteSet(m)
  <2>1. m # {}
    BY SumEmpty
  <2> QED BY <2>1, FS_Subset
<1>4. Picked(m) \in m
  BY <1>3, PickedMember
<1>5. SumFunctionOnSet(f, m \ {Picked(m)}) \in Int
  BY <1>2, <1>4
<1> QED BY <1>2, <1>3, <1>4, <1>5, SumPicked

\* Any element may be taken out first.
LEMMA SumTaken ==
  ASSUME NEW f, NEW S, IsFiniteSet(S), \A s \in S : f[s] \in Int, NEW x \in S
  PROVE  SumFunctionOnSet(f, S) = f[x] + SumFunctionOnSet(f, S \ {x})
<1> DEFINE Total(t) == SumFunctionOnSet(f, t)
           Wrong == {t \in SUBSET S : \E y \in t : Total(t) # f[y] + Total(t \ {y})}
<1>1. SUFFICES ASSUME Wrong # {} PROVE FALSE
  OBVIOUS
<1>2. PICK m \in Wrong : \A t \in Wrong : t \subseteq m => t = m
  <2>1. Wrong \in SUBSET SUBSET S
    OBVIOUS
  <2> HIDE DEF Wrong
  <2> QED BY <1>1, <2>1, MinimalSubset
<1>3. PICK y \in m : Total(m) # f[y] + Total(m \ {y})
  OBVIOUS
<1> DEFINE p == Picked(m)
           rest == m \ {y, p}
<1>4. IsFiniteSet(m) /\ p \in m /\ IsFiniteSet(rest) /\ rest \in SUBSET S
  BY FS_Subset, PickedMember
<1>5. Total(m) = f[p] + Total(m \ {p})
  BY <1>4, SumPicked
<1>6. y # p
  BY <1>3, <1>5
<1>7. Total(m \ {p}) = f[y] + Total(rest) /\ Total(m \ {y}) = f[p] + Total(rest)
  <2>1. m \ {p} \notin Wrong /\ m \ {y} \notin Wrong
    BY <1>2, <1>4
  <2>2. (m \ {p}) \ {y} = rest /\ (m \ {y}) \ {p} = rest
    OBVIOUS
  <2>3. y \in m \ {p} /\ p \in m \ {y} /\ m \ {p} \in SUBSET S /\ m \ {y} \in SUBSET S
    BY <1>4, <1>6
  <2> HIDE DEF Total, p, rest
  <2> QED BY <2>1, <2>2, <2>3
<1>8. f[p] \in Int /\ f[y] \in Int /\ Total(rest) \in Int
  BY <1>4, SumType
<1> HIDE DEF Total, p, rest
<1> QED BY <1>3, <1>5, <1>7, <1>8

\* One more element.
LEMMA SumAdded ==
  ASSUME NEW f, NEW S, IsFiniteSet(S), NEW x, x \notin S, \A s \in S \cup {x} : f[s] \in Int
  PROVE  SumFunctionOnSet(f, S \cup {x}) = f[x] + SumFunctionOnSet(f, S)
<1>1. IsFiniteSet(S \cup {x}) /\ (S \cup {x}) \ {x} = S /\ x \in S \cup {x}
  BY FS_AddElement
<1> DEFINE T == S \cup {x}
<1>2. SumFunctionOnSet(f, T) = f[x] + SumFunctionOnSet(f, T \ {x})
  <2>1. IsFiniteSet(T) /\ x \in T /\ \A s \in T : f[s] \in Int
    BY <1>1
  <2> HIDE DEF T
  <2> QED BY <2>1, SumTaken
<1> QED BY <1>1, <1>2

\* Only the values at the elements matter.
LEMMA SumSame ==
  ASSUME NEW f, NEW g, NEW S, IsFiniteSet(S), \A s \in S : f[s] = g[s]
  PROVE  SumFunctionOnSet(f, S) = SumFunctionOnSet(g, S)
<1> DEFINE Differ == {t \in SUBSET S : SumFunctionOnSet(f, t) # SumFunctionOnSet(g, t)}
<1>1. SUFFICES ASSUME Differ # {} PROVE FALSE
  OBVIOUS
<1>2. PICK m \in Differ : \A t \in Differ : t \subseteq m => t = m
  <2>1. Differ \in SUBSET SUBSET S
    OBVIOUS
  <2> HIDE DEF Differ
  <2> QED BY <1>1, <2>1, MinimalSubset
<1>3. m # {} /\ IsFiniteSet(m)
  <2>1. m # {}
    BY SumEmpty
  <2> QED BY <2>1, FS_Subset
<1>4. Picked(m) \in m
  BY <1>3, PickedMember
<1>5. SumFunctionOnSet(f, m \ {Picked(m)}) = SumFunctionOnSet(g, m \ {Picked(m)})
  BY <1>2, <1>4
<1>6. f[Picked(m)] = g[Picked(m)]
  BY <1>4
<1> QED BY <1>2, <1>3, <1>5, <1>6, SumPicked

\* One value changes, the others do not.
LEMMA SumChanged ==
  ASSUME NEW f, NEW g, NEW S, IsFiniteSet(S), NEW x \in S,
         \A s \in S : f[s] \in Int /\ g[s] \in Int,
         \A s \in S \ {x} : g[s] = f[s]
  PROVE  SumFunctionOnSet(g, S) = SumFunctionOnSet(f, S) + g[x] - f[x]
<1> DEFINE T == S \ {x}
<1>1. IsFiniteSet(T)
  BY FS_RemoveElement
<1>2. SumFunctionOnSet(f, T) = SumFunctionOnSet(g, T) /\ SumFunctionOnSet(f, T) \in Int
  <2>1. \A s \in T : f[s] = g[s] /\ f[s] \in Int
    OBVIOUS
  <2> HIDE DEF T
  <2> QED BY <1>1, <2>1, SumSame, SumType
<1>3. SumFunctionOnSet(f, S) = f[x] + SumFunctionOnSet(f, T)
  BY SumTaken
<1>4. SumFunctionOnSet(g, S) = g[x] + SumFunctionOnSet(g, T)
  BY SumTaken
<1>5. f[x] \in Int /\ g[x] \in Int
  OBVIOUS
<1> HIDE DEF T
<1> QED BY <1>2, <1>3, <1>4, <1>5

\* The sum of sums.
LEMMA SumPlus ==
  ASSUME NEW f, NEW g, NEW h, NEW S, IsFiniteSet(S),
         \A s \in S : f[s] \in Int /\ g[s] \in Int /\ h[s] = f[s] + g[s]
  PROVE  SumFunctionOnSet(h, S) = SumFunctionOnSet(f, S) + SumFunctionOnSet(g, S)
<1> DEFINE F(t) == SumFunctionOnSet(f, t)
           G(t) == SumFunctionOnSet(g, t)
           H(t) == SumFunctionOnSet(h, t)
           Wrong == {t \in SUBSET S : H(t) # F(t) + G(t)}
<1>1. SUFFICES ASSUME Wrong # {} PROVE FALSE
  OBVIOUS
<1>2. PICK m \in Wrong : \A t \in Wrong : t \subseteq m => t = m
  <2>1. Wrong \in SUBSET SUBSET S
    OBVIOUS
  <2> HIDE DEF Wrong
  <2> QED BY <1>1, <2>1, MinimalSubset
<1>3. m # {} /\ IsFiniteSet(m)
  <2>1. F({}) = 0 /\ G({}) = 0 /\ H({}) = 0
    BY SumEmpty
  <2>2. m # {}
    <3>1. H(m) # F(m) + G(m)
      OBVIOUS
    <3> HIDE DEF F, G, H, Wrong
    <3> QED BY <2>1, <3>1
  <2> QED BY <2>2, FS_Subset
<1> DEFINE p == Picked(m)
           r == m \ {p}
<1>4. p \in m /\ r \in SUBSET S /\ IsFiniteSet(r)
  BY <1>3, PickedMember, FS_Subset
<1>5. H(r) = F(r) + G(r)
  BY <1>2, <1>4
<1>6. F(r) \in Int /\ G(r) \in Int /\ f[p] \in Int /\ g[p] \in Int /\ h[p] = f[p] + g[p]
  BY <1>4, SumType
<1>7. F(m) = f[p] + F(r) /\ G(m) = g[p] + G(r) /\ H(m) = h[p] + H(r)
  BY <1>3, SumPicked
<1>8. H(m) # F(m) + G(m)
  BY <1>2
<1> HIDE DEF F, G, H, p, r
<1> QED BY <1>5, <1>6, <1>7, <1>8

\* Sums are ordered as their terms are.
LEMMA SumOrdered ==
  ASSUME NEW f, NEW g, NEW S, IsFiniteSet(S),
         \A s \in S : f[s] \in Int /\ g[s] \in Int /\ f[s] <= g[s]
  PROVE  SumFunctionOnSet(f, S) <= SumFunctionOnSet(g, S)
<1> DEFINE F(t) == SumFunctionOnSet(f, t)
           G(t) == SumFunctionOnSet(g, t)
           Wrong == {t \in SUBSET S : ~ (F(t) <= G(t))}
<1>1. SUFFICES ASSUME Wrong # {} PROVE FALSE
  OBVIOUS
<1>2. PICK m \in Wrong : \A t \in Wrong : t \subseteq m => t = m
  <2>1. Wrong \in SUBSET SUBSET S
    OBVIOUS
  <2> HIDE DEF Wrong
  <2> QED BY <1>1, <2>1, MinimalSubset
<1>3. m # {} /\ IsFiniteSet(m)
  <2>1. m # {}
    BY SumEmpty
  <2> QED BY <2>1, FS_Subset
<1> DEFINE p == Picked(m)
           r == m \ {p}
<1>4. p \in m /\ r \in SUBSET S /\ IsFiniteSet(r)
  BY <1>3, PickedMember, FS_Subset
<1>5. F(r) <= G(r)
  BY <1>2, <1>4
<1>6. F(r) \in Int /\ G(r) \in Int /\ f[p] \in Int /\ g[p] \in Int /\ f[p] <= g[p]
  BY <1>4, SumType
<1>7. F(m) = f[p] + F(r) /\ G(m) = g[p] + G(r)
  BY <1>3, SumPicked
<1>8. ~ (F(m) <= G(m))
  BY <1>2
<1> HIDE DEF F, G, p, r
<1> QED BY <1>5, <1>6, <1>7, <1>8

\* A sum of zeros.
LEMMA SumZero ==
  ASSUME NEW f, NEW S, IsFiniteSet(S), \A s \in S : f[s] = 0
  PROVE  SumFunctionOnSet(f, S) = 0
<1> DEFINE Wrong == {t \in SUBSET S : SumFunctionOnSet(f, t) # 0}
<1>1. SUFFICES ASSUME Wrong # {} PROVE FALSE
  OBVIOUS
<1>2. PICK m \in Wrong : \A t \in Wrong : t \subseteq m => t = m
  <2>1. Wrong \in SUBSET SUBSET S
    OBVIOUS
  <2> HIDE DEF Wrong
  <2> QED BY <1>1, <2>1, MinimalSubset
<1>3. m # {} /\ IsFiniteSet(m)
  <2>1. m # {}
    BY SumEmpty
  <2> QED BY <2>1, FS_Subset
<1>4. Picked(m) \in m
  BY <1>3, PickedMember
<1>5. SumFunctionOnSet(f, m \ {Picked(m)}) = 0 /\ f[Picked(m)] = 0
  BY <1>2, <1>4
<1> QED BY <1>2, <1>3, <1>5, SumPicked

\* A sum of natural numbers is one, and none of them is larger.
LEMMA SumNatural ==
  ASSUME NEW f, NEW S, IsFiniteSet(S), \A s \in S : f[s] \in Nat
  PROVE  /\ SumFunctionOnSet(f, S) \in Nat
         /\ \A x \in S : f[x] <= SumFunctionOnSet(f, S)
<1>1. ASSUME NEW T \in SUBSET S PROVE SumFunctionOnSet(f, T) \in Nat
  <2> DEFINE zero == [t \in T |-> 0]
  <2>1. IsFiniteSet(T)
    BY FS_Subset
  <2>2. SumFunctionOnSet(zero, T) = 0 /\ SumFunctionOnSet(zero, T) <= SumFunctionOnSet(f, T)
    <3>1. \A s \in T : zero[s] = 0 /\ f[s] \in Nat
      OBVIOUS
    <3> HIDE DEF zero
    <3> QED BY <2>1, <3>1, SumZero, SumOrdered
  <2>3. SumFunctionOnSet(f, T) \in Int
    BY <2>1, SumType
  <2> QED BY <2>2, <2>3
<1>2. ASSUME NEW x \in S PROVE f[x] <= SumFunctionOnSet(f, S)
  <2>1. SumFunctionOnSet(f, S) = f[x] + SumFunctionOnSet(f, S \ {x})
    BY SumTaken
  <2>2. SumFunctionOnSet(f, S \ {x}) \in Nat /\ f[x] \in Nat
    BY <1>1
  <2> QED BY <2>1, <2>2
<1> QED BY <1>1, <1>2

\* Elements that count nothing may be left out.
LEMMA SumPadded ==
  ASSUME NEW f, NEW U, IsFiniteSet(U), NEW S \in SUBSET U,
         \A u \in U : f[u] \in Int, \A u \in U \ S : f[u] = 0
  PROVE  SumFunctionOnSet(f, U) = SumFunctionOnSet(f, S)
<1> DEFINE Total(t) == SumFunctionOnSet(f, t)
           Wrong == {V \in SUBSET U : S \subseteq V /\ Total(V) # Total(S)}
<1>1. SUFFICES ASSUME Wrong # {} PROVE FALSE
  OBVIOUS
<1>2. PICK m \in Wrong : \A t \in Wrong : t \subseteq m => t = m
  <2>1. Wrong \in SUBSET SUBSET U
    OBVIOUS
  <2> HIDE DEF Wrong
  <2> QED BY <1>1, <2>1, MinimalSubset
<1>3. PICK x \in m : x \notin S
  <2>1. S \subseteq m /\ Total(m) # Total(S)
    OBVIOUS
  <2> HIDE DEF Total, Wrong
  <2> QED BY <2>1
<1>4. Total(m) = f[x] + Total(m \ {x})
  BY <1>2, <1>3, FS_Subset, SumTaken
<1>5. f[x] = 0 /\ Total(m \ {x}) \in Int
  BY <1>2, <1>3, FS_Subset, SumType
<1>6. Total(m \ {x}) = Total(S)
  <2> HIDE DEF Total
  <2> QED BY <1>2, <1>3
<1> HIDE DEF Total
<1> QED BY <1>2, <1>4, <1>5, <1>6

\* The sum over two sets that share nothing.
LEMMA SumUnion ==
  ASSUME NEW f, NEW S, NEW T, IsFiniteSet(S), IsFiniteSet(T), S \cap T = {},
         \A x \in S \cup T : f[x] \in Int
  PROVE  SumFunctionOnSet(f, S \cup T) = SumFunctionOnSet(f, S) + SumFunctionOnSet(f, T)
<1> DEFINE U == S \cup T
           g == [u \in U |-> IF u \in S THEN f[u] ELSE 0]
           h == [u \in U |-> IF u \in T THEN f[u] ELSE 0]
<1>1. IsFiniteSet(U)
  BY FS_Union
<1>2. /\ \A u \in U : g[u] \in Int /\ h[u] \in Int /\ f[u] = g[u] + h[u]
      /\ \A u \in U \ S : g[u] = 0
      /\ \A u \in U \ T : h[u] = 0
      /\ \A s \in S : g[s] = f[s]
      /\ \A s \in T : h[s] = f[s]
      /\ S \in SUBSET U /\ T \in SUBSET U
  OBVIOUS
<1> HIDE DEF g, h, U
<1>3. SumFunctionOnSet(f, U) = SumFunctionOnSet(g, U) + SumFunctionOnSet(h, U)
  BY <1>1, <1>2, SumPlus
<1>4. SumFunctionOnSet(g, U) = SumFunctionOnSet(g, S)
  BY <1>1, <1>2, SumPadded
<1>5. SumFunctionOnSet(h, U) = SumFunctionOnSet(h, T)
  BY <1>1, <1>2, SumPadded
<1>6. SumFunctionOnSet(g, S) = SumFunctionOnSet(f, S)
  BY <1>2, SumSame
<1>7. SumFunctionOnSet(h, T) = SumFunctionOnSet(f, T)
  BY <1>2, SumSame
<1> QED BY <1>3, <1>4, <1>5, <1>6, <1>7 DEF U

\* The elements of S whose class is t, and what they sum to.
Class(k, S, t) == {s \in S : k[s] = t}

\* The sum may be taken class by class.
LEMMA SumByClass ==
  ASSUME NEW f, NEW S, IsFiniteSet(S), NEW T, IsFiniteSet(T), NEW k \in [S -> T],
         \A s \in S : f[s] \in Int,
         NEW g, \A t \in T : g[t] = SumFunctionOnSet(f, Class(k, S, t))
  PROVE  SumFunctionOnSet(g, T) = SumFunctionOnSet(f, S)
<1> DEFINE Total(m) == SumFunctionOnSet(f, m)
           G(m) == [t \in T |-> Total(Class(k, m, t))]
           ByClass(m) == SumFunctionOnSet(G(m), T)
           Wrong == {m \in SUBSET S : ByClass(m) # Total(m)}
<1>1. ByClass(S) = SumFunctionOnSet(g, T)
  <2>1. \A t \in T : G(S)[t] = g[t]
    OBVIOUS
  <2> HIDE DEF G
  <2> QED BY <2>1, SumSame
<1>2. SUFFICES ASSUME Wrong # {} PROVE FALSE
  BY <1>1
<1>3. PICK m \in Wrong : \A t \in Wrong : t \subseteq m => t = m
  <2>1. Wrong \in SUBSET SUBSET S
    OBVIOUS
  <2> HIDE DEF Wrong
  <2> QED BY <1>2, <2>1, MinimalSubset
<1>4. m \in SUBSET S /\ IsFiniteSet(m)
  BY FS_Subset
<1>5. ASSUME NEW n \in SUBSET m, NEW t \in T
      PROVE  /\ IsFiniteSet(Class(k, n, t)) /\ Class(k, n, t) \in SUBSET S
             /\ Total(Class(k, n, t)) \in Int
  <2>1. Class(k, n, t) \in SUBSET m
    BY DEF Class
  <2>2. IsFiniteSet(Class(k, n, t)) /\ \A s \in Class(k, n, t) : f[s] \in Int
    BY <1>4, <2>1, FS_Subset
  <2> QED BY <1>4, <2>1, <2>2, SumType
<1>6. m # {}
  <2>1. ASSUME m = {} PROVE ByClass(m) = 0 /\ Total(m) = 0
    <3>1. \A t \in T : G(m)[t] = 0
      <4>1. \A t \in T : Class(k, m, t) = {}
        BY <2>1 DEF Class
      <4> QED BY <4>1, SumEmpty
    <3> HIDE DEF G
    <3> QED BY <2>1, <3>1, SumZero, SumEmpty
  <2>2. ByClass(m) # Total(m)
    BY <1>3
  <2> HIDE DEF ByClass, Total
  <2> QED BY <2>1, <2>2
<1>7. PICK p \in m : TRUE
  BY <1>6
<1> DEFINE r == m \ {p}
<1>8. r \in SUBSET m /\ r \in SUBSET S /\ IsFiniteSet(r) /\ r # m
  BY <1>4, <1>7, FS_Subset
<1>9. ByClass(r) = Total(r)
  BY <1>3, <1>8
<1>10. k[p] \in T /\ f[p] \in Int
  BY <1>4
<1>11. Total(m) = f[p] + Total(r)
  BY <1>4, SumTaken
<1>12. ASSUME NEW t \in T
       PROVE  G(m)[t] = IF t = k[p] THEN f[p] + G(r)[t] ELSE G(r)[t]
  <2>1. CASE t = k[p]
    <3>1. p \in Class(k, m, t) /\ Class(k, m, t) \ {p} = Class(k, r, t)
      BY <2>1 DEF Class
    <3>2. Total(Class(k, m, t)) = f[p] + Total(Class(k, m, t) \ {p})
      <4>1. IsFiniteSet(Class(k, m, t)) /\ \A s \in Class(k, m, t) : f[s] \in Int
        BY <1>5
      <4> QED BY <3>1, <4>1, SumTaken
    <3> QED BY <2>1, <3>1, <3>2
  <2>2. CASE t # k[p]
    <3>1. Class(k, m, t) = Class(k, r, t)
      BY <2>2 DEF Class
    <3> QED BY <2>2, <3>1
  <2> QED BY <2>1, <2>2
<1>13. \A t \in T : G(m)[t] \in Int /\ G(r)[t] \in Int
  BY <1>5, <1>8
<1>14. ByClass(m) = ByClass(r) + G(m)[k[p]] - G(r)[k[p]]
  <2>1. \A t \in T \ {k[p]} : G(m)[t] = G(r)[t]
    BY <1>12
  <2> HIDE DEF G, r
  <2> QED BY <1>10, <1>13, <2>1, SumChanged
<1>15. ByClass(r) \in Int /\ Total(r) \in Int
  <2>1. ByClass(r) \in Int
    <3> HIDE DEF G, r
    <3> QED BY <1>13, SumType
  <2>2. \A s \in r : f[s] \in Int
    OBVIOUS
  <2> QED BY <1>8, <2>1, <2>2, SumType
<1>16. /\ ByClass(m) # Total(m)
       /\ G(m)[k[p]] = f[p] + G(r)[k[p]]
       /\ G(m)[k[p]] \in Int /\ G(r)[k[p]] \in Int
  BY <1>3, <1>10, <1>12, <1>13
<1> HIDE DEF G, ByClass, Total, r, Wrong
<1> QED BY <1>9, <1>10, <1>11, <1>14, <1>15, <1>16

-----------------------------------------------------------------------------
(* The same for SumFunction, the sum of all values of a function.          *)

LEMMA SumIsOnDomain ==
  ASSUME NEW f, NEW S, DOMAIN f = S
  PROVE  SumFunction(f) = SumFunctionOnSet(f, S)
BY DEF SumFunction

\* The values of a function of integers have an integer sum.
LEMMA SumFunctionType ==
  ASSUME NEW S, IsFiniteSet(S), NEW f \in [S -> Int]
  PROVE  SumFunction(f) \in Int
BY SumIsOnDomain, SumType

\* One value of a function changes.
LEMMA SumFunctionChanged ==
  ASSUME NEW S, IsFiniteSet(S), NEW f \in [S -> Int], NEW g \in [S -> Int], NEW x \in S,
         \A s \in S \ {x} : g[s] = f[s]
  PROVE  SumFunction(g) = SumFunction(f) + g[x] - f[x]
<1>1. SumFunctionOnSet(g, S) = SumFunctionOnSet(f, S) + g[x] - f[x]
  BY SumChanged
<1> QED BY <1>1, SumIsOnDomain

\* The domain of a function of integers grows by one.
LEMMA SumFunctionGrows ==
  ASSUME NEW S, IsFiniteSet(S), NEW f \in [S -> Int], NEW x, x \notin S,
         NEW g \in [S \cup {x} -> Int], \A s \in S : g[s] = f[s]
  PROVE  SumFunction(g) = SumFunction(f) + g[x]
<1>1. SumFunctionOnSet(g, S \cup {x}) = g[x] + SumFunctionOnSet(g, S)
  <2>1. \A s \in S \cup {x} : g[s] \in Int
    OBVIOUS
  <2> QED BY ONLY <2>1, IsFiniteSet(S), x \notin S, SumAdded
<1>2. SumFunctionOnSet(g, S) = SumFunctionOnSet(f, S)
  BY SumSame
<1>3. SumFunctionOnSet(f, S) \in Int /\ g[x] \in Int
  BY SumType
<1> QED
  BY <1>1, <1>2, <1>3, SumIsOnDomain

\* The same, said of the values.
LEMMA SumFunctionExtended ==
  ASSUME NEW S, IsFiniteSet(S), NEW x, x \notin S, NEW T, T = S \cup {x},
         NEW f, NEW g, DOMAIN f = S, DOMAIN g = T, g[x] \in Int,
         \A s \in S : f[s] \in Int /\ g[s] = f[s]
  PROVE  SumFunction(g) = SumFunction(f) + g[x]
<1>1. SumFunctionOnSet(g, S \cup {x}) = g[x] + SumFunctionOnSet(g, S)
  <2>1. \A s \in S \cup {x} : g[s] \in Int
    OBVIOUS
  <2> QED BY <2>1, SumAdded
<1>2. SumFunctionOnSet(g, S) = SumFunctionOnSet(f, S) /\ SumFunctionOnSet(f, S) \in Int
  BY SumSame, SumType
<1>3. SumFunction(g) = SumFunctionOnSet(g, S \cup {x}) /\ SumFunction(f) = SumFunctionOnSet(f, S)
  BY SumIsOnDomain
<1> QED BY <1>1, <1>2, <1>3

\* A function of zeros.
LEMMA SumFunctionZero ==
  ASSUME NEW S, IsFiniteSet(S), NEW f, DOMAIN f = S, \A s \in S : f[s] = 0
  PROVE  SumFunction(f) = 0
BY SumIsOnDomain, SumZero

\* A function of natural numbers.
LEMMA SumFunctionNatural ==
  ASSUME NEW S, IsFiniteSet(S), NEW f \in [S -> Nat]
  PROVE  SumFunction(f) \in Nat /\ \A x \in S : f[x] <= SumFunction(f)
BY SumIsOnDomain, SumNatural

\* Naturals that are term by term within other naturals.
LEMMA SumFunctionWithin ==
  ASSUME NEW U, IsFiniteSet(U), NEW S \in SUBSET U, NEW T \in SUBSET U,
         NEW f \in [S -> Nat], NEW g \in [T -> Nat],
         \A s \in S : f[s] <= IF s \in T THEN g[s] ELSE 0
  PROVE  SumFunction(f) <= SumFunction(g)
<1> DEFINE F == [u \in U |-> IF u \in S THEN f[u] ELSE 0]
           G == [u \in U |-> IF u \in T THEN g[u] ELSE 0]
<1>1. /\ \A u \in U : F[u] \in Int /\ G[u] \in Int /\ F[u] <= G[u]
      /\ \A u \in U \ S : F[u] = 0
      /\ \A u \in U \ T : G[u] = 0
      /\ \A s \in S : F[s] = f[s]
      /\ \A s \in T : G[s] = g[s]
  OBVIOUS
<1>2. IsFiniteSet(S) /\ IsFiniteSet(T)
  BY FS_Subset
<1> HIDE DEF F, G
<1>3. SumFunctionOnSet(F, U) <= SumFunctionOnSet(G, U)
  BY <1>1, SumOrdered
<1>4. SumFunctionOnSet(F, U) = SumFunctionOnSet(F, S)
  BY <1>1, SumPadded
<1>5. SumFunctionOnSet(G, U) = SumFunctionOnSet(G, T)
  BY <1>1, SumPadded
<1>6. SumFunctionOnSet(F, S) = SumFunctionOnSet(f, S)
  BY <1>1, <1>2, SumSame
<1>7. SumFunctionOnSet(G, T) = SumFunctionOnSet(g, T)
  BY <1>1, <1>2, SumSame
<1> QED BY <1>3, <1>4, <1>5, <1>6, <1>7, SumIsOnDomain

-----------------------------------------------------------------------------
(* Handlers that go through a list work on what the entries before left.   *)

\* A set of numbers that starts with 0 and has the next of each of its members.
LEMMA CountedUp ==
  ASSUME NEW L \in Nat, NEW W \in SUBSET (0..L), 0 \in W,
         \A n \in 1..L : n - 1 \in W => n \in W
  PROVE  W = 0..L
<1> DEFINE Missed == {0..n : n \in (0..L) \ W}
<1>1. SUFFICES ASSUME Missed # {} PROVE FALSE
  OBVIOUS
<1>2. Missed \in SUBSET SUBSET (0..L)
  OBVIOUS
<1>3. PICK m \in Missed : \A t \in Missed : t \subseteq m => t = m
  <2> DEFINE all == 0..L
  <2>1. IsFiniteSet(all)
    <3>1. 0 \in Int /\ L \in Int
      OBVIOUS
    <3> QED BY <3>1, FS_Interval
  <2>2. Missed \in SUBSET SUBSET all /\ Missed # {}
    BY <1>1, <1>2
  <2> HIDE DEF Missed, all
  <2> QED BY <2>1, <2>2, MinimalSubset
<1>4. PICK n \in (0..L) \ W : m = 0..n
  OBVIOUS
<1>5. n \in 1..L /\ n - 1 \in (0..L) \ W
  OBVIOUS
<1>6. 0..(n - 1) \in Missed
  BY <1>5
<1>7. 0..(n - 1) \subseteq 0..n /\ n \in 0..n /\ n \notin 0..(n - 1)
  BY <1>5
<1> HIDE DEF Missed
<1> QED BY <1>3, <1>4, <1>6, <1>7

\* Going through L entries from x; what each makes of a state of X.
Passes(f, G, x, L) ==
  /\ DOMAIN f = 0..L /\ f[0] = x
  /\ \A n \in 1..L : f[n] = G[n][f[n - 1]]

LEMMA PassesExist ==
  ASSUME NEW L \in Nat, NEW X, NEW x \in X, NEW G \in [1..L -> [X -> X]]
  PROVE  \E f \in [0..L -> X] : Passes(f, G, x, L)
<1> DEFINE Reached == {n \in 0..L : \E f \in [0..n -> X] : Passes(f, G, x, n)}
<1>1. 0 \in Reached
  <2> DEFINE f == [i \in 0..0 |-> x]
  <2>1. f \in [0..0 -> X] /\ Passes(f, G, x, 0)
    BY DEF Passes
  <2> QED BY <2>1
<1>2. ASSUME NEW n \in 1..L, n - 1 \in Reached PROVE n \in Reached
  <2>1. PICK f \in [0..(n - 1) -> X] : Passes(f, G, x, n - 1)
    BY <1>2
  <2> DEFINE next == G[n][f[n - 1]]
             g == [i \in 0..n |-> IF i = n THEN next ELSE f[i]]
  <2>2. n - 1 \in 0..(n - 1) /\ next \in X
    OBVIOUS
  <2>3. g \in [0..n -> X]
    BY <2>2
  <2>4. g[0] = x
    BY <2>1 DEF Passes
  <2>5. ASSUME NEW i \in 1..n PROVE g[i] = G[i][g[i - 1]]
    <3>1. CASE i = n
      <4>1. g[i - 1] = f[n - 1] /\ g[i] = next
        BY <3>1
      <4> QED BY <3>1, <4>1
    <3>2. CASE i # n
      <4>1. i \in 1..(n - 1) /\ i - 1 \in 0..(n - 1)
        BY <3>2
      <4>2. f[i] = G[i][f[i - 1]]
        BY <2>1, <4>1 DEF Passes
      <4>3. g[i] = f[i] /\ g[i - 1] = f[i - 1]
        BY <4>1
      <4> QED BY <4>2, <4>3
    <3> QED BY <3>1, <3>2
  <2>6. Passes(g, G, x, n)
    <3>1. DOMAIN g = 0..n
      OBVIOUS
    <3> HIDE DEF g
    <3> QED BY <2>4, <2>5, <3>1 DEF Passes
  <2> HIDE DEF g
  <2> QED BY <2>3, <2>6
<1>3. Reached = 0..L
  <2>1. Reached \in SUBSET (0..L)
    OBVIOUS
  <2> HIDE DEF Reached
  <2> QED BY <1>1, <1>2, <2>1, CountedUp
<1> QED BY <1>3

\* Entries that keep a state within X keep it there to the end.
LEMMA StepsWithin ==
  ASSUME NEW L \in Nat, NEW X, NEW f, f[0] \in X,
         \A n \in 1..L : f[n - 1] \in X => f[n] \in X
  PROVE  \A n \in 0..L : f[n] \in X
<1> DEFINE W == {n \in 0..L : f[n] \in X}
<1>1. W \in SUBSET (0..L) /\ 0 \in W
  OBVIOUS
<1>2. ASSUME NEW n \in 1..L, n - 1 \in W PROVE n \in W
  BY <1>2
<1>3. W = 0..L
  <2> HIDE DEF W
  <2> QED BY <1>1, <1>2, CountedUp
<1> QED BY <1>3
=============================================================================
