---------------------------- MODULE SumTheorems -----------------------------
(***************************************************************************)
(* Sums of natural numbers over finite sets, as MapThenSumSet computes     *)
(* them for the weights of votes, the scores of a channel's videos and the *)
(* requests a limiter let pass, and the least element the offline queue    *)
(* picks.  Everything rests on an induction over the subsets of a finite   *)
(* set.                                                                    *)
(***************************************************************************)
EXTENDS Integers, FiniteSetsExt, FiniteSetTheorems, TLAPS

Sum(f, S) == MapThenSumSet(LAMBDA x : f[x], S)

(* A property that a set has if all smaller ones have it, all sets have. *)
LEMMA SubsetInduction ==
  ASSUME NEW S, IsFiniteSet(S), NEW G,
         \A T \in SUBSET S : (\A U \in SUBSET T : U # T => U \in G) => T \in G
  PROVE  SUBSET S \subseteq G
<1> SUFFICES ASSUME ~(SUBSET S \subseteq G) PROVE FALSE
  OBVIOUS
<1> DEFINE bad == {T \in SUBSET S : T \notin G}
           order == StrictSubsetOrdering(S)
<1>1. IsWellFoundedOn(order, SUBSET S)
  <2>1. FiniteSubsetsOf(S) = SUBSET S
    BY FS_FiniteSubsetsOfFinite
  <2>2. IsWellFoundedOn(order, FiniteSubsetsOf(S))
    BY FS_StrictSubsetOrderingWellFounded
  <2> QED BY <2>1, <2>2
<1>2. bad # {} /\ bad \subseteq SUBSET S
  OBVIOUS
<1>3. PICK T \in bad : \A U \in bad : <<U, T>> \notin order
  <2> HIDE DEF bad, order
  <2> QED BY <1>1, <1>2, WFMin
<1>4. ASSUME NEW U \in SUBSET T, U # T PROVE U \in G
  <2>1. U \in SUBSET S
    BY <1>3
  <2>2. U \in bad => <<U, T>> \in order
    BY <1>3, <1>4, <2>1 DEF StrictSubsetOrdering
  <2> QED BY <1>3, <2>1, <2>2
<1> QED BY <1>3, <1>4

(* A finite set of integers that is not empty has a least one. *)
LEMMA LeastExists ==
  ASSUME NEW S \in SUBSET Int, IsFiniteSet(S), S # {}
  PROVE  \E x \in S : \A y \in S : x <= y
<1> DEFINE G == {T \in SUBSET S : T # {} => \E x \in T : \A y \in T : x <= y}
<1>1. ASSUME NEW T \in SUBSET S, \A U \in SUBSET T : U # T => U \in G PROVE T \in G
  <2> SUFFICES ASSUME T # {} PROVE \E x \in T : \A y \in T : x <= y
    OBVIOUS
  <2>1. PICK z \in T : TRUE
    OBVIOUS
  <2>2. CASE T = {z}
    BY <2>2
  <2>3. CASE T # {z}
    <3> HIDE DEF G
    <3>0. T \ {z} \in SUBSET T /\ T \ {z} # T /\ T \ {z} # {}
      BY <2>1, <2>3
    <3>1. T \ {z} \in G
      BY <1>1, <3>0
    <3> USE DEF G
    <3>2. PICK x \in T \ {z} : \A y \in T \ {z} : x <= y
      BY <3>0, <3>1
    <3>3. x \in Int /\ z \in Int /\ \A y \in T : y \in Int
      OBVIOUS
    <3>4. CASE x <= z
      BY <3>2, <3>4
    <3>5. CASE ~(x <= z)
      <4>1. \A y \in T : z <= y
        BY <3>2, <3>3, <3>5
      <4> QED BY <4>1
    <3> QED BY <3>4, <3>5
  <2> QED BY <2>2, <2>3
<1> HIDE DEF G
<1>2. SUBSET S \subseteq G
  BY <1>1, SubsetInduction
<1> QED BY <1>2 DEF G

-----------------------------------------------------------------------------
(* The definition of the sum: an element is taken out, again and again. *)
First(s)      == CHOOSE x \in s : TRUE
Step(f, g, s) == IF s = {} THEN 0 ELSE f[First(s)] + g[s \ {First(s)}]
Sums(f, g, T) == \A s \in SUBSET T : g[s] = Step(f, g, s)

LEMMA FirstElement == ASSUME NEW s, s # {} PROVE First(s) \in s
BY DEF First

LEMMA SumsUnique ==
  ASSUME NEW f, NEW S, IsFiniteSet(S), NEW g, NEW h, Sums(f, g, S), Sums(f, h, S)
  PROVE  \A s \in SUBSET S : g[s] = h[s]
<1> DEFINE G == {s \in SUBSET S : g[s] = h[s]}
<1>1. ASSUME NEW T \in SUBSET S, \A U \in SUBSET T : U # T => U \in G PROVE T \in G
  <2>1. T # {} => T \ {First(T)} \in G
    BY <1>1, FirstElement
  <2>2. Step(f, g, T) = Step(f, h, T)
    BY <2>1 DEF Step
  <2> QED BY <2>2 DEF Sums
<1> HIDE DEF G
<1>2. SUBSET S \subseteq G
  BY <1>1, SubsetInduction
<1> QED BY <1>2 DEF G

LEMMA SumsExist ==
  ASSUME NEW S, IsFiniteSet(S), NEW f \in [S -> Nat]
  PROVE  \E g \in [SUBSET S -> Nat] : Sums(f, g, S)
<1> DEFINE G == {T \in SUBSET S : \E g \in [SUBSET S -> Nat] : Sums(f, g, T)}
<1>1. ASSUME NEW T \in SUBSET S, \A U \in SUBSET T : U # T => U \in G PROVE T \in G
  <2> DEFINE sums(U) == CHOOSE g \in [SUBSET S -> Nat] : Sums(f, g, U)
             value(U) == sums(U)[U]
             whole == IF T = {} THEN 0 ELSE f[First(T)] + value(T \ {First(T)})
             h == [s \in SUBSET S |-> IF s \in SUBSET T
                                        THEN IF s = T THEN whole ELSE value(s) ELSE 0]
  <2>1. ASSUME NEW U \in SUBSET T, U # T
        PROVE  sums(U) \in [SUBSET S -> Nat] /\ Sums(f, sums(U), U) /\ value(U) \in Nat
    <3>1. \E g \in [SUBSET S -> Nat] : Sums(f, g, U)
      BY <1>1, <2>1
    <3>2. sums(U) \in [SUBSET S -> Nat] /\ Sums(f, sums(U), U)
      BY <3>1
    <3> HIDE DEF sums
    <3> QED BY <3>2, <2>1
  <2> HIDE DEF sums
  <2>2. whole \in Nat
    <3>1. ASSUME T # {} PROVE f[First(T)] \in Nat /\ value(T \ {First(T)}) \in Nat
      <4>1. First(T) \in T
        BY <3>1, FirstElement
      <4>2. value(T \ {First(T)}) \in Nat
        <5> HIDE DEF value
        <5> QED BY <4>1, <2>1
      <4> QED BY <4>1, <4>2
    <3> HIDE DEF value
    <3> QED BY <3>1
  <2> HIDE DEF value, whole
  <2>3. h \in [SUBSET S -> Nat]
    BY <2>1, <2>2
  <2>4. ASSUME NEW s \in SUBSET T PROVE h[s] = Step(f, h, s)
    <3>1. CASE s = T
      <4>1. CASE T = {}
        BY <3>1, <4>1 DEF Step, whole
      <4>2. CASE T # {}
        <5>1. First(T) \in T
          BY <4>2, FirstElement
        <5>2. h[T \ {First(T)}] = value(T \ {First(T)})
          BY <5>1
        <5> QED BY <3>1, <4>2, <5>2 DEF Step, whole
      <4> QED BY <4>1, <4>2
    <3>2. CASE s # T
      <4>1. h[s] = value(s) /\ value(s) = Step(f, sums(s), s)
        BY <3>2, <2>1 DEF Sums, value
      <4>2. CASE s = {}
        BY <4>1, <4>2 DEF Step
      <4>3. CASE s # {}
        <5> DEFINE r == s \ {First(s)}
        <5>1. First(s) \in s /\ r \in SUBSET T /\ r # T /\ r \in SUBSET s
          BY <4>3, FirstElement
        <5> HIDE DEF r
        <5>2. Sums(f, sums(s), r) /\ Sums(f, sums(r), r)
          BY <3>2, <5>1, <2>1 DEF Sums
        <5>3. IsFiniteSet(r)
          BY <5>1, FS_Subset
        <5>4. sums(s)[r] = value(r)
          BY <5>2, <5>3, SumsUnique DEF value
        <5>5. h[r] = value(r)
          BY <5>1
        <5> QED BY <4>1, <4>3, <5>4, <5>5 DEF Step, r
      <4> QED BY <4>2, <4>3
    <3> QED BY <3>1, <3>2
  <2> HIDE DEF h
  <2> QED BY <2>3, <2>4 DEF Sums
<1> HIDE DEF G
<1>2. SUBSET S \subseteq G
  BY <1>1, SubsetInduction
<1> QED BY <1>2 DEF G

(* The sum is the value of any function that satisfies its equation. *)
LEMMA SumIs ==
  ASSUME NEW S, IsFiniteSet(S), NEW f, NEW g, Sums(f, g, S)
  PROVE  Sum(f, S) = g[S]
<1> DEFINE eq(k) == [s \in SUBSET S |->
                       IF s = {} THEN 0
                       ELSE LET x == CHOOSE x \in s : TRUE IN f[x] + k[s \ {x}]]
           h == [s \in SUBSET S |-> g[s]]
           c == CHOOSE k : k = eq(k)
<1>1. \A k : k = eq(k) => Sums(f, k, S)
  BY DEF Sums, Step, First
<1>2. h = eq(h)
  <2>1. ASSUME NEW s \in SUBSET S PROVE h[s] = eq(h)[s]
    BY DEF Sums, Step, First
  <2> QED BY <2>1
<1>3. c = eq(c)
  <2> HIDE DEF eq, h
  <2> QED BY <1>2
<1>4. Sum(f, S) = c[S]
  BY Zenon DEF Sum, MapThenSumSet, MapThenFoldSet
<1> HIDE DEF c, eq
<1>5. Sums(f, c, S)
  BY <1>1, <1>3
<1> QED BY <1>4, <1>5, SumsUnique

-----------------------------------------------------------------------------
LEMMA SumEmpty == ASSUME NEW f PROVE Sum(f, {}) = 0
<1> DEFINE g == [s \in SUBSET {} |-> 0]
<1>1. Sums(f, g, {})
  BY DEF Sums, Step
<1>2. g[{}] = 0
  OBVIOUS
<1> HIDE DEF g
<1> QED BY <1>1, <1>2, SumIs, FS_EmptySet

(* What the recursion computes, for a set and all its subsets at once. *)
LEMMA SumsOfSubsets ==
  ASSUME NEW S, IsFiniteSet(S), NEW f \in [S -> Nat]
  PROVE  \A T \in SUBSET S : /\ Sum(f, T) \in Nat
                             /\ Sum(f, T) = Step(f, [U \in SUBSET S |-> Sum(f, U)], T)
<1>1. PICK g \in [SUBSET S -> Nat] : Sums(f, g, S)
  BY SumsExist
<1>2. ASSUME NEW T \in SUBSET S PROVE Sum(f, T) = g[T]
  <2>1. IsFiniteSet(T) /\ Sums(f, g, T)
    BY <1>1, FS_Subset DEF Sums
  <2> QED BY <2>1, SumIs
<1>3. ASSUME NEW T \in SUBSET S
      PROVE  Step(f, g, T) = Step(f, [U \in SUBSET S |-> Sum(f, U)], T)
  <2>1. T # {} => T \ {First(T)} \in SUBSET S
    OBVIOUS
  <2> QED BY <1>2, <2>1 DEF Step
<1> QED BY <1>1, <1>2, <1>3 DEF Sums

LEMMA SumNat ==
  ASSUME NEW S, IsFiniteSet(S), NEW f \in [S -> Nat], NEW T \in SUBSET S
  PROVE  Sum(f, T) \in Nat
BY SumsOfSubsets

(* Any element may be taken out first. *)
LEMMA SumRemove ==
  ASSUME NEW S, IsFiniteSet(S), NEW f \in [S -> Nat]
  PROVE  \A T \in SUBSET S : \A x \in T : Sum(f, T) = f[x] + Sum(f, T \ {x})
<1> DEFINE G == {T \in SUBSET S : \A x \in T : Sum(f, T) = f[x] + Sum(f, T \ {x})}
<1>1. ASSUME NEW T \in SUBSET S, T # {}
      PROVE  First(T) \in T /\ Sum(f, T) = f[First(T)] + Sum(f, T \ {First(T)})
  <2>1. First(T) \in T
    BY <1>1, FirstElement
  <2> DEFINE sums == [U \in SUBSET S |-> Sum(f, U)]
  <2>2. Sum(f, T) = Step(f, sums, T)
    BY SumsOfSubsets
  <2>3. Step(f, sums, T) = f[First(T)] + sums[T \ {First(T)}]
    BY <1>1 DEF Step
  <2> QED BY <2>1, <2>2, <2>3
<1>2. \A T \in SUBSET S : Sum(f, T) \in Nat
  BY SumsOfSubsets
<1>3. ASSUME NEW T \in SUBSET S, \A U \in SUBSET T : U # T => U \in G PROVE T \in G
  <2> SUFFICES ASSUME NEW x \in T PROVE Sum(f, T) = f[x] + Sum(f, T \ {x})
    OBVIOUS
  <2> DEFINE c == First(T)
             rest == (T \ {c}) \ {x}
  <2>1. c \in T /\ Sum(f, T) = f[c] + Sum(f, T \ {c})
    BY <1>1
  <2>2. CASE x = c
    BY <2>1, <2>2
  <2>3. CASE x # c
    <3>1. x \in T \ {c} /\ c \in T \ {x} /\ (T \ {x}) \ {c} = rest
      BY <2>1, <2>3
    <3>2. T \ {c} \in G /\ T \ {x} \in G
      BY <1>3, <2>1
    <3>3. Sum(f, T \ {c}) = f[x] + Sum(f, rest) /\ Sum(f, T \ {x}) = f[c] + Sum(f, rest)
      BY <3>1, <3>2
    <3>4. f[x] \in Nat /\ f[c] \in Nat /\ Sum(f, rest) \in Nat
      BY <1>2, <2>1
    <3> QED BY <2>1, <3>3, <3>4
  <2> QED BY <2>2, <2>3
<1> HIDE DEF G
<1>4. SUBSET S \subseteq G
  BY <1>3, SubsetInduction
<1> QED BY <1>4 DEF G

(* A sum is at most another one that counts each of its terms. *)
LEMMA SumAtMost ==
  ASSUME NEW S, IsFiniteSet(S), NEW f \in [S -> Nat], NEW g \in [S -> Nat],
         NEW A \in SUBSET S, NEW B \in SUBSET S,
         \A x \in A : f[x] # 0 => x \in B /\ f[x] <= g[x]
  PROVE  Sum(f, A) <= Sum(g, B)
<1> DEFINE Covers(D, E) == \A x \in D : f[x] # 0 => x \in E /\ f[x] <= g[x]
           G == {D \in SUBSET S : \A E \in SUBSET S :
                                    Covers(D, E) => Sum(f, D) <= Sum(g, E)}
<1>1. \A T \in SUBSET S : Sum(f, T) \in Nat /\ Sum(g, T) \in Nat
  BY SumsOfSubsets
<1>2. ASSUME NEW D \in SUBSET S, \A U \in SUBSET D : U # D => U \in G PROVE D \in G
  <2> SUFFICES ASSUME NEW E \in SUBSET S, Covers(D, E) PROVE Sum(f, D) <= Sum(g, E)
    OBVIOUS
  <2>1. CASE D = {}
    BY <1>1, <2>1, SumEmpty
  <2>2. CASE D # {}
    <3>1. PICK x \in D : TRUE
      BY <2>2
    <3>2. D \ {x} \in G /\ D \ {x} \in SUBSET S
      BY <1>2
    <3>3. Sum(f, D) = f[x] + Sum(f, D \ {x})
      BY SumRemove
    <3>4. CASE f[x] = 0
      <4>1. Covers(D \ {x}, E)
        OBVIOUS
      <4>2. Sum(f, D \ {x}) <= Sum(g, E)
        BY <3>2, <4>1
      <4> QED BY <1>1, <3>2, <3>3, <3>4, <4>2
    <3>5. CASE f[x] # 0
      <4>1. x \in E /\ f[x] <= g[x] /\ E \ {x} \in SUBSET S
        BY <3>5
      <4>2. Covers(D \ {x}, E \ {x})
        OBVIOUS
      <4>3. Sum(f, D \ {x}) <= Sum(g, E \ {x})
        BY <3>2, <4>1, <4>2
      <4>4. Sum(g, E) = g[x] + Sum(g, E \ {x})
        BY <4>1, SumRemove
      <4>5. f[x] \in Nat /\ g[x] \in Nat
        OBVIOUS
      <4> QED BY <1>1, <3>2, <3>3, <4>1, <4>3, <4>4, <4>5
    <3> QED BY <3>4, <3>5
  <2> QED BY <2>1, <2>2
<1> HIDE DEF G
<1>3. SUBSET S \subseteq G
  BY <1>2, SubsetInduction
<1> QED BY <1>3 DEF G

(* Two sets together have at most the two sums. *)
LEMMA SumUnion ==
  ASSUME NEW S, IsFiniteSet(S), NEW f \in [S -> Nat],
         NEW A \in SUBSET S, NEW B \in SUBSET S
  PROVE  Sum(f, A \cup B) <= Sum(f, A) + Sum(f, B)
<1> DEFINE G == {D \in SUBSET S : Sum(f, D \cup B) <= Sum(f, D) + Sum(f, B)}
<1>1. \A T \in SUBSET S : Sum(f, T) \in Nat
  BY SumsOfSubsets
<1>2. ASSUME NEW D \in SUBSET S, \A U \in SUBSET D : U # D => U \in G PROVE D \in G
  <2>1. CASE D \subseteq B
    <3>1. D \cup B = B
      BY <2>1
    <3> QED BY <1>1, <3>1
  <2>2. CASE ~(D \subseteq B)
    <3>1. PICK x \in D : x \notin B
      BY <2>2
    <3>2. D \ {x} \in G
      BY <1>2
    <3>3. Sum(f, D) = f[x] + Sum(f, D \ {x})
      BY SumRemove
    <3>4. Sum(f, D \cup B) = f[x] + Sum(f, (D \cup B) \ {x})
      BY SumRemove
    <3>5. (D \cup B) \ {x} = (D \ {x}) \cup B
      BY <3>1
    <3>6. /\ f[x] \in Nat /\ Sum(f, B) \in Nat /\ Sum(f, D \ {x}) \in Nat
          /\ Sum(f, (D \ {x}) \cup B) \in Nat
      BY <1>1
    <3>7. Sum(f, (D \ {x}) \cup B) <= Sum(f, D \ {x}) + Sum(f, B)
      BY <3>2
    <3>8. Sum(f, D \cup B) <= Sum(f, D) + Sum(f, B)
      BY ONLY <3>3, <3>4, <3>5, <3>6, <3>7
    <3> QED BY <3>8
  <2> QED BY <2>1, <2>2
<1> HIDE DEF G
<1>3. SUBSET S \subseteq G
  BY <1>2, SubsetInduction
<1> QED BY <1>3 DEF G
=============================================================================
