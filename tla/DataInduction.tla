---------------------------- MODULE DataInduction ----------------------------
(***************************************************************************)
(* Induction over numbers and over finite sets, and the sum of a function  *)
(* over a finite set (SumFunctionOnSet of Functions), from the well-       *)
(* foundedness of the natural numbers. The induction theorems of the       *)
(* library take a predicate as a parameter; these take the set of what     *)
(* satisfies it, so that a proof defines that set and cites them.          *)
(***************************************************************************)
EXTENDS Integers, FiniteSets, Functions, FiniteSetTheorems, WellFoundedInduction, TLAPS

\* A set of numbers that is not empty has a least one.
LEMMA LeastNat ==
  ASSUME NEW S \in SUBSET Nat, S # {}
  PROVE \E n \in S : \A m \in S : n <= m
<1> DEFINE R == {p \in Nat \X Nat : p[1] < p[2]}
<1>1. OpToRel(<, Nat) = R
  BY DEF OpToRel
<1>2. IsWellFoundedOn(R, Nat)
  BY <1>1, NatLessThanWellFounded
<1> HIDE DEF R
<1>3. PICK n \in S : \A m \in S : ~ (<<m, n>> \in R)
  BY <1>2, WFMin
<1>4. \A m \in S : ~ (m < n)
  BY <1>3 DEF R
<1>5. QED
  BY <1>4

\* Induction: a set with zero and every successor has every number.
LEMMA NatInd ==
  ASSUME NEW S \in SUBSET Nat, 0 \in S, \A n \in S : n+1 \in S
  PROVE Nat \subseteq S
<1>1. SUFFICES ASSUME Nat \ S # {} PROVE FALSE
  OBVIOUS
<1>2. PICK n \in Nat \ S : \A m \in Nat \ S : n <= m
  BY <1>1, LeastNat
<1>3. n # 0 /\ n - 1 \in Nat /\ n-1 \in S
  BY <1>2
<1>4. QED
  BY <1>2, <1>3

Pick(s) == CHOOSE x \in s : TRUE
Step(f, g, X) == [s \in X |-> IF s = {} THEN 0 ELSE f[Pick(s)] + g[s \ {Pick(s)}]]
SumStep(f, g, S) == g = Step(f, g, SUBSET S)

\* The sum is a fixed point of the step, if one exists.
LEMMA SumIsStep ==
  ASSUME NEW f, NEW S
  PROVE  SumFunctionOnSet(f, S) = (CHOOSE g : SumStep(f, g, S))[S]
  BY DEF SumFunctionOnSet, FoldFunctionOnSet, MapThenFoldSet, SumStep, Step, Pick

\* The element the sum takes out first is one of the set.
LEMMA PickIn == ASSUME NEW s, s # {} PROVE Pick(s) \in s
  BY DEF Pick

\* Taking it out leaves a smaller set.
LEMMA PickOut ==
  ASSUME NEW s, IsFiniteSet(s), s # {}
  PROVE /\ IsFiniteSet(s \ {Pick(s)})
        /\ Cardinality(s \ {Pick(s)}) = Cardinality(s) - 1
        /\ Cardinality(s) \in Nat \ {0}
<1>1. Pick(s) \in s
  BY PickIn
<1>2. QED
  BY <1>1, FS_RemoveElement, FS_CardinalityType, FS_EmptySet

Small(S, n) == {s \in SUBSET S : Cardinality(s) <= n}

\* A finite set has such a fixed point.
LEMMA SumExists ==
  ASSUME NEW f, NEW S, IsFiniteSet(S)
  PROVE \E g : SumStep(f, g, S)
<1> DEFINE P(n) == \E g : g = Step(f, g, Small(S, n))
           I == {n \in Nat : P(n)}
<1>1. 0 \in I
  <2>1. Small(S, 0) = {{}}
    BY FS_Subset, FS_CardinalityType, FS_EmptySet DEF Small
  <2> DEFINE g == [s \in {{}} |-> 0]
  <2>2. g = Step(f, g, Small(S, 0))
    BY <2>1 DEF Step
  <2> HIDE DEF g
  <2>3. QED
    BY <2>2
<1>2. ASSUME NEW n \in I PROVE n + 1 \in I
  <2>1. PICK g : g = Step(f, g, Small(S, n))
    OBVIOUS
  <2> DEFINE h == Step(f, g, Small(S, n + 1))
  <2>2. ASSUME NEW s \in Small(S, n + 1), s # {} PROVE h[s \ {Pick(s)}] = g[s \ {Pick(s)}]
    <3> DEFINE t == s \ {Pick(s)}
    <3>0. IsFiniteSet(s) /\ s \subseteq S /\ Cardinality(s) <= n + 1
      BY FS_Subset DEF Small
    <3>1. Cardinality(t) = Cardinality(s) - 1 /\ Cardinality(s) \in Nat
      BY <2>2, <3>0, PickOut
    <3>2. t \in Small(S, n)
      BY <3>0, <3>1 DEF Small
    <3>3. t \in Small(S, n + 1)
      BY <3>0, <3>1 DEF Small
    <3> HIDE DEF t
    <3>4. g[t] = Step(f, g, Small(S, n))[t]
      BY <2>1, Zenon
    <3>5. Step(f, g, Small(S, n))[t] = h[t]
      BY <3>2, <3>3 DEF Step
    <3>6. QED
      BY <3>4, <3>5 DEF t
  <2>3. h = Step(f, h, Small(S, n + 1))
    <3>1. \A s \in Small(S, n + 1) : h[s] = Step(f, h, Small(S, n + 1))[s]
      BY <2>2 DEF Step
    <3>2. QED
      BY <3>1 DEF Step
  <2> HIDE DEF h
  <2>4. P(n + 1)
    BY <2>3
  <2>5. QED
    BY <2>4
<1>3. P(Cardinality(S))
  <2> HIDE DEF P
  <2>1. Nat \subseteq I
    BY <1>1, <1>2, NatInd
  <2>2. QED
    BY <2>1, FS_CardinalityType
<1>4. Small(S, Cardinality(S)) = SUBSET S
  BY FS_Subset DEF Small
<1>5. QED
  BY <1>3, <1>4 DEF SumStep

\* The sum over a finite set unfolds by one element.
LEMMA SumEquation ==
  ASSUME NEW f, NEW S, NEW g, SumStep(f, g, S), NEW s \in SUBSET S
  PROVE  g[s] = IF s = {} THEN 0 ELSE f[Pick(s)] + g[s \ {Pick(s)}]
<1>1. g[s] = Step(f, g, SUBSET S)[s]
  BY Zenon DEF SumStep
<1>2. QED
  BY <1>1 DEF Step

(* The iteration over a set agrees with the one over a subset of it. *)
LEMMA SumAgrees ==
  ASSUME NEW f, NEW S, NEW T \in SUBSET S, IsFiniteSet(S),
         NEW g, SumStep(f, g, S), NEW h, SumStep(f, h, T)
  PROVE  g[T] = h[T]
<1> DEFINE I == {n \in Nat : \A s \in SUBSET T : Cardinality(s) = n => g[s] = h[s]}
<1>0. \A s \in SUBSET T : IsFiniteSet(s) /\ Cardinality(s) \in Nat /\ s \in SUBSET S
  BY FS_Subset, FS_CardinalityType
<1>1. 0 \in I
  <2> SUFFICES ASSUME NEW s \in SUBSET T, Cardinality(s) = 0 PROVE g[s] = h[s]
    OBVIOUS
  <2>1. s = {}
    BY <1>0, FS_EmptySet
  <2>2. QED
    BY <2>1, SumEquation
<1>2. ASSUME NEW n \in I PROVE n + 1 \in I
  <2> SUFFICES ASSUME NEW s \in SUBSET T, Cardinality(s) = n + 1 PROVE g[s] = h[s]
    OBVIOUS
  <2>1. s # {}
    BY FS_EmptySet
  <2>2. g[s \ {Pick(s)}] = h[s \ {Pick(s)}]
    <3>1. Cardinality(s \ {Pick(s)}) = n
      BY <1>0, <2>1, PickOut
    <3>2. QED
      BY <3>1
  <2>3. g[s] = f[Pick(s)] + g[s \ {Pick(s)}]
    BY <1>0, <2>1, SumEquation
  <2>4. h[s] = f[Pick(s)] + h[s \ {Pick(s)}]
    BY <2>1, SumEquation
  <2>5. QED
    BY <2>2, <2>3, <2>4
<1>3. I \in SUBSET Nat
  OBVIOUS
<1> HIDE DEF I
<1>4. Nat \subseteq I
  BY <1>1, <1>2, <1>3, NatInd
<1>5. QED
  BY <1>0, <1>4 DEF I

\* So does the sum over any subset of it.
LEMMA SumUnfolds ==
  ASSUME NEW f, NEW S, IsFiniteSet(S), S # {}
  PROVE  /\ Pick(S) \in S
         /\ SumFunctionOnSet(f, S) = f[Pick(S)] + SumFunctionOnSet(f, S \ {Pick(S)})
<1> DEFINE T == S \ {Pick(S)}
<1>1. PICK g : /\ SumStep(f, g, S) /\ SumFunctionOnSet(f, S) = g[S]
  BY SumExists, SumIsStep
<1>2. IsFiniteSet(T) /\ T \in SUBSET S
  BY PickOut
<1>3. PICK h : SumStep(f, h, T) /\ SumFunctionOnSet(f, T) = h[T]
  BY <1>2, SumExists, SumIsStep
<1> HIDE DEF T
<1>4. g[T] = h[T]
  BY <1>1, <1>2, <1>3, SumAgrees
<1>5. g[S] = f[Pick(S)] + g[T]
  BY <1>1, SumEquation DEF T
<1>6. QED
  BY <1>1, <1>3, <1>4, <1>5, PickIn DEF T

\* Nothing adds up to zero.
LEMMA SumEmpty ==
  ASSUME NEW f PROVE SumFunctionOnSet(f, {}) = 0
<1>1. PICK g : SumStep(f, g, {}) /\ SumFunctionOnSet(f, {}) = g[{}]
  BY SumExists, SumIsStep, FS_EmptySet
<1>2. QED
  BY <1>1, SumEquation

\* Natural numbers add up to a natural number.
LEMMA SumNat ==
  ASSUME NEW f, NEW S, IsFiniteSet(S), \A x \in S : f[x] \in Nat
  PROVE  SumFunctionOnSet(f, S) \in Nat
<1> DEFINE I == {n \in Nat : \A s \in SUBSET S : Cardinality(s) = n => SumFunctionOnSet(f, s) \in Nat}
<1>0. \A s \in SUBSET S : IsFiniteSet(s) /\ Cardinality(s) \in Nat
  BY FS_Subset, FS_CardinalityType
<1>1. 0 \in I
  BY <1>0, FS_EmptySet, SumEmpty
<1>2. ASSUME NEW n \in I PROVE n + 1 \in I
  <2> SUFFICES ASSUME NEW s \in SUBSET S, Cardinality(s) = n + 1
               PROVE  SumFunctionOnSet(f, s) \in Nat
    OBVIOUS
  <2>1. s # {}
    BY FS_EmptySet
  <2>2. SumFunctionOnSet(f, s \ {Pick(s)}) \in Nat
    <3>1. Cardinality(s \ {Pick(s)}) = n
      BY <1>0, <2>1, PickOut
    <3>2. QED
      BY <3>1
  <2>3. QED
    BY <1>0, <2>1, <2>2, SumUnfolds
<1>3. I \in SUBSET Nat
  OBVIOUS
<1> HIDE DEF I
<1>4. Nat \subseteq I
  BY <1>1, <1>2, <1>3, NatInd
<1>5. QED
  BY <1>0, <1>4 DEF I

(* Any element may be taken out first. *)
LEMMA SumTake ==
  ASSUME NEW f, NEW S, IsFiniteSet(S), \A x \in S : f[x] \in Nat, NEW x \in S
  PROVE  SumFunctionOnSet(f, S) = f[x] + SumFunctionOnSet(f, S \ {x})
<1> DEFINE Takes(s) == \A y \in s : SumFunctionOnSet(f, s) = f[y] + SumFunctionOnSet(f, s \ {y})
           I == {n \in Nat : \A s \in SUBSET S : Cardinality(s) = n => Takes(s)}
<1>0. \A s \in SUBSET S : IsFiniteSet(s) /\ Cardinality(s) \in Nat /\ SumFunctionOnSet(f, s) \in Nat
  BY FS_Subset, FS_CardinalityType, SumNat
<1>1. 0 \in I
  BY <1>0, FS_EmptySet
<1>2. ASSUME NEW n \in I PROVE n + 1 \in I
  <2> SUFFICES ASSUME NEW s \in SUBSET S, Cardinality(s) = n + 1, NEW y \in s
               PROVE  SumFunctionOnSet(f, s) = f[y] + SumFunctionOnSet(f, s \ {y})
    OBVIOUS
  <2>1. PICK p \in s : SumFunctionOnSet(f, s) = f[p] + SumFunctionOnSet(f, s \ {p})
    <3>1. IsFiniteSet(s) /\ s # {}
      BY <1>0
    <3>2. Pick(s) \in s /\ SumFunctionOnSet(f, s) = f[Pick(s)] + SumFunctionOnSet(f, s \ {Pick(s)})
      BY <3>1, SumUnfolds
    <3>3. QED
      BY <3>2
  <2>2. CASE y = p
    BY <2>1, <2>2
  <2>3. CASE y # p
    <3>0. IsFiniteSet(s)
      BY <1>0
    <3>1. Takes(s \ {p}) /\ Takes(s \ {y})
      <4>1. Cardinality(s \ {p}) = n
        BY ONLY n \in Nat, Cardinality(s) = n + 1, p \in s, <3>0, FS_RemoveElement
      <4>2. Cardinality(s \ {y}) = n
        BY ONLY n \in Nat, Cardinality(s) = n + 1, y \in s, <3>0, FS_RemoveElement
      <4>3. QED
        BY <4>1, <4>2
    <3> HIDE DEF I
    <3>2. SumFunctionOnSet(f, s \ {p}) = f[y] + SumFunctionOnSet(f, (s \ {p}) \ {y})
      BY <2>3, <3>1
    <3>3. SumFunctionOnSet(f, s \ {y}) = f[p] + SumFunctionOnSet(f, (s \ {y}) \ {p})
      BY <2>1, <2>3, <3>1
    <3>4. SumFunctionOnSet(f, (s \ {p}) \ {y}) = SumFunctionOnSet(f, (s \ {y}) \ {p})
      <4>1. (s \ {p}) \ {y} = (s \ {y}) \ {p}
        OBVIOUS
      <4>2. QED
        BY <4>1, Zenon
    <3>5. f[p] \in Nat /\ f[y] \in Nat /\ SumFunctionOnSet(f, (s \ {p}) \ {y}) \in Nat
      BY <1>0, <2>1
    <3> HIDE DEF Takes
    <3>6. QED
      BY ONLY <2>1, <3>2, <3>3, <3>4, <3>5
  <2>4. QED
    BY <2>2, <2>3
<1>3. I \in SUBSET Nat
  OBVIOUS
<1>4. Nat \subseteq I
  <2> HIDE DEF I
  <2>1. QED
    BY <1>1, <1>2, <1>3, NatInd
<1>5. QED
  BY <1>0, <1>4

(* Induction over a finite set. *)
LEMMA FinInd ==
  ASSUME NEW S, IsFiniteSet(S), NEW G \in SUBSET SUBSET S, {} \in G,
         \A s \in G : \A x \in S \ s : s \cup {x} \in G
  PROVE  S \in G
<1> DEFINE I == {n \in Nat : \A s \in SUBSET S : Cardinality(s) = n => s \in G}
<1>0. \A s \in SUBSET S : IsFiniteSet(s) /\ Cardinality(s) \in Nat
  BY FS_Subset, FS_CardinalityType
<1>1. 0 \in I
  BY <1>0, FS_EmptySet
<1>2. ASSUME NEW n \in I PROVE n + 1 \in I
  <2> SUFFICES ASSUME NEW s \in SUBSET S, Cardinality(s) = n + 1 PROVE s \in G
    OBVIOUS
  <2>1. s # {}
    BY FS_EmptySet
  <2>2. Pick(s) \in s /\ s \ {Pick(s)} \in G
    <3>1. Cardinality(s \ {Pick(s)}) = n
      BY <1>0, <2>1, PickOut
    <3>2. QED
      BY <2>1, <3>1, PickIn
  <2>3. (s \ {Pick(s)}) \cup {Pick(s)} = s
    BY <2>2
  <2>4. QED
    BY <2>2, <2>3
<1>3. I \in SUBSET Nat
  OBVIOUS
<1> HIDE DEF I
<1>4. Nat \subseteq I
  BY <1>1, <1>2, <1>3, NatInd
<1>5. QED
  BY <1>0, <1>4 DEF I

\* A new element adds its own value.
LEMMA SumAdd ==
  ASSUME NEW f, NEW S, IsFiniteSet(S), NEW x, x \notin S, \A y \in S \cup {x} : f[y] \in Nat
  PROVE  SumFunctionOnSet(f, S \cup {x}) = f[x] + SumFunctionOnSet(f, S)
<1>1. IsFiniteSet(S \cup {x}) /\ (S \cup {x}) \ {x} = S
  BY FS_AddElement
<1>2. QED
  BY <1>1, SumTake

\* Functions that agree on a set have the same sum over it.
LEMMA SumSame ==
  ASSUME NEW f, NEW g, NEW S, IsFiniteSet(S), \A x \in S : f[x] \in Nat /\ f[x] = g[x]
  PROVE  SumFunctionOnSet(f, S) = SumFunctionOnSet(g, S)
<1> DEFINE G == {s \in SUBSET S : SumFunctionOnSet(f, s) = SumFunctionOnSet(g, s)}
<1>1. {} \in G
  BY SumEmpty
<1>2. ASSUME NEW s \in G, NEW x \in S \ s PROVE s \cup {x} \in G
  BY FS_Subset, SumAdd
<1>3. G \in SUBSET SUBSET S
  OBVIOUS
<1> HIDE DEF G
<1>4. S \in G
  BY <1>1, <1>2, <1>3, FinInd
<1>5. QED
  BY <1>4 DEF G

\* Fewer elements, or smaller values, do not add up to more.
LEMMA SumLess ==
  ASSUME NEW f, NEW S, IsFiniteSet(S), \A x \in S : f[x] \in Nat, NEW T \in SUBSET S
  PROVE  SumFunctionOnSet(f, T) <= SumFunctionOnSet(f, S)
<1> DEFINE G == {s \in SUBSET S : SumFunctionOnSet(f, T \cap s) <= SumFunctionOnSet(f, s)}
<1>0. \A s \in SUBSET S : IsFiniteSet(s) /\ SumFunctionOnSet(f, s) \in Nat
  BY FS_Subset, SumNat
<1>1. {} \in G
  BY SumEmpty
<1>2. ASSUME NEW s \in G, NEW x \in S \ s PROVE s \cup {x} \in G
  <2> SUFFICES SumFunctionOnSet(f, T \cap (s \cup {x})) <= SumFunctionOnSet(f, s \cup {x})
    OBVIOUS
  <2>1. SumFunctionOnSet(f, s \cup {x}) = f[x] + SumFunctionOnSet(f, s)
    BY <1>0, SumAdd
  <2>2. CASE x \in T
    <3>1. SumFunctionOnSet(f, T \cap (s \cup {x})) = SumFunctionOnSet(f, (T \cap s) \cup {x})
      <4>1. T \cap (s \cup {x}) = (T \cap s) \cup {x}
        BY <2>2
      <4>2. QED
        BY <4>1, Zenon
    <3>2. SumFunctionOnSet(f, (T \cap s) \cup {x}) = f[x] + SumFunctionOnSet(f, T \cap s)
      BY <1>0, SumAdd
    <3>3. f[x] \in Nat /\ SumFunctionOnSet(f, T \cap s) \in Nat /\ SumFunctionOnSet(f, s) \in Nat
      BY <1>0
    <3>4. SumFunctionOnSet(f, T \cap s) <= SumFunctionOnSet(f, s)
      OBVIOUS
    <3> HIDE DEF G
    <3>5. QED
      BY <2>1, <3>1, <3>2, <3>3, <3>4
  <2>3. CASE x \notin T
    <3>1. SumFunctionOnSet(f, T \cap (s \cup {x})) = SumFunctionOnSet(f, T \cap s)
      <4>1. T \cap (s \cup {x}) = T \cap s
        BY <2>3
      <4>2. QED
        BY <4>1, Zenon
    <3>2. f[x] \in Nat /\ SumFunctionOnSet(f, T \cap s) \in Nat /\ SumFunctionOnSet(f, s) \in Nat
      BY <1>0
    <3>3. SumFunctionOnSet(f, T \cap s) <= SumFunctionOnSet(f, s)
      OBVIOUS
    <3> HIDE DEF G
    <3>4. QED
      BY <2>1, <3>1, <3>2, <3>3
  <2>4. QED
    BY <2>2, <2>3
<1>3. G \in SUBSET SUBSET S
  OBVIOUS
<1> HIDE DEF G
<1>4. S \in G
  BY <1>1, <1>2, <1>3, FinInd
<1>5. T \cap S = T
  OBVIOUS
<1>6. QED
  BY <1>4, <1>5 DEF G

\* n times the same value.
LEMMA SumOfEqual ==
  ASSUME NEW f, NEW S, IsFiniteSet(S), NEW v \in Nat, \A x \in S : f[x] = v
  PROVE  SumFunctionOnSet(f, S) = Cardinality(S) * v
<1> DEFINE G == {s \in SUBSET S : SumFunctionOnSet(f, s) = Cardinality(s) * v}
<1>1. {} \in G
  BY SumEmpty, FS_EmptySet
<1>2. ASSUME NEW s \in G, NEW x \in S \ s PROVE s \cup {x} \in G
  <2>1. IsFiniteSet(s) /\ Cardinality(s) \in Nat /\ Cardinality(s \cup {x}) = Cardinality(s) + 1
    BY FS_Subset, FS_CardinalityType, FS_AddElement
  <2>2. SumFunctionOnSet(f, s \cup {x}) = v + SumFunctionOnSet(f, s)
    BY <2>1, SumAdd
  <2>3. QED
    BY <2>1, <2>2
<1>3. G \in SUBSET SUBSET S
  OBVIOUS
<1> HIDE DEF G
<1>4. S \in G
  BY <1>1, <1>2, <1>3, FinInd
<1>5. QED
  BY <1>4 DEF G

=============================================================================
