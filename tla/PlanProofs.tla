----------------------------- MODULE PlanProofs -----------------------------
(***************************************************************************)
(* Proofs about PlanOrchestration, for any plans a planner may return, any *)
(* limits and any number of turns: a step runs after what it depends on,   *)
(* no worker is started more often than the retry cycles allow, what was   *)
(* executed is not started again, a completed run has passed the plan,     *)
(* whatever graph the planner returned can be walked to its end, and the   *)
(* passes that are forecast are the passes it takes.                       *)
(*                                                                         *)
(* The first half is about the shape of a plan (what UniqueIds, Those,     *)
(* BreakCycles, RemainingWaves and Expanded leave, by induction over the   *)
(* prefixes they build on), the second about what the nodes do to it.      *)
(***************************************************************************)
EXTENDS PlanOrchestration, DataInduction, SequenceTheorems

-----------------------------------------------------------------------------
(* Sequences.                                                              *)
Injective(s) == \A i, j \in DOMAIN s : s[i] = s[j] => i = j

\* A child's name determines its parent and its item.
LEMMA ChildNames ==
  ASSUME NEW p \in PlannedNames, NEW i \in Nat \ {0}
  PROVE  /\ ChildOf(p, i) \in Seq(Int) \ PlannedNames /\ ChildOf(p, i) # NoName
         /\ Last(ChildOf(p, i)) = -i
         /\ \A q \in PlannedNames, j \in Nat \ {0} : ChildOf(p, i) = ChildOf(q, j) => p = q /\ i = j
<1>1. p \in Seq(Int)
  BY SeqMonotonic DEF PlannedNames
<1> DEFINE c == ChildOf(p, i)
<1>2. c \in Seq(Int) /\ c # <<>> /\ Len(c) = Len(p) + 1 /\ c[Len(p) + 1] = -i /\ Len(p) \in Nat
  BY <1>1, AppendProperties, LenProperties DEF ChildOf
<1> HIDE DEF c
<1>3. c \notin PlannedNames
  <2>1. SUFFICES ASSUME c \in Seq(Nat) PROVE FALSE
    BY DEF PlannedNames
  <2>2. Len(c) \in 1 .. Len(c)
    BY <1>2
  <2>3. c[Len(c)] \in Nat
    BY <2>1, <2>2, ElementOfSeq
  <2>4. QED
    BY <1>2, <2>3
<1>4. Last(c) = -i /\ c # NoName
  BY <1>2 DEF Last, NoName
<1>5. ASSUME NEW q \in PlannedNames, NEW j \in Nat \ {0}, c = ChildOf(q, j) PROVE p = q /\ i = j
  <2>1. q \in Seq(Int)
    BY SeqMonotonic DEF PlannedNames
  <2>2. Append(p, -i) = Append(q, -j)
    BY <1>5 DEF c, ChildOf
  <2>3. p = q /\ -i = -j
    BY <1>1, <2>1, <2>2, AppendInjective
  <2>4. QED
    BY <2>3
<1>6. QED
  BY <1>2, <1>3, <1>4, <1>5 DEF c

\* The cut of a sequence at an element, with others put in behind it.
Spliced(o, new, at) == SubSeq(o, 1, at) \o new \o SubSeq(o, at + 1, Len(o))
Holds(r, S, o, new, at) ==
  /\ r \in Seq(S) /\ Len(r) = Len(o) + Len(new)
  /\ \A i \in 1 .. at : r[i] = o[i]
  /\ \A i \in 1 .. Len(new) : r[at + i] = new[i]
  /\ \A i \in at + 1 .. Len(o) : r[Len(new) + i] = o[i]
\* What such a sequence holds, and where.
LEMMA Inserted ==
  ASSUME NEW S, NEW o \in Seq(S), NEW new \in Seq(S), NEW at \in 1 .. Len(o)
  PROVE  Holds(Spliced(o, new, at), S, o, new, at)
<1> DEFINE a == SubSeq(o, 1, at)  b == SubSeq(o, at + 1, Len(o))  r == Spliced(o, new, at)
<1>0. at \in Nat /\ Len(o) \in Nat /\ Len(new) \in Nat /\ at <= Len(o) /\ at + 1 \in Int /\ 1 \in Int
  BY LenProperties
<1>1. a \in Seq(S) /\ Len(a) = at /\ \A i \in 1 .. at : a[i] = o[i]
  <2>1. \A i \in 1 .. at : o[i] \in S
    BY <1>0, ElementOfSeq
  <2>2. /\ a \in Seq(S) /\ Len(a) = (IF 1 <= at THEN at - 1 + 1 ELSE 0)
        /\ \A i \in 1 .. at - 1 + 1 : a[i] = o[1 + i - 1]
    BY <1>0, <2>1, SubSeqProperties
  <2> HIDE DEF a
  <2>3. QED
    BY <1>0, <2>2
<1>2. b \in Seq(S) /\ Len(b) = Len(o) - at /\ \A i \in 1 .. Len(o) - at : b[i] = o[at + i]
  <2>1. \A i \in at + 1 .. Len(o) : o[i] \in S
    BY <1>0, ElementOfSeq
  <2>2. /\ b \in Seq(S) /\ Len(b) = (IF at + 1 <= Len(o) THEN Len(o) - (at + 1) + 1 ELSE 0)
        /\ \A i \in 1 .. Len(o) - (at + 1) + 1 : b[i] = o[at + 1 + i - 1]
    BY <1>0, <2>1, SubSeqProperties
  <2> HIDE DEF b
  <2>3. QED
    BY <1>0, <2>2
<1>3. r = (a \o new) \o b
  BY DEF Spliced
<1> HIDE DEF a, b, r
<1> DEFINE c == a \o new
<1>4. /\ c \in Seq(S) /\ Len(c) = at + Len(new)
      /\ \A i \in 1 .. at + Len(new) : c[i] = IF i <= at THEN a[i] ELSE new[i - at]
  BY <1>1, ConcatProperties
<1> HIDE DEF c
<1>5. /\ r \in Seq(S) /\ Len(r) = Len(c) + Len(b)
      /\ \A i \in 1 .. Len(c) + Len(b) : r[i] = IF i <= Len(c) THEN c[i] ELSE b[i - Len(c)]
  <2>1. r = c \o b
    BY <1>3 DEF c
  <2>2. QED
    <3>1. c \in Seq(S) /\ b \in Seq(S)
      BY <1>2, <1>4
    <3>2. /\ c \o b \in Seq(S) /\ Len(c \o b) = Len(c) + Len(b)
          /\ \A i \in 1 .. Len(c) + Len(b) : (c \o b)[i] = IF i <= Len(c) THEN c[i] ELSE b[i - Len(c)]
      BY <3>1, ConcatProperties
    <3>3. QED
      BY <2>1, <3>2, Zenon
<1>5a. Len(c) = at + Len(new) /\ Len(b) = Len(o) - at /\ Len(a) = at
  BY <1>1, <1>2, <1>4, Zenon
<1>6. ASSUME NEW i \in 1 .. at PROVE r[i] = o[i]
  <2>1. i \in 1 .. Len(c) + Len(b) /\ i <= Len(c) /\ i \in 1 .. at + Len(new) /\ i <= at
    BY <1>0, <1>5a
  <2>2. r[i] = c[i] /\ c[i] = a[i]
    BY <1>4, <1>5, <2>1, Zenon
  <2>3. QED
    BY <1>1, <2>2
<1>7. ASSUME NEW i \in 1 .. Len(new) PROVE r[at + i] = new[i]
  <2>1. at + i \in 1 .. Len(c) + Len(b) /\ at + i <= Len(c) /\ ~(at + i <= at) /\ at + i - at = i
    BY <1>0, <1>5a
  <2>2. QED
    BY <1>0, <1>4, <1>5, <2>1
<1>8. ASSUME NEW i \in at + 1 .. Len(o) PROVE r[Len(new) + i] = o[i]
  <2>1. /\ Len(new) + i \in 1 .. Len(c) + Len(b) /\ ~(Len(new) + i <= Len(c))
        /\ Len(new) + i - Len(c) = i - at /\ i - at \in 1 .. Len(o) - at /\ at + (i - at) = i
    BY <1>0, <1>5a
  <2> DEFINE k == Len(new) + i
  <2>2. k \in 1 .. Len(c) + Len(b) /\ ~(k <= Len(c)) /\ k - Len(c) = i - at
    BY <2>1
  <2> HIDE DEF k
  <2>3. r[k] = b[i - at]
    BY <1>5, <2>2
  <2>4. QED
    BY <1>2, <2>1, <2>3 DEF k
<1>9. r \in Seq(S) /\ Len(r) = Len(c) + Len(b)
  BY <1>5, Zenon
<1>10. Len(r) = Len(o) + Len(new)
  <2>1. Len(c) = at + Len(new) /\ Len(b) = Len(o) - at /\ Len(r) = Len(c) + Len(b)
    BY <1>2, <1>4, <1>9, Zenon
  <2>2. QED
    BY <1>0, <2>1
<1>11. Holds(r, S, o, new, at)
  BY <1>6, <1>7, <1>8, <1>9, <1>10 DEF Holds
<1>12. QED
  BY <1>11 DEF r

-----------------------------------------------------------------------------
(* Lists: sequences of the elements of a set, each of them once.           *)
Lists(s, S) == s \in Seq(S) /\ Injective(s) /\ ToSet(s) = S

\* A list is as long as its set is large.
LEMMA ListCounts ==
  ASSUME NEW s, NEW S, Lists(s, S)
  PROVE  IsFiniteSet(S) /\ Cardinality(S) = Len(s)
<1>1. s \in [1 .. Len(s) -> S] /\ DOMAIN s = 1 .. Len(s) /\ Len(s) \in Nat
  BY LenProperties DEF Lists
<1>2. s \in Bijection(1 .. Len(s), S)
  BY <1>1 DEF Lists, Injective, ToSet, Bijection, Injection, Surjection, IsInjective
<1>3. IsFiniteSet(1 .. Len(s)) /\ Cardinality(1 .. Len(s)) = Len(s)
  <2>1. PICK n \in Nat : n = Len(s)
    BY <1>1
  <2>2. IsFiniteSet(1 .. n) /\ Cardinality(1 .. n) = n
    BY FS_Interval
  <2>3. QED
    BY <2>1, <2>2
<1>4. ExistsBijection(1 .. Len(s), S)
  BY <1>2 DEF ExistsBijection
<1>5. QED
  BY <1>3, <1>4, FS_Bijection

\* A list that is put into another one.
LEMMA SplicedLists ==
  ASSUME NEW S, NEW o, Lists(o, S), NEW T, NEW new, Lists(new, T), S \cap T = {},
         NEW at \in 1 .. Len(o)
  PROVE  Lists(Spliced(o, new, at), S \cup T)
<1> DEFINE r == Spliced(o, new, at)  U == S \cup T
<1>1. o \in Seq(U) /\ new \in Seq(U)
  BY SeqMonotonic DEF Lists
<1>2. /\ r \in Seq(U) /\ Len(r) = Len(o) + Len(new)
      /\ \A i \in 1 .. at : r[i] = o[i]
      /\ \A i \in 1 .. Len(new) : r[at + i] = new[i]
      /\ \A i \in at + 1 .. Len(o) : r[Len(new) + i] = o[i]
  <2>1. \A W : o \in Seq(W) /\ new \in Seq(W) => Holds(Spliced(o, new, at), W, o, new, at)
    BY Inserted
  <2>2. QED
    BY <1>1, <2>1 DEF Holds
<1>3. PICK m \in Nat, n \in Nat : m = Len(o) /\ n = Len(new) /\ at \in 1 .. m
  BY <1>1, LenProperties
<1>4. /\ DOMAIN o = 1 .. m /\ DOMAIN new = 1 .. n /\ DOMAIN r = 1 .. m + n
      /\ o \in [1 .. m -> S] /\ new \in [1 .. n -> T]
  BY <1>2, <1>3, LenProperties DEF Lists
<1> HIDE DEF r, U
<1>5. ASSUME NEW k \in 1 .. m + n
      PROVE  \/ k <= at /\ k \in 1 .. m /\ r[k] = o[k]
             \/ k > at /\ k <= at + n /\ k - at \in 1 .. n /\ r[k] = new[k - at]
             \/ k > at + n /\ k - n \in 1 .. m /\ r[k] = o[k - n]
  <2>1. CASE k <= at
    BY <1>2, <1>3, <2>1
  <2>2. CASE k > at /\ k <= at + n
    <3>1. k - at \in 1 .. n /\ at + (k - at) = k
      BY <1>3, <2>2
    <3>2. QED
      BY <1>2, <1>3, <2>2, <3>1
  <2>3. CASE k > at + n
    <3>1. k - n \in at + 1 .. m /\ n + (k - n) = k
      BY <1>3, <2>3
    <3>2. QED
      BY <1>2, <1>3, <2>3, <3>1
  <2>4. QED
    BY <1>3, <2>1, <2>2, <2>3
<1>6. \A i, j \in 1 .. m : o[i] = o[j] => i = j
  BY <1>4 DEF Lists, Injective
<1>7. \A i, j \in 1 .. n : new[i] = new[j] => i = j
  BY <1>4 DEF Lists, Injective
<1>8. \A i \in 1 .. m, j \in 1 .. n : o[i] # new[j]
  BY <1>4
<1>9. Injective(r)
  <2>1. SUFFICES ASSUME NEW i \in 1 .. m + n, NEW j \in 1 .. m + n, r[i] = r[j] PROVE i = j
    BY <1>4 DEF Injective
  <2> DEFINE Before(k) == k <= at /\ k \in 1 .. m /\ r[k] = o[k]
             Within(k) == k > at /\ k <= at + n /\ k - at \in 1 .. n /\ r[k] = new[k - at]
             After(k) == k > at + n /\ k - n \in 1 .. m /\ r[k] = o[k - n]
  <2>2. (Before(i) \/ Within(i) \/ After(i)) /\ (Before(j) \/ Within(j) \/ After(j))
    BY <1>5
  <2>3. i \in Int /\ j \in Int /\ at \in Int
    BY <1>3
  <2>4. Before(i) /\ Before(j) => i = j
    BY <1>3, <1>6, <2>1, <2>3
  <2>5. ~(Before(i) /\ Within(j))
    BY <1>8, <2>1
  <2>6. ~(Before(i) /\ After(j))
    BY <1>3, <1>6, <2>1, <2>3
  <2>7. ~(Within(i) /\ Before(j))
    BY <1>8, <2>1
  <2>8. ASSUME Within(i), Within(j) PROVE i = j
    <3>1. new[i - at] = new[j - at]
      BY <2>1, <2>8, Zenon
    <3>2. i - at = j - at
      BY <1>7, <2>8, <3>1, Zenon
    <3>3. QED
      BY <2>3, <3>2
  <2>9. ~(Within(i) /\ After(j))
    BY <1>8, <2>1
  <2>10. ~(After(i) /\ Before(j))
    BY <1>3, <1>6, <2>1, <2>3
  <2>11. ~(After(i) /\ Within(j))
    BY <1>8, <2>1
  <2>12. ASSUME After(i), After(j) PROVE i = j
    <3>1. o[i - n] = o[j - n]
      BY <2>1, <2>12, Zenon
    <3>2. i - n = j - n
      BY <1>6, <2>12, <3>1, Zenon
    <3>3. QED
      BY <2>3, <3>2
  <2>13. QED
    BY <2>2, <2>4, <2>5, <2>6, <2>7, <2>8, <2>9, <2>10, <2>11, <2>12, Zenon
<1>10. ASSUME NEW x \in S PROVE \E k \in 1 .. m + n : r[k] = x
  <2>1. PICK i \in 1 .. m : o[i] = x
    BY <1>4 DEF Lists, ToSet
  <2>2. CASE i <= at
    BY <1>2, <1>3, <2>1, <2>2
  <2>3. CASE i > at
    <3>1. n + i \in 1 .. m + n /\ i \in at + 1 .. m
      BY <1>3, <2>3
    <3>2. QED
      BY <1>2, <1>3, <2>1, <3>1
  <2>4. QED
    BY <1>3, <2>2, <2>3
<1>11. ASSUME NEW x \in T PROVE \E k \in 1 .. m + n : r[k] = x
  <2>1. PICK i \in 1 .. n : new[i] = x
    BY <1>4 DEF Lists, ToSet
  <2>2. at + i \in 1 .. m + n
    BY <1>3
  <2>3. QED
    BY <1>2, <1>3, <2>1, <2>2
<1>12. \A k \in 1 .. m + n : r[k] \in U
  BY <1>4, <1>5 DEF U
<1>13. ToSet(r) = U
  <2>1. ToSet(r) = {r[k] : k \in 1 .. m + n}
    BY <1>4, Zenon DEF ToSet
  <2>2. QED
    BY <2>1, <1>10, <1>11, <1>12 DEF U
<1>14. QED
  BY <1>2, <1>9, <1>13 DEF Lists, r, U

\* A new element at the end of a list.
LEMMA ListGrows ==
  ASSUME NEW s, NEW S, Lists(s, S), NEW e, e \notin S
  PROVE  Lists(Append(s, e), S \cup {e}) /\ Len(Append(s, e)) = Len(s) + 1
<1> DEFINE r == Append(s, e)  U == S \cup {e}
<1>1. s \in Seq(U)
  BY SeqMonotonic DEF Lists
<1>2. PICK n \in Nat : n = Len(s)
  BY <1>1, LenProperties
<1>3. /\ r \in Seq(U) /\ Len(r) = n + 1 /\ \A i \in 1 .. n : r[i] = s[i]
      /\ r[n + 1] = e /\ DOMAIN r = 1 .. n + 1
  BY <1>1, <1>2, AppendProperties, LenProperties
<1>4. DOMAIN s = 1 .. n /\ \A i \in 1 .. n : s[i] \in S
  BY <1>2, LenProperties DEF Lists
<1> HIDE DEF r, U
<1>5. Injective(r)
  BY <1>3, <1>4 DEF Injective, Lists
<1>6. ToSet(r) = U
  <2>1. ToSet(r) = {r[i] : i \in 1 .. n + 1} /\ S = {s[i] : i \in 1 .. n}
    BY <1>3, <1>4 DEF ToSet, Lists
  <2>2. QED
    BY <1>2, <1>3, <2>1 DEF U
<1>7. QED
  BY <1>2, <1>3, <1>5, <1>6 DEF Lists, r, U

\* The first numbers are a list.
LEMMA NumbersList == ASSUME NEW n \in Nat PROVE Lists([i \in 1 .. n |-> i], 1 .. n)
<1> DEFINE a == [i \in 1 .. n |-> i]
<1>1. a \in Seq(1 .. n) /\ DOMAIN a = 1 .. n /\ \A i \in 1 .. n : a[i] = i
  OBVIOUS
<1> HIDE DEF a
<1>2. QED
  BY <1>1 DEF Lists, Injective, ToSet, a

\* What the first elements of a list are.
LEMMA FirstsIs ==
  ASSUME NEW s, NEW S, Lists(s, S), NEW w \in Nat
  PROVE  /\ ToSet(Firsts(s, w)) \subseteq S
         /\ Cardinality(S) <= w => ToSet(Firsts(s, w)) = S
         /\ w <= Cardinality(S) => Cardinality(ToSet(Firsts(s, w))) = w
<1>1. PICK m \in Nat : m = Len(s) /\ DOMAIN s = 1 .. m /\ Cardinality(S) = m
  BY LenProperties, ListCounts DEF Lists
<1>2. \A i \in 1 .. m : s[i] \in S
  BY <1>1 DEF Lists, ToSet
<1> DEFINE k == IF m < w THEN m ELSE w
           b == SubSeq(s, 1, k)
<1>3. k \in Nat /\ k <= m
  OBVIOUS
<1>4. b \in Seq(S) /\ DOMAIN b = 1 .. k /\ Len(b) = k /\ \A i \in 1 .. k : b[i] = s[i]
  <2>1. \A i \in 1 .. k : s[i] \in S
    BY <1>2, <1>3
  <2>2. /\ b \in Seq(S) /\ Len(b) = (IF 1 <= k THEN k - 1 + 1 ELSE 0)
        /\ \A i \in 1 .. k - 1 + 1 : b[i] = s[1 + i - 1]
    BY <1>3, <2>1, SubSeqProperties DEF Lists
  <2> HIDE DEF b, k
  <2>3. Len(b) = k
    BY <1>3, <2>2
  <2>4. QED
    BY <1>3, <2>2, <2>3, LenProperties
<1>5. Firsts(s, w) = b
  BY <1>1 DEF Firsts
<1> DEFINE B == ToSet(b)
<1>6. B = {s[i] : i \in 1 .. k}
  <2>1. B = {b[i] : i \in 1 .. k}
    BY <1>4 DEF ToSet
  <2> HIDE DEF b, k, B
  <2>2. QED
    BY <1>4, <2>1
<1>7. B \subseteq S
  BY <1>2, <1>3, <1>6
<1>8. Cardinality(B) = k
  <2> HIDE DEF k
  <2>1. Lists(b, B)
    <3>1. b \in Seq(B)
      BY <1>4, LenProperties DEF ToSet
    <3>2. Injective(b)
      BY <1>1, <1>3, <1>4 DEF Injective, Lists
    <3>3. QED
      BY <3>1, <3>2 DEF Lists
  <2> HIDE DEF b, B
  <2>2. QED
    BY <1>4, <2>1, ListCounts
<1>9. m <= w => B = S
  <2>1. S = {s[i] : i \in 1 .. m}
    BY <1>1 DEF Lists, ToSet
  <2>2. QED
    BY <1>6, <2>1
<1> HIDE DEF b, B
<1>10. QED
  BY <1>1, <1>5, <1>7, <1>8, <1>9 DEF B

NextOf(g, s, T, i) ==
  IF i = 0 THEN <<>> ELSE IF s[i] \in T THEN Append(g[i - 1], s[i]) ELSE g[i - 1]
UpTo(g, s, T, n) == g = [i \in 0 .. n |-> NextOf(g, s, T, i)]

\* What Those unfolds to.
LEMMA ThoseUnfolds == ASSUME NEW s, NEW T PROVE Those(s, T) = (CHOOSE g : UpTo(g, s, T, Len(s)))[Len(s)]
  BY DEF Those, UpTo, NextOf

\* Its prefixes exist.
LEMMA UpToExists == ASSUME NEW s, NEW T, NEW m \in Nat PROVE \E g : UpTo(g, s, T, m)
<1> DEFINE P(n) == \E g : UpTo(g, s, T, n)
           I == {n \in Nat : P(n)}
<1>1. 0 \in I
  <2> DEFINE g == [i \in 0 .. 0 |-> <<>>]
  <2>1. UpTo(g, s, T, 0)
    BY DEF UpTo, NextOf
  <2> HIDE DEF g
  <2>2. QED
    BY <2>1
<1>2. ASSUME NEW n \in I PROVE n + 1 \in I
  <2>1. PICK g : g = [i \in 0 .. n |-> NextOf(g, s, T, i)]
    BY DEF UpTo
  <2> DEFINE h == [i \in 0 .. n + 1 |-> NextOf(g, s, T, i)]
  <2>2. ASSUME NEW i \in 0 .. n + 1 PROVE NextOf(g, s, T, i) = NextOf(h, s, T, i)
    <3>1. CASE i = 0
      BY <3>1 DEF NextOf
    <3>2. CASE i # 0
      <4>1. i - 1 \in 0 .. n /\ i - 1 \in 0 .. n + 1
        BY <3>2
      <4>2. h[i - 1] = g[i - 1]
        BY <2>1, <4>1, Zenon
      <4> HIDE DEF h
      <4>3. QED
        BY <3>2, <4>2 DEF NextOf
    <3>3. QED
      BY <3>1, <3>2
  <2>3. h = [i \in 0 .. n + 1 |-> NextOf(h, s, T, i)]
    BY <2>2, Zenon
  <2> HIDE DEF h
  <2>4. P(n + 1)
    BY <2>3 DEF UpTo
  <2>5. QED
    BY <2>4
<1> HIDE DEF P
<1>3. I \in SUBSET Nat
  OBVIOUS
<1>4. Nat \subseteq I
  <2> HIDE DEF I
  <2>1. QED
    BY <1>1, <1>2, <1>3, NatInd
<1>5. QED
  BY <1>4 DEF P

\* The elements of a list that are in a set are a list of them.
LEMMA ThoseLists ==
  ASSUME NEW s, NEW S, Lists(s, S), NEW T
  PROVE  Lists(Those(s, T), S \cap T)
<1>1. PICK m \in Nat : m = Len(s) /\ DOMAIN s = 1 .. m
  BY LenProperties DEF Lists
<1> DEFINE c == CHOOSE g : UpTo(g, s, T, m)
           First(n) == {s[j] : j \in 1 .. n}
<1>2. UpTo(c, s, T, m)
  BY UpToExists
<1> HIDE DEF c
<1>3. \A n \in 0 .. m : c[n] = NextOf(c, s, T, n)
  BY <1>2 DEF UpTo
<1> DEFINE I == {n \in Nat : n <= m => Lists(c[n], First(n) \cap T)}
<1>4. 0 \in I
  <2>1. c[0] = <<>> /\ First(0) \cap T = {}
    BY <1>3 DEF NextOf
  <2>2. Lists(<<>>, {})
    BY DEF Lists, Injective, ToSet
  <2>3. QED
    BY <2>1, <2>2
<1>5. ASSUME NEW n \in I PROVE n + 1 \in I
  <2>1. SUFFICES ASSUME n + 1 <= m PROVE Lists(c[n + 1], First(n + 1) \cap T)
    OBVIOUS
  <2>2. Lists(c[n], First(n) \cap T) /\ n + 1 \in 1 .. m
    BY <2>1
  <2>3. c[n + 1] = IF s[n + 1] \in T THEN Append(c[n], s[n + 1]) ELSE c[n]
    <3>1. n + 1 \in 0 .. m /\ n + 1 # 0 /\ n + 1 - 1 = n
      BY <2>2
    <3>2. QED
      BY <1>3, <3>1 DEF NextOf
  <2>4. First(n + 1) = First(n) \cup {s[n + 1]}
    BY <2>2
  <2>5. s[n + 1] \notin First(n)
    BY <1>1, <2>2 DEF Lists, Injective
  <2> HIDE DEF First
  <2>6. CASE s[n + 1] \in T
    <3>1. First(n + 1) \cap T = (First(n) \cap T) \cup {s[n + 1]}
      BY <2>4, <2>6
    <3>2. s[n + 1] \notin First(n) \cap T
      BY <2>5
    <3>3. Lists(Append(c[n], s[n + 1]), (First(n) \cap T) \cup {s[n + 1]})
      BY <2>2, <3>2, ListGrows
    <3>4. QED
      BY <2>3, <2>6, <3>1, <3>3, Zenon
  <2>7. CASE s[n + 1] \notin T
    <3>1. First(n + 1) \cap T = First(n) \cap T
      BY <2>4, <2>7
    <3>2. QED
      BY <2>2, <2>3, <2>7, <3>1, Zenon
  <2>8. QED
    BY <2>6, <2>7
<1>6. m \in I
  <2>1. I \in SUBSET Nat
    OBVIOUS
  <2> HIDE DEF I
  <2>2. Nat \subseteq I
    BY <1>4, <1>5, <2>1, NatInd
  <2>3. QED
    BY <2>2
<1>7. Lists(c[m], First(m) \cap T)
  BY <1>6
<1>8. First(m) = S
  BY <1>1 DEF Lists, ToSet
<1>9. Those(s, T) = c[m]
  BY <1>1, ThoseUnfolds DEF c
<1>10. QED
  BY <1>7, <1>8, <1>9, Zenon

\* The prefixes Those builds, and what it returns.
LEMMA ThoseIs ==
  ASSUME NEW s, NEW T, NEW m \in Nat, m = Len(s)
  PROVE  \E g : UpTo(g, s, T, m) /\ Those(s, T) = g[m]
<1> DEFINE c == CHOOSE g : UpTo(g, s, T, m)
<1>1. UpTo(c, s, T, m)
  BY UpToExists
<1>2. Those(s, T) = c[m]
  BY ThoseUnfolds
<1> HIDE DEF c
<1>3. QED
  BY <1>1, <1>2

\* Where two sequences agree, and the sets on what they hold, so do the prefixes.
LEMMA UpToAgree ==
  ASSUME NEW g, NEW s, NEW T, NEW m \in Nat, UpTo(g, s, T, m),
         NEW h, NEW r, NEW U, NEW n \in Nat, UpTo(h, r, U, n), m <= n,
         \A i \in 1 .. m : s[i] = r[i] /\ (s[i] \in T) = (r[i] \in U)
  PROVE  \A i \in 0 .. m : g[i] = h[i]
<1> DEFINE I == {i \in Nat : i <= m => g[i] = h[i]}
<1>1. (\A i \in 0 .. m : g[i] = NextOf(g, s, T, i)) /\ \A i \in 0 .. n : h[i] = NextOf(h, r, U, i)
  BY DEF UpTo
<1>2. 0 \in I
  <2>1. 0 \in 0 .. m /\ 0 \in 0 .. n
    OBVIOUS
  <2>2. g[0] = <<>> /\ h[0] = <<>>
    BY <1>1, <2>1 DEF NextOf
  <2>3. QED
    BY <2>2
<1>3. ASSUME NEW i \in I PROVE i + 1 \in I
  <2>1. SUFFICES ASSUME i + 1 <= m PROVE g[i + 1] = h[i + 1]
    OBVIOUS
  <2>2. i + 1 \in 1 .. m /\ i + 1 \in 0 .. m /\ i + 1 \in 0 .. n /\ i + 1 # 0 /\ i + 1 - 1 = i
    BY <2>1
  <2>3. g[i] = h[i]
    BY <2>1
  <2>4. /\ g[i + 1] = IF s[i + 1] \in T THEN Append(g[i], s[i + 1]) ELSE g[i]
        /\ h[i + 1] = IF r[i + 1] \in U THEN Append(h[i], r[i + 1]) ELSE h[i]
    BY <1>1, <2>2 DEF NextOf
  <2>5. s[i + 1] = r[i + 1] /\ (s[i + 1] \in T) = (r[i + 1] \in U)
    BY <2>2
  <2>6. QED
    BY <2>3, <2>4, <2>5
<1>4. Nat \subseteq I
  <2>1. I \in SUBSET Nat
    OBVIOUS
  <2> HIDE DEF I
  <2>2. QED
    BY <1>2, <1>3, <2>1, NatInd
<1>5. QED
  BY <1>4

\* Only what a sequence holds of a set counts.
LEMMA ThoseSame ==
  ASSUME NEW S, NEW s \in Seq(S), NEW T, NEW U, S \cap T = S \cap U
  PROVE  Those(s, T) = Those(s, U)
<1>1. PICK m \in Nat : m = Len(s) /\ \A i \in 1 .. m : s[i] \in S
  BY LenProperties
<1>2. PICK g : UpTo(g, s, T, m) /\ Those(s, T) = g[m]
  BY <1>1, ThoseIs
<1>3. PICK h : UpTo(h, s, U, m) /\ Those(s, U) = h[m]
  BY <1>1, ThoseIs
<1>4. \A i \in 1 .. m : s[i] = s[i] /\ (s[i] \in T) = (s[i] \in U)
  BY <1>1
<1>5. \A i \in 0 .. m : g[i] = h[i]
  BY <1>2, <1>3, <1>4, UpToAgree
<1>6. QED
  BY <1>2, <1>3, <1>5

\* One more element.
LEMMA ThoseAppend ==
  ASSUME NEW S, NEW s \in Seq(S), NEW e \in S, NEW T
  PROVE  Those(Append(s, e), T) = IF e \in T THEN Append(Those(s, T), e) ELSE Those(s, T)
<1> DEFINE r == Append(s, e)
<1>1. PICK m \in Nat : m = Len(s) /\ Len(r) = m + 1 /\ r[m + 1] = e /\ \A i \in 1 .. m : s[i] = r[i]
  BY AppendProperties, LenProperties
<1> HIDE DEF r
<1>2. PICK g : UpTo(g, s, T, m) /\ Those(s, T) = g[m]
  BY <1>1, ThoseIs
<1>3. PICK h : UpTo(h, r, T, m + 1) /\ Those(r, T) = h[m + 1]
  BY <1>1, ThoseIs
<1>4. \A i \in 0 .. m : g[i] = h[i]
  BY <1>1, <1>2, <1>3, UpToAgree
<1>5. h[m + 1] = IF e \in T THEN Append(h[m], e) ELSE h[m]
  <2>1. m + 1 \in 0 .. m + 1 /\ m + 1 # 0 /\ m + 1 - 1 = m
    OBVIOUS
  <2>2. h[m + 1] = NextOf(h, r, T, m + 1)
    BY <1>3, <2>1 DEF UpTo
  <2>3. QED
    BY <1>1, <2>1, <2>2 DEF NextOf
<1>6. h[m] = Those(s, T)
  BY <1>2, <1>4
<1>7. QED
  BY <1>3, <1>5, <1>6 DEF r

\* Taking twice is taking what is in both sets.
LEMMA ThoseThose ==
  ASSUME NEW S, NEW s \in Seq(S), NEW T, NEW U
  PROVE  Those(Those(s, T), U) = Those(s, T \cap U)
<1>1. PICK m \in Nat : m = Len(s) /\ \A i \in 1 .. m : s[i] \in S
  BY LenProperties
<1>2. PICK g : UpTo(g, s, T, m) /\ Those(s, T) = g[m]
  BY <1>1, ThoseIs
<1>3. PICK h : UpTo(h, s, T \cap U, m) /\ Those(s, T \cap U) = h[m]
  BY <1>1, ThoseIs
<1> DEFINE I == {i \in Nat : i <= m => g[i] \in Seq(S) /\ Those(g[i], U) = h[i]}
<1>4. 0 \in I
  <2>1. 0 \in 0 .. m
    OBVIOUS
  <2>2. g[0] = <<>> /\ h[0] = <<>>
    BY <1>2, <1>3, <2>1 DEF UpTo, NextOf
  <2>3. Those(<<>>, U) = <<>>
    <3>1. PICK k : UpTo(k, <<>>, U, 0) /\ Those(<<>>, U) = k[0]
      BY ThoseIs
    <3>2. QED
      BY <3>1 DEF UpTo, NextOf
  <2>4. g[0] \in Seq(S) /\ Those(g[0], U) = h[0]
    BY <2>2, <2>3, EmptySeq
  <2>5. QED
    BY <2>4
<1>5. ASSUME NEW i \in I PROVE i + 1 \in I
  <2>1. SUFFICES ASSUME i + 1 <= m PROVE g[i + 1] \in Seq(S) /\ Those(g[i + 1], U) = h[i + 1]
    OBVIOUS
  <2>2. i + 1 \in 1 .. m /\ i + 1 \in 0 .. m /\ i + 1 # 0 /\ i + 1 - 1 = i
    BY <2>1
  <2> DEFINE e == s[i + 1]
  <2>3. g[i] \in Seq(S) /\ Those(g[i], U) = h[i] /\ e \in S
    BY <1>1, <2>1, <2>2
  <2>4. /\ g[i + 1] = IF e \in T THEN Append(g[i], e) ELSE g[i]
        /\ h[i + 1] = IF e \in T \cap U THEN Append(h[i], e) ELSE h[i]
    <3>1. g[i + 1] = NextOf(g, s, T, i + 1) /\ h[i + 1] = NextOf(h, s, T \cap U, i + 1)
      BY <1>2, <1>3, <2>2 DEF UpTo
    <3>2. QED
      BY <2>2, <3>1 DEF NextOf
  <2> HIDE DEF e
  <2>5. Those(Append(g[i], e), U) = IF e \in U THEN Append(h[i], e) ELSE h[i]
    BY <2>3, ThoseAppend
  <2>6. Append(g[i], e) \in Seq(S)
    BY <2>3, AppendProperties
  <2>7. CASE e \in T
    BY <2>3, <2>4, <2>5, <2>6, <2>7
  <2>8. CASE e \notin T
    BY <2>3, <2>4, <2>8
  <2>9. QED
    BY <2>7, <2>8
<1>6. Nat \subseteq I
  <2>1. I \in SUBSET Nat
    OBVIOUS
  <2> HIDE DEF I
  <2>2. QED
    BY <1>4, <1>5, <2>1, NatInd
<1>7. QED
  BY <1>2, <1>3, <1>6

-----------------------------------------------------------------------------
(* _unique_ids.                                                            *)
GivenNames == PlannedNames \ {NoName}

\* A name that is taken gets a suffix that makes it new.
LEMMA FreshIsNew ==
  ASSUME NEW c \in GivenNames, NEW seen, IsFiniteSet(seen)
  PROVE  Fresh(c, seen) \in GivenNames \ seen
<1>1. CASE c \notin seen
  BY <1>1 DEF Fresh
<1>2. CASE c \in seen
  <2>1. PICK m \in Nat : m = Cardinality(seen)
    BY FS_CardinalityType
  <2> DEFINE K == {k \in 2 .. m + 2 : Append(c, k) \notin seen}
  <2>2. c \in Seq(Nat)
    BY DEF GivenNames, PlannedNames
  <2>3. K # {}
    <3>1. SUFFICES ASSUME \A k \in 2 .. m + 2 : Append(c, k) \in seen PROVE FALSE
      OBVIOUS
    <3> DEFINE D == 2 .. m + 2
               f == [k \in D |-> Append(c, k)]
    <3>2. f \in [D -> seen]
      BY <3>1
    <3>3. IsFiniteSet(D) /\ Cardinality(D) = m + 1
      BY FS_Interval
    <3> HIDE DEF D, f
    <3>4. Cardinality(seen) < Cardinality(D)
      BY <2>1, <3>3
    <3>5. PICK x, y \in D : x # y /\ f[x] = f[y]
      BY <3>2, <3>3, <3>4, FS_PigeonHole
    <3>6. x \in Nat /\ y \in Nat /\ Append(c, x) = Append(c, y)
      BY <3>5 DEF D, f
    <3>7. QED
      BY <2>2, <3>5, <3>6, AppendInjective
  <2>4. PICK k \in K : \A j \in K : k <= j
    <3>1. K \in SUBSET Nat
      OBVIOUS
    <3>2. QED
      BY <2>3, <3>1, LeastNat
  <2>5. \A j \in 2 .. (k - 1) : Append(c, j) \in seen
    BY <2>4
  <2> DEFINE First(n) == /\ Append(c, n) \notin seen
                         /\ \A j \in 2 .. (n - 1) : Append(c, j) \in seen
             z == CHOOSE n \in 2 .. (Cardinality(seen) + 2) : First(n)
  <2>6. k \in 2 .. (Cardinality(seen) + 2) /\ First(k)
    BY <2>1, <2>4, <2>5
  <2> HIDE DEF First
  <2>7. z \in 2 .. (Cardinality(seen) + 2) /\ First(z)
    BY <2>6
  <2>8. Fresh(c, seen) = Append(c, z)
    BY <1>2 DEF Fresh, First
  <2> HIDE DEF z, K
  <2>9. Append(c, z) \in Seq(Nat) /\ Append(c, z) # <<>>
    <3>1. z \in Nat
      BY <2>1, <2>7
    <3>2. QED
      BY <2>2, <3>1, AppendProperties
  <2>10. QED
    BY <2>7, <2>8, <2>9 DEF GivenNames, PlannedNames, NoName, First
<1>3. QED
  BY <1>1, <1>2

WantedOf(planned, i) == IF planned[i].id = NoName THEN <<i>> ELSE planned[i].id
ClaimOf(g, planned, i) ==
  IF i = 0 THEN <<>> ELSE Append(g[i - 1], Fresh(WantedOf(planned, i), ToSet(g[i - 1])))
Claims(g, planned, n) == g = [i \in 0 .. n |-> ClaimOf(g, planned, i)]

\* What UniqueIds unfolds to.
LEMMA UniqueUnfolds ==
  ASSUME NEW planned
  PROVE  UniqueIds(planned) = (CHOOSE g : Claims(g, planned, Len(planned)))[Len(planned)]
  BY DEF UniqueIds, Claims, ClaimOf, WantedOf

\* The prefixes of the ids exist.
LEMMA ClaimsExist == ASSUME NEW planned, NEW m \in Nat PROVE \E g : Claims(g, planned, m)
<1> DEFINE P(n) == \E g : Claims(g, planned, n)
           I == {n \in Nat : P(n)}
<1>1. 0 \in I
  <2> DEFINE g == [i \in 0 .. 0 |-> <<>>]
  <2>1. Claims(g, planned, 0)
    BY DEF Claims, ClaimOf
  <2> HIDE DEF g
  <2>2. QED
    BY <2>1
<1>2. ASSUME NEW n \in I PROVE n + 1 \in I
  <2>1. PICK g : g = [i \in 0 .. n |-> ClaimOf(g, planned, i)]
    BY DEF Claims
  <2> DEFINE h == [i \in 0 .. n + 1 |-> ClaimOf(g, planned, i)]
  <2>2. ASSUME NEW i \in 0 .. n + 1 PROVE ClaimOf(g, planned, i) = ClaimOf(h, planned, i)
    <3>1. CASE i = 0
      BY <3>1 DEF ClaimOf
    <3>2. CASE i # 0
      <4>1. i - 1 \in 0 .. n /\ i - 1 \in 0 .. n + 1
        BY <3>2
      <4>2. h[i - 1] = g[i - 1]
        BY <2>1, <4>1, Zenon
      <4> HIDE DEF h
      <4>3. QED
        BY <4>2, Zenon DEF ClaimOf
    <3>3. QED
      BY <3>1, <3>2
  <2>3. h = [i \in 0 .. n + 1 |-> ClaimOf(h, planned, i)]
    BY <2>2, Zenon
  <2> HIDE DEF h
  <2>4. P(n + 1)
    BY <2>3 DEF Claims
  <2>5. QED
    BY <2>4
<1> HIDE DEF P
<1>3. I \in SUBSET Nat
  OBVIOUS
<1>4. Nat \subseteq I
  <2> HIDE DEF I
  <2>1. QED
    BY <1>1, <1>2, <1>3, NatInd
<1>5. QED
  BY <1>4 DEF P

\* Every step gets a name of its own.
LEMMA UniqueIdsList ==
  ASSUME NEW planned \in Seq(PlannedSteps)
  PROVE  /\ Len(UniqueIds(planned)) = Len(planned)
         /\ \E S \in SUBSET GivenNames : Lists(UniqueIds(planned), S)
<1>1. PICK m \in Nat : m = Len(planned) /\ \A i \in 1 .. m : planned[i] \in PlannedSteps
  BY LenProperties, ElementOfSeq
<1> DEFINE c == CHOOSE g : Claims(g, planned, m)
<1>2. Claims(c, planned, m)
  BY ClaimsExist
<1> HIDE DEF c
<1>3. \A n \in 0 .. m : c[n] = ClaimOf(c, planned, n)
  BY <1>2 DEF Claims
<1> DEFINE Good(n) == Len(c[n]) = n /\ \E S \in SUBSET GivenNames : Lists(c[n], S)
           I == {n \in Nat : n <= m => Good(n)}
<1>4. 0 \in I
  <2>1. c[0] = <<>>
    BY <1>3 DEF ClaimOf
  <2>2. Lists(<<>>, {})
    BY DEF Lists, Injective, ToSet
  <2>3. QED
    BY <2>1, <2>2
<1>5. ASSUME NEW n \in I PROVE n + 1 \in I
  <2>1. SUFFICES ASSUME n + 1 <= m PROVE Good(n + 1)
    OBVIOUS
  <2>2. Len(c[n]) = n /\ n + 1 \in 1 .. m
    BY <2>1
  <2>3. PICK S \in SUBSET GivenNames : Lists(c[n], S)
    BY <2>1
  <2> DEFINE e == Fresh(WantedOf(planned, n + 1), S)
  <2>4. c[n + 1] = Append(c[n], e)
    <3>1. n + 1 \in 0 .. m /\ n + 1 # 0 /\ n + 1 - 1 = n
      BY <2>2
    <3>2. ToSet(c[n]) = S
      BY <2>3 DEF Lists
    <3>3. c[n + 1] = ClaimOf(c, planned, n + 1)
      BY <1>3, <3>1
    <3>4. c[n + 1] = Append(c[n], Fresh(WantedOf(planned, n + 1), ToSet(c[n])))
      <4> DEFINE k == n + 1
      <4>1. k # 0 /\ k - 1 = n /\ c[k] = ClaimOf(c, planned, k)
        BY <3>1, <3>3
      <4> HIDE DEF k
      <4>2. c[k] = Append(c[n], Fresh(WantedOf(planned, k), ToSet(c[n])))
        BY <4>1, Zenon DEF ClaimOf
      <4>3. QED
        BY <4>2 DEF k
    <3>5. QED
      BY <3>2, <3>4, Zenon
  <2>5. WantedOf(planned, n + 1) \in GivenNames
    <3>1. <<n + 1>> \in Seq(Nat) /\ <<n + 1>> # <<>>
      OBVIOUS
    <3>2. planned[n + 1].id \in PlannedNames
      BY <1>1, <2>2 DEF PlannedSteps
    <3>3. QED
      BY <3>1, <3>2 DEF WantedOf, GivenNames, PlannedNames, NoName
  <2>6. e \in GivenNames /\ e \notin S
    BY <2>3, <2>5, ListCounts, FreshIsNew
  <2> HIDE DEF e
  <2>7. Lists(c[n + 1], S \cup {e}) /\ Len(c[n + 1]) = n + 1
    BY <2>2, <2>3, <2>4, <2>6, ListGrows
  <2>8. S \cup {e} \in SUBSET GivenNames
    BY <2>6
  <2>9. QED
    BY <2>7, <2>8
<1>6. Good(m)
  <2>1. I \in SUBSET Nat
    OBVIOUS
  <2> HIDE DEF I
  <2>2. Nat \subseteq I
    BY <1>4, <1>5, <2>1, NatInd
  <2> HIDE DEF Good
  <2>3. QED
    BY <2>2 DEF I
<1>7. UniqueIds(planned) = c[m]
  BY <1>1, UniqueUnfolds DEF c
<1>8. QED
  BY <1>1, <1>6, <1>7

-----------------------------------------------------------------------------
(* The graph of a plan: which steps never run, and what a cut leaves.      *)
Graph(e, S) == DOMAIN e = S /\ IsFiniteSet(S) /\ \A s \in S : e[s] \subseteq S
\* Every step of C waits for a step of C.
Stuck(e, C) == C \subseteq DOMAIN e /\ \A s \in C : e[s] \cap C # {}

Layer(e, D) == {s \in DOMAIN e : e[s] \subseteq D}
DoneOf(g, e, n) == IF n = 0 THEN {} ELSE Layer(e, g[n - 1])
DoneTo(g, e, m) == g = [n \in 0 .. m |-> DoneOf(g, e, n)]

\* What NeverRunnable unfolds to.
LEMMA NeverUnfolds ==
  ASSUME NEW e
  PROVE  LET m == Cardinality(DOMAIN e) IN NeverRunnable(e) = DOMAIN e \ (CHOOSE g : DoneTo(g, e, m))[m]
  BY DEF NeverRunnable, DoneTo, DoneOf, Layer

\* Its rounds exist.
LEMMA DoneExists == ASSUME NEW e, NEW m \in Nat PROVE \E g : DoneTo(g, e, m)
<1> DEFINE P(n) == \E g : DoneTo(g, e, n)
           I == {n \in Nat : P(n)}
<1>1. 0 \in I
  <2> DEFINE g == [i \in 0 .. 0 |-> {}]
  <2>1. DoneTo(g, e, 0)
    BY DEF DoneTo, DoneOf
  <2> HIDE DEF g
  <2>2. QED
    BY <2>1
<1>2. ASSUME NEW n \in I PROVE n + 1 \in I
  <2>1. PICK g : g = [i \in 0 .. n |-> DoneOf(g, e, i)]
    BY DEF DoneTo
  <2> DEFINE h == [i \in 0 .. n + 1 |-> DoneOf(g, e, i)]
  <2>2. ASSUME NEW i \in 0 .. n + 1 PROVE DoneOf(g, e, i) = DoneOf(h, e, i)
    <3>1. CASE i = 0
      BY <3>1 DEF DoneOf
    <3>2. CASE i # 0
      <4>1. i - 1 \in 0 .. n /\ i - 1 \in 0 .. n + 1
        BY <3>2
      <4>2. h[i - 1] = g[i - 1]
        BY <2>1, <4>1, Zenon
      <4> HIDE DEF h
      <4>3. QED
        BY <4>2, Zenon DEF DoneOf
    <3>3. QED
      BY <3>1, <3>2
  <2>3. h = [i \in 0 .. n + 1 |-> DoneOf(h, e, i)]
    BY <2>2, Zenon
  <2> HIDE DEF h
  <2>4. P(n + 1)
    BY <2>3 DEF DoneTo
  <2>5. QED
    BY <2>4
<1> HIDE DEF P
<1>3. I \in SUBSET Nat
  OBVIOUS
<1>4. Nat \subseteq I
  <2> HIDE DEF I
  <2>1. QED
    BY <1>1, <1>2, <1>3, NatInd
<1>5. QED
  BY <1>4 DEF P

\* The steps that never run are stuck, and so is no step outside of them: the rounds
\* reach no stuck step, and as many as there are steps reach all the others.
LEMMA NeverIs ==
  ASSUME NEW e, NEW S, Graph(e, S)
  PROVE  /\ Stuck(e, NeverRunnable(e))
         /\ \A C : Stuck(e, C) => C \subseteq NeverRunnable(e)
<1>1. PICK m \in Nat : m = Cardinality(S)
  BY FS_CardinalityType DEF Graph
<1> DEFINE d == CHOOSE g : DoneTo(g, e, m)
<1>2. DoneTo(d, e, m)
  BY DoneExists
<1>3. NeverRunnable(e) = S \ d[m]
  BY <1>1, NeverUnfolds DEF Graph
<1> HIDE DEF d
<1>4. \A n \in 0 .. m : d[n] = DoneOf(d, e, n)
  BY <1>2 DEF DoneTo
<1> DEFINE Fine(D, n) == /\ D \subseteq Layer(e, D) /\ (n <= Cardinality(D) \/ Layer(e, D) \subseteq D)
                         /\ \A C : Stuck(e, C) => C \cap D = {}
           I == {n \in Nat : n <= m => Fine(d[n], n)}
<1>5. 0 \in I
  <2>1. d[0] = {}
    BY <1>4 DEF DoneOf
  <2>2. Fine({}, 0)
    BY FS_EmptySet DEF Layer
  <2>3. QED
    BY <2>1, <2>2
<1>6. ASSUME NEW n \in I PROVE n + 1 \in I
  <2>1. SUFFICES ASSUME n + 1 <= m PROVE Fine(d[n + 1], n + 1)
    OBVIOUS
  <2>2. PICK D : D = d[n]
    OBVIOUS
  <2>3. Fine(D, n)
    BY <2>1, <2>2
  <2>4. d[n + 1] = Layer(e, D)
    <3>1. n + 1 \in 0 .. m /\ n + 1 # 0 /\ (n + 1) - 1 = n
      BY <2>1
    <3>2. QED
      BY <1>4, <2>2, <3>1 DEF DoneOf
  <2> DEFINE L == Layer(e, D)
  <2>5. L \subseteq Layer(e, L)
    BY <2>3 DEF Layer
  <2>6. L \subseteq S /\ IsFiniteSet(L) /\ IsFiniteSet(D) /\ D \subseteq L
    BY <2>3, FS_Subset DEF Layer, Graph
  <2>7. n + 1 <= Cardinality(L) \/ Layer(e, L) \subseteq L
    <3>1. CASE L = D
      BY <2>3, <2>4, <3>1, FS_CardinalityType
    <3>2. CASE L # D /\ n <= Cardinality(D)
      <4> HIDE DEF L
      <4>1. Cardinality(D) \in Nat /\ Cardinality(L) \in Nat
        BY <2>6, FS_CardinalityType
      <4>2. Cardinality(D) <= Cardinality(L) /\ (Cardinality(D) = Cardinality(L) => D = L)
        BY <2>6, FS_Subset
      <4>3. QED
        BY <3>2, <4>1, <4>2
    <3>3. CASE L # D /\ L \subseteq D
      BY <2>6, <3>3
    <3>4. QED
      BY <2>3, <3>1, <3>2, <3>3
  <2>8. ASSUME NEW C, Stuck(e, C) PROVE C \cap L = {}
    BY <2>3, <2>8 DEF Stuck, Layer
  <2>9. QED
    BY <2>4, <2>5, <2>7, <2>8
<1>7. Fine(d[m], m)
  <2>1. I \in SUBSET Nat
    OBVIOUS
  <2> HIDE DEF I
  <2>2. Nat \subseteq I
    BY <1>5, <1>6, <2>1, NatInd
  <2> HIDE DEF Fine
  <2>3. QED
    BY <2>2 DEF I
<1>8. PICK D : D = d[m]
  OBVIOUS
<1>9. Layer(e, D) \subseteq D
  <2>1. CASE m <= Cardinality(D)
    <3>1. D \subseteq S
      BY <1>7, <1>8 DEF Layer, Graph
    <3>2. Cardinality(D) <= Cardinality(S) /\ Cardinality(D) \in Nat /\ (Cardinality(D) = Cardinality(S) => D = S)
      BY <3>1, FS_Subset, FS_CardinalityType DEF Graph
    <3>3. D = S
      BY <1>1, <2>1, <3>2
    <3>4. QED
      BY <3>3 DEF Layer, Graph
  <2>2. QED
    BY <1>7, <1>8, <2>1
<1>10. Stuck(e, S \ D)
  BY <1>9 DEF Stuck, Layer, Graph
<1>11. \A C : Stuck(e, C) => C \subseteq S \ D
  BY <1>7, <1>8 DEF Stuck, Graph
<1>12. QED
  BY <1>3, <1>8, <1>10, <1>11

Closed(e, C) == C \subseteq DOMAIN e /\ \A c \in C : e[c] \subseteq C
\* What a step waits for is closed, and is what it depends on and what that waits for.
LEMMA WaitsIs ==
  ASSUME NEW e, NEW S, Graph(e, S), NEW s \in S
  PROVE  /\ Closed(e, WaitsFor(e, s)) /\ e[s] \subseteq WaitsFor(e, s)
         /\ \A C : Closed(e, C) /\ e[s] \subseteq C => WaitsFor(e, s) \subseteq C
         /\ \A t \in WaitsFor(e, s) : WaitsFor(e, t) \subseteq WaitsFor(e, s)
         /\ \A t \in WaitsFor(e, s) : t \in e[s] \/ \E d \in e[s] : t \in WaitsFor(e, d)
<1>1. \A u \in S : WaitsFor(e, u) = {t \in S : \A C : Closed(e, C) /\ e[u] \subseteq C => t \in C}
  BY DEF WaitsFor, Closed, Graph
<1>2. ASSUME NEW u \in S PROVE Closed(e, WaitsFor(e, u)) /\ e[u] \subseteq WaitsFor(e, u)
  BY <1>1 DEF Closed, Graph
<1>3. \A u \in S : \A C : Closed(e, C) /\ e[u] \subseteq C => WaitsFor(e, u) \subseteq C
  BY <1>1
<1>4. ASSUME NEW t \in WaitsFor(e, s) PROVE WaitsFor(e, t) \subseteq WaitsFor(e, s)
  <2>1. t \in S /\ e[t] \subseteq WaitsFor(e, s)
    BY <1>1, <1>2 DEF Closed
  <2>2. QED
    BY <1>2, <1>3, <2>1
<1>5. ASSUME NEW t \in WaitsFor(e, s) PROVE t \in e[s] \/ \E d \in e[s] : t \in WaitsFor(e, d)
  <2> DEFINE C == e[s] \cup UNION {WaitsFor(e, d) : d \in e[s]}
  <2>1. e[s] \subseteq S
    BY DEF Graph
  <2>2. \A d \in e[s] : Closed(e, WaitsFor(e, d)) /\ e[d] \subseteq WaitsFor(e, d)
    BY <1>2, <2>1
  <2>3. Closed(e, C)
    <3>1. C \subseteq DOMAIN e
      BY <2>1, <2>2 DEF Closed, Graph
    <3>2. \A c \in C : e[c] \subseteq C
      BY <2>2 DEF Closed
    <3>3. QED
      BY <3>1, <3>2 DEF Closed
  <2>4. t \in C
    BY <1>3, <2>3
  <2>5. QED
    BY <2>4
<1>6. QED
  BY <1>2, <1>3, <1>4, <1>5

\* A step never runs exactly if it is on a cycle or waits for one.
LEMMA NeverWaits ==
  ASSUME NEW e, NEW S, Graph(e, S)
  PROVE  NeverRunnable(e) = WaitsForCycle(e)
<1> DEFINE B == NeverRunnable(e)
           W(s) == WaitsFor(e, s)
<1>1. Stuck(e, B) /\ \A C : Stuck(e, C) => C \subseteq B
  BY NeverIs
<1>2. \A s \in S : W(s) \subseteq S /\ e[s] \subseteq W(s) /\ e[s] \subseteq S
  BY WaitsIs DEF Closed, Graph
<1>3. \A s \in S : \A t \in W(s) : W(t) \subseteq W(s)
  BY WaitsIs
<1>4. \A s \in S : \A t \in W(s) : t \in e[s] \/ \E d \in e[s] : t \in W(d)
  BY WaitsIs
<1>5. WaitsForCycle(e) = {s \in S : \E t \in {s} \cup W(s) : t \in W(t)}
  BY DEF WaitsForCycle, OnCycle, Graph
<1>6. B \subseteq S
  BY <1>1 DEF Stuck, Graph
<1> HIDE DEF B, W
<1>7. ASSUME NEW s \in S, NEW t \in {s} \cup W(s), t \in W(t) PROVE s \in B
  <2> DEFINE C == {c \in S : t \in W(c)}
  <2>1. t \in S
    BY <1>2
  <2>2. ASSUME NEW c \in C PROVE e[c] \cap C # {}
    <3>1. t \in e[c] \/ \E d \in e[c] : t \in W(d)
      BY <1>4
    <3>2. e[c] \subseteq S
      BY <1>2
    <3>3. QED
      BY <1>7, <2>1, <3>1, <3>2
  <2>3. Stuck(e, C)
    BY <2>2 DEF Stuck, Graph
  <2>4. s \in C
    BY <1>7
  <2>5. QED
    BY <1>1, <2>3, <2>4
<1>8. ASSUME NEW s \in B PROVE \E t \in {s} \cup W(s) : t \in W(t)
  <2> DEFINE T == ({s} \cup W(s)) \cap B
             K == {Cardinality(W(t)) : t \in T}
  <2>1. \A t \in T : t \in S /\ IsFiniteSet(W(t)) /\ Cardinality(W(t)) \in Nat
    BY <1>2, <1>6, FS_Subset, FS_CardinalityType DEF Graph
  <2>2. K \in SUBSET Nat /\ K # {}
    BY <2>1
  <2>3. PICK k \in K : \A n \in K : k <= n
    <3> HIDE DEF K
    <3>1. QED
      BY <2>2, LeastNat
  <2>4. PICK t \in T : k = Cardinality(W(t))
    BY <2>3
  <2>5. PICK d \in e[t] : d \in B
    BY <1>1, <2>4 DEF Stuck
  <2>6. d \in W(t) /\ W(d) \subseteq W(t) /\ d \in W(s)
    <3>1. d \in W(t) /\ W(d) \subseteq W(t)
      BY <1>2, <1>3, <2>1, <2>4, <2>5
    <3>2. t = s \/ W(t) \subseteq W(s)
      BY <1>3, <1>6, <2>4
    <3>3. QED
      BY <3>1, <3>2
  <2>7. d \in T
    BY <2>5, <2>6
  <2>8. W(d) = W(t)
    <3>1. Cardinality(W(t)) <= Cardinality(W(d))
      BY <2>3, <2>4, <2>7
    <3>2. Cardinality(W(d)) <= Cardinality(W(t)) /\ (Cardinality(W(t)) = Cardinality(W(d)) => W(t) = W(d))
      BY <2>1, <2>4, <2>6, FS_Subset
    <3>3. Cardinality(W(t)) \in Nat /\ Cardinality(W(d)) \in Nat
      BY <2>1, <2>4, <2>7
    <3>4. QED
      BY <3>1, <3>2, <3>3
  <2>9. QED
    BY <2>6, <2>8
<1>9. QED
  BY <1>5, <1>6, <1>7, <1>8 DEF B

\* With no such step the graph has no cycle.
LEMMA NeverNone ==
  ASSUME NEW e, NEW S, Graph(e, S), NeverRunnable(e) = {}
  PROVE  \A s \in S : ~OnCycle(e, s)
  BY NeverWaits DEF WaitsForCycle, Graph

Freed(e, s) == IF s \in NeverRunnable(e) THEN [e EXCEPT ![s] = @ \ NeverRunnable(e)] ELSE e
CutOf(g, e, ids, i) == IF i = 0 THEN e ELSE Freed(g[i - 1], ids[i])
CutTo(g, e, ids, m) == g = [i \in 0 .. m |-> CutOf(g, e, ids, i)]

\* What BreakCycles unfolds to.
LEMMA BreakUnfolds ==
  ASSUME NEW e, NEW ids
  PROVE  BreakCycles(e, ids) = (CHOOSE g : CutTo(g, e, ids, Len(ids)))[Len(ids)]
  BY DEF BreakCycles, CutTo, CutOf, Freed

\* Its steps exist.
LEMMA CutsExist == ASSUME NEW e, NEW ids, NEW m \in Nat PROVE \E g : CutTo(g, e, ids, m)
<1> DEFINE P(n) == \E g : CutTo(g, e, ids, n)
           I == {n \in Nat : P(n)}
<1>1. 0 \in I
  <2> DEFINE g == [i \in 0 .. 0 |-> e]
  <2>1. CutTo(g, e, ids, 0)
    BY DEF CutTo, CutOf
  <2> HIDE DEF g
  <2>2. QED
    BY <2>1
<1>2. ASSUME NEW n \in I PROVE n + 1 \in I
  <2>1. PICK g : g = [i \in 0 .. n |-> CutOf(g, e, ids, i)]
    BY DEF CutTo
  <2> DEFINE h == [i \in 0 .. n + 1 |-> CutOf(g, e, ids, i)]
  <2>2. ASSUME NEW i \in 0 .. n + 1 PROVE CutOf(g, e, ids, i) = CutOf(h, e, ids, i)
    <3>1. CASE i = 0
      BY <3>1 DEF CutOf
    <3>2. CASE i # 0
      <4>1. i - 1 \in 0 .. n /\ i - 1 \in 0 .. n + 1
        BY <3>2
      <4>2. h[i - 1] = g[i - 1]
        BY <2>1, <4>1, Zenon
      <4> HIDE DEF h
      <4>3. QED
        BY <4>2, Zenon DEF CutOf
    <3>3. QED
      BY <3>1, <3>2
  <2>3. h = [i \in 0 .. n + 1 |-> CutOf(h, e, ids, i)]
    BY <2>2, Zenon
  <2> HIDE DEF h
  <2>4. P(n + 1)
    BY <2>3 DEF CutTo
  <2>5. QED
    BY <2>4
<1> HIDE DEF P
<1>3. I \in SUBSET Nat
  OBVIOUS
<1>4. Nat \subseteq I
  <2> HIDE DEF I
  <2>1. QED
    BY <1>1, <1>2, <1>3, NatInd
<1>5. QED
  BY <1>4 DEF P

\* d is e with fewer edges, cut only where steps of e never run.
Trims(d, e) ==
  /\ NeverRunnable(d) \subseteq NeverRunnable(e)
  /\ \A s \in DOMAIN e : d[s] \subseteq e[s] /\ e[s] \ d[s] \subseteq NeverRunnable(e)

\* Freeing a step takes it out of those that never run, and puts none in.
LEMMA FreedIs ==
  ASSUME NEW e, NEW S, Graph(e, S), NEW s \in S
  PROVE  Graph(Freed(e, s), S) /\ Trims(Freed(e, s), e) /\ s \notin NeverRunnable(Freed(e, s))
<1> DEFINE B == NeverRunnable(e)  d == Freed(e, s)
<1>1. Stuck(e, B) /\ \A C : Stuck(e, C) => C \subseteq B
  BY NeverIs
<1>2. CASE s \notin B
  <2>1. d = e
    BY <1>2 DEF Freed
  <2>2. QED
    BY <1>2, <2>1 DEF Trims
<1>3. CASE s \in B
  <2>1. DOMAIN d = S /\ d[s] = e[s] \ B /\ \A u \in S : u # s => d[u] = e[u]
    BY <1>3 DEF Freed, Graph
  <2> HIDE DEF B, d
  <2>2. Graph(d, S) /\ \A u \in S : d[u] \subseteq e[u] /\ e[u] \ d[u] \subseteq B
    BY <2>1 DEF Graph
  <2> DEFINE D == NeverRunnable(d)
  <2>3. Stuck(d, D)
    BY <2>2, NeverIs
  <2> HIDE DEF D
  <2>4. Stuck(e, D)
    BY <2>2, <2>3 DEF Stuck, Graph
  <2>5. D \subseteq B
    BY <1>1, <2>4
  <2>6. s \notin D
    BY <2>1, <2>3, <2>5 DEF Stuck
  <2>7. DOMAIN e = S
    BY DEF Graph
  <2>8. QED
    BY <2>2, <2>5, <2>6, <2>7 DEF Trims, B, D, d
<1>4. QED
  BY <1>2, <1>3

\* Repair: no step of what is left never runs, and no edge is cut but those into steps that would.
LEMMA BreakIs ==
  ASSUME NEW e, NEW S, Graph(e, S), NEW ids, Lists(ids, S)
  PROVE  LET d == BreakCycles(e, ids) IN Graph(d, S) /\ Trims(d, e) /\ NeverRunnable(d) = {}
<1>1. PICK m \in Nat : m = Len(ids) /\ DOMAIN ids = 1 .. m /\ \A i \in 1 .. m : ids[i] \in S
  BY LenProperties DEF Lists
<1> DEFINE c == CHOOSE g : CutTo(g, e, ids, m)
<1>2. CutTo(c, e, ids, m)
  BY CutsExist
<1>3. BreakCycles(e, ids) = c[m]
  BY <1>1, BreakUnfolds
<1> HIDE DEF c
<1>4. \A n \in 0 .. m : c[n] = CutOf(c, e, ids, n)
  BY <1>2 DEF CutTo
<1> DEFINE Fine(d, n) == /\ Graph(d, S) /\ Trims(d, e)
                         /\ \A i \in 1 .. n : ids[i] \notin NeverRunnable(d)
           I == {n \in Nat : n <= m => Fine(c[n], n)}
<1>5. 0 \in I
  <2>1. c[0] = e
    BY <1>4 DEF CutOf
  <2>2. Fine(e, 0)
    BY DEF Trims
  <2>3. QED
    BY <2>1, <2>2
<1>6. ASSUME NEW n \in I PROVE n + 1 \in I
  <2>1. SUFFICES ASSUME n + 1 <= m PROVE Fine(c[n + 1], n + 1)
    OBVIOUS
  <2>2. PICK d : d = c[n]
    OBVIOUS
  <2>3. Fine(d, n)
    BY <2>1, <2>2
  <2>4. PICK k \in 1 .. m : k = n + 1
    BY <2>1
  <2>5. c[n + 1] = Freed(d, ids[k])
    <3>1. k \in 0 .. m /\ k # 0 /\ k - 1 = n
      BY <2>1, <2>4
    <3>2. c[k] = Freed(c[n], ids[k])
      BY <1>4, <3>1 DEF CutOf
    <3>3. QED
      BY <2>2, <2>4, <3>2
  <2> DEFINE f == Freed(d, ids[k])
  <2>6. Graph(f, S) /\ Trims(f, d) /\ ids[k] \notin NeverRunnable(f)
    BY <1>1, <2>3, FreedIs
  <2> HIDE DEF f
  <2>7. Trims(f, e)
    <3>1. DOMAIN d = S /\ DOMAIN e = S
      BY <2>3 DEF Graph
    <3>2. QED
      BY <2>3, <2>6, <3>1 DEF Trims
  <2>8. \A i \in 1 .. n + 1 : ids[i] \notin NeverRunnable(f)
    <3>1. \A i \in 1 .. n + 1 : i \in 1 .. n \/ i = k
      BY <2>4
    <3>2. QED
      BY <2>3, <2>6, <3>1 DEF Trims
  <2>9. QED
    BY <2>5, <2>6, <2>7, <2>8 DEF f
<1>7. Fine(c[m], m)
  <2>1. I \in SUBSET Nat
    OBVIOUS
  <2> HIDE DEF I
  <2>2. Nat \subseteq I
    BY <1>5, <1>6, <2>1, NatInd
  <2> HIDE DEF Fine
  <2>3. QED
    BY <2>2 DEF I
<1>8. PICK d : d = c[m]
  OBVIOUS
<1>9. NeverRunnable(d) \subseteq S
  BY <1>7, <1>8, NeverIs DEF Stuck, Graph
<1>10. S = {ids[i] : i \in 1 .. m}
  BY <1>1 DEF Lists, ToSet
<1>11. NeverRunnable(d) = {}
  BY <1>7, <1>8, <1>9, <1>10
<1>12. QED
  BY <1>3, <1>7, <1>8, <1>11

(* What _init_plan makes of what was planned, with the cut edges and the   *)
(* closing summaries that are dropped.                                     *)
CutEdges(planned) == BreakCycles(InitEdges(planned, UniqueIds(planned)), UniqueIds(planned))
Dropped(planned) == ClosingSummaries(planned, UniqueIds(planned), CutEdges(planned))
LEMMA PlanIs ==
  ASSUME NEW planned \in Seq(PlannedSteps)
  PROVE  LET ids == UniqueIds(planned)
             p == InitPlan(planned)
         IN  /\ \E n \in Nat : DOMAIN p = 1 .. n
             /\ \A j, k \in DOMAIN p : p[j].id = p[k].id => j = k
             /\ \A k \in DOMAIN p : \E i \in DOMAIN ids :
                  ids[i] \notin Dropped(planned) /\ p[k].id = ids[i] /\ p[k].deps = CutEdges(planned)[ids[i]]
             /\ \A i \in DOMAIN ids : ids[i] \notin Dropped(planned) => \E k \in DOMAIN p : p[k].id = ids[i]
<1> DEFINE ids == UniqueIds(planned)
           edges == CutEdges(planned)
           dropped == Dropped(planned)
           all == [i \in DOMAIN ids |-> i]
           kept == {i \in DOMAIN ids : ids[i] \notin dropped}
           keep == Those(all, kept)
           p == InitPlan(planned)
<1>1. p = [k \in DOMAIN keep |->
             [id |-> ids[keep[k]], deps |-> edges[ids[keep[k]]], optional |-> planned[keep[k]].optional,
              map |-> IF planned[keep[k]].map \in ToSet(ids) THEN planned[keep[k]].map ELSE NoName]]
  BY DEF InitPlan, CutEdges, Dropped
<1>2. PICK S \in SUBSET GivenNames : Lists(ids, S)
  BY UniqueIdsList
<1> HIDE DEF p, ids, edges, dropped
<1>3. PICK m \in Nat : DOMAIN ids = 1 .. m
  BY <1>2, LenProperties DEF Lists
<1>4. Lists(all, DOMAIN ids)
  <2>1. all = [i \in 1 .. m |-> i] /\ Lists([i \in 1 .. m |-> i], 1 .. m)
    BY <1>3, NumbersList
  <2>2. QED
    BY <1>3, <2>1
<1> HIDE DEF all, kept
<1>5. Lists(keep, DOMAIN ids \cap kept)
  BY <1>4, ThoseLists
<1> HIDE DEF keep
<1>6. PICK n \in Nat : DOMAIN keep = 1 .. n
  BY <1>5, LenProperties DEF Lists
<1>7. DOMAIN p = 1 .. n
  BY <1>1, <1>6
<1>8. ASSUME NEW k \in DOMAIN p
      PROVE  keep[k] \in DOMAIN ids /\ ids[keep[k]] \notin dropped /\ p[k].id = ids[keep[k]] /\ p[k].deps = edges[ids[keep[k]]]
  <2>1. keep[k] \in DOMAIN ids \cap kept
    BY <1>5, <1>6, <1>7 DEF Lists, ToSet
  <2>2. QED
    BY <1>1, <1>6, <1>7, <2>1 DEF kept
<1>9. ASSUME NEW j \in DOMAIN p, NEW k \in DOMAIN p, p[j].id = p[k].id PROVE j = k
  <2>1. keep[j] = keep[k]
    BY <1>2, <1>8, <1>9 DEF Lists, Injective
  <2>2. QED
    BY <1>5, <1>6, <1>7, <2>1 DEF Lists, Injective
<1>10. ASSUME NEW i \in DOMAIN ids, ids[i] \notin dropped PROVE \E k \in DOMAIN p : p[k].id = ids[i]
  <2>1. i \in ToSet(keep)
    BY <1>5, <1>10 DEF Lists, kept
  <2>2. PICK k \in DOMAIN keep : keep[k] = i
    BY <2>1 DEF ToSet
  <2>3. QED
    BY <1>6, <1>7, <1>8, <2>2
<1>11. QED
  BY <1>7, <1>8, <1>9, <1>10 DEF ids, p, edges, dropped

\* The plan that was planned, repaired, can be walked to its end, and only answers are missing.
LEMMA PlanWalks ==
  ASSUME NEW planned \in Seq(PlannedSteps), planned # <<>>
  PROVE  LET ids == UniqueIds(planned)
             edges == InitEdges(planned, ids)
             p == InitPlan(planned)
             kept == {p[k].id : k \in DOMAIN p}
         IN  /\ Walkable(p)
             /\ NeverRunnable(edges) = WaitsForCycle(edges)
             /\ CutsOnlyCycles(edges, BreakCycles(edges, ids))
             /\ \A i \in DOMAIN planned : planned[i].answer \/ ids[i] \in kept
<1> DEFINE ids == UniqueIds(planned)
           edges == InitEdges(planned, ids)
           cut == CutEdges(planned)
           dropped == Dropped(planned)
           p == InitPlan(planned)
           kept == {p[k].id : k \in DOMAIN p}
<1>1. PICK S \in SUBSET GivenNames : Lists(ids, S)
  BY UniqueIdsList
<1>2. PICK m \in Nat \ {0} : DOMAIN ids = 1 .. m /\ DOMAIN planned = 1 .. m
  <2>1. Len(ids) = Len(planned) /\ Len(planned) \in Nat /\ Len(planned) # 0
    BY UniqueIdsList, LenProperties, EmptySeq
  <2>2. QED
    BY <1>1, <2>1, LenProperties DEF Lists
<1>3. S = ToSet(ids) /\ S = {ids[i] : i \in 1 .. m}
  BY <1>1, <1>2 DEF Lists, ToSet
<1>4. Graph(edges, S)
  <2>1. IsFiniteSet(S)
    BY <1>1, ListCounts
  <2>2. QED
    BY <1>3, <2>1 DEF Graph, InitEdges
<1>5. cut = BreakCycles(edges, ids)
  BY DEF CutEdges
<1> HIDE DEF edges, cut, ids
<1>6. Graph(cut, S) /\ Trims(cut, edges) /\ NeverRunnable(cut) = {}
  BY <1>1, <1>4, <1>5, BreakIs
<1>7. \A s \in S : cut[s] \subseteq S
  BY <1>6 DEF Graph
<1>8. dropped = IF Len(ids) < 2 THEN {}
                ELSE {ids[i] : i \in {i \in 1 .. m : /\ planned[i].answer /\ cut[ids[i]] # {}
                                                     /\ \A s \in S : ids[i] \notin cut[s]}}
  BY <1>2, <1>6 DEF Dropped, ClosingSummaries, Graph, ids, cut
<1>9. \A i \in 1 .. m : ids[i] \in dropped => planned[i].answer
  BY <1>1, <1>2, <1>8 DEF Lists, Injective
<1>10. \A x \in dropped : x \in S /\ cut[x] # {} /\ \A s \in S : x \notin cut[s]
  BY <1>3, <1>8
<1> HIDE DEF p, dropped
<1>11. PICK n \in Nat : DOMAIN p = 1 .. n
  BY PlanIs DEF p
<1>12. \A j, k \in DOMAIN p : p[j].id = p[k].id => j = k
  BY PlanIs DEF p
<1>13. \A k \in DOMAIN p : \E i \in DOMAIN ids : ids[i] \notin dropped /\ p[k].id = ids[i] /\ p[k].deps = cut[ids[i]]
  BY PlanIs DEF p, ids, dropped, cut
<1>14. \A i \in DOMAIN ids : ids[i] \notin dropped => \E k \in DOMAIN p : p[k].id = ids[i]
  BY PlanIs DEF p, ids, dropped
<1>15. kept = S \ dropped
  <2>1. \A x \in kept : x \in S /\ x \notin dropped
    BY <1>2, <1>3, <1>13
  <2>2. \A x \in S \ dropped : x \in kept
    BY <1>2, <1>3, <1>14
  <2>3. QED
    BY <2>1, <2>2
<1>16. \A k \in DOMAIN p : p[k].deps = cut[p[k].id]
  BY <1>13
<1>17. kept # {}
  <2>1. ids[1] \in S /\ 1 \in 1 .. m
    BY <1>2, <1>3
  <2>2. CASE ids[1] \in dropped
    <3>1. PICK d \in cut[ids[1]] : TRUE
      BY <1>10, <2>2
    <3>2. d \in S /\ d \notin dropped
      BY <1>7, <1>10, <2>1, <3>1
    <3>3. QED
      BY <1>15, <3>2
  <2>3. QED
    BY <1>15, <2>1, <2>2
<1> DEFINE g == [x \in kept |-> p[CHOOSE k \in DOMAIN p : p[k].id = x].deps]
<1>18. \A x \in kept : g[x] = cut[x]
  <2>1. SUFFICES ASSUME NEW x \in kept PROVE g[x] = cut[x]
    OBVIOUS
  <2>2. PICK k \in DOMAIN p : p[k].id = x
    OBVIOUS
  <2>3. k = CHOOSE j \in DOMAIN p : p[j].id = x
    BY <1>12, <2>2
  <2>4. QED
    BY <1>16, <2>2, <2>3
<1>19. Graph(g, kept)
  <2>1. IsFiniteSet(kept)
    BY <1>4, <1>15, FS_Subset DEF Graph
  <2>2. DOMAIN g = kept
    OBVIOUS
  <2> HIDE DEF g, kept
  <2>3. \A x \in kept : g[x] \subseteq kept
    BY <1>7, <1>10, <1>15, <1>18
  <2>4. QED
    BY <2>1, <2>2, <2>3 DEF Graph
<1>20. NeverRunnable(g) = {}
  <2>1. Stuck(g, NeverRunnable(g))
    BY <1>19, NeverIs
  <2> HIDE DEF g, kept
  <2>2. Stuck(cut, NeverRunnable(g))
    BY <1>6, <1>15, <1>18, <1>19, <2>1 DEF Stuck, Graph
  <2>3. QED
    BY <1>6, <2>2, NeverIs
<1>21. \A x \in kept : g[x] \subseteq kept /\ ~OnCycle(g, x)
  BY <1>19, <1>20, NeverNone DEF Graph
<1>22. p # <<>> /\ Cardinality(kept) = Len(p)
  <2> DEFINE o == [k \in 1 .. n |-> p[k].id]
  <2>1. \A k \in 1 .. n : p[k].id \in kept
    BY <1>11
  <2>2. o \in Seq(kept) /\ DOMAIN o = 1 .. n /\ Len(o) = n
    BY <2>1
  <2>3. Lists(o, kept)
    BY <1>11, <1>12, <2>2 DEF Lists, Injective, ToSet
  <2>4. Cardinality(kept) = n
    BY <2>2, <2>3, ListCounts
  <2>5. Len(p) = n /\ n # 0
    BY <1>11, <1>17
  <2>6. p # <<>>
    BY <1>11, <2>5
  <2>7. QED
    BY <2>4, <2>5, <2>6
<1>23. Walkable(p)
  BY <1>21, <1>22 DEF Walkable
<1>24. NeverRunnable(edges) = WaitsForCycle(edges)
  BY <1>4, NeverWaits
<1>25. CutsOnlyCycles(edges, BreakCycles(edges, ids))
  BY <1>5, <1>6, <1>24 DEF CutsOnlyCycles, Trims
<1>26. \A i \in DOMAIN planned : planned[i].answer \/ ids[i] \in kept
  BY <1>2, <1>3, <1>9, <1>15
<1>27. QED
  BY <1>23, <1>24, <1>25, <1>26 DEF ids, p, edges

\* What is cut off behind the limit leaves steps that were planned.
LEMMA TruncatedIs ==
  ASSUME NEW r \in Seq(PlannedSteps), NEW n \in Nat
  PROVE  Truncated(r, n) \in Seq(PlannedSteps)
<1>1. PICK m \in Nat : m = Len(r) /\ \A i \in 1 .. m : r[i] \in PlannedSteps
  BY LenProperties, ElementOfSeq
<1>2. CASE m <= n
  BY <1>1, <1>2 DEF Truncated
<1>3. CASE n < m
  <2> DEFINE cut == {r[i].id : i \in n + 1 .. m}
             t == [i \in 1 .. n |-> [r[i] EXCEPT !.deps = @ \ cut]]
  <2>1. Truncated(r, n) = t
    BY <1>1, <1>3 DEF Truncated
  <2>2. ASSUME NEW i \in 1 .. n PROVE t[i] \in PlannedSteps
    <3>1. r[i] \in PlannedSteps
      BY <1>1, <1>3
    <3> HIDE DEF cut
    <3>2. QED
      BY <3>1 DEF PlannedSteps
  <2>3. t \in [1 .. n -> PlannedSteps]
    BY <2>2
  <2>4. t \in Seq(PlannedSteps)
    BY <2>3
  <2>5. QED
    BY <2>1, <2>4
<1>4. QED
  BY <1>1, <1>2, <1>3

-----------------------------------------------------------------------------
(* _remaining_waves.                                                       *)
\* What a pass leaves of a list.
Passed(l, e, w) ==
  LET ready == Those(l, {s \in ToSet(l) : e[s] \cap ToSet(l) = {}})
  IN  Those(l, ToSet(l) \ ToSet(Firsts(ready, w)))
WaveOf(g, l, e, w, n) == IF n = 0 THEN l ELSE Passed(g[n - 1], e, w)
WavesTo(g, l, e, w, m) == g = [n \in 0 .. m |-> WaveOf(g, l, e, w, n)]
\* After n passes: a list of steps, that many fewer if there are any.
Shrunk(l, S, n, m) == (\E R \in SUBSET S : Lists(l, R)) /\ (l = <<>> \/ Len(l) + n <= m)
Ends(g, n) == g[n] = <<>> /\ g[n - 1] # <<>>

\* What RemainingWaves unfolds to.
LEMMA WavesUnfold ==
  ASSUME NEW l, l # <<>>, NEW e, NEW w, NEW m, m = Len(l)
  PROVE  RemainingWaves(l, e, w) =
           CHOOSE n \in 1 .. m : LET g == CHOOSE g : WavesTo(g, l, e, w, m) IN Ends(g, n)
  BY DEF RemainingWaves, WavesTo, WaveOf, Passed, Ends

\* Its passes exist.
LEMMA WavesExist == ASSUME NEW l, NEW e, NEW w, NEW m \in Nat PROVE \E g : WavesTo(g, l, e, w, m)
<1> DEFINE P(n) == \E g : WavesTo(g, l, e, w, n)
           I == {n \in Nat : P(n)}
<1>1. 0 \in I
  <2> DEFINE g == [i \in 0 .. 0 |-> l]
  <2>1. WavesTo(g, l, e, w, 0)
    BY DEF WavesTo, WaveOf
  <2> HIDE DEF g
  <2>2. QED
    BY <2>1
<1>2. ASSUME NEW n \in I PROVE n + 1 \in I
  <2>1. PICK g : g = [i \in 0 .. n |-> WaveOf(g, l, e, w, i)]
    BY DEF WavesTo
  <2> DEFINE h == [i \in 0 .. n + 1 |-> WaveOf(g, l, e, w, i)]
  <2>2. ASSUME NEW i \in 0 .. n + 1 PROVE WaveOf(g, l, e, w, i) = WaveOf(h, l, e, w, i)
    <3>1. CASE i = 0
      BY <3>1 DEF WaveOf
    <3>2. CASE i # 0
      <4>1. i - 1 \in 0 .. n /\ i - 1 \in 0 .. n + 1
        BY <3>2
      <4>2. h[i - 1] = g[i - 1]
        BY <2>1, <4>1, Zenon
      <4> HIDE DEF h
      <4>3. QED
        BY <3>2, <4>2 DEF WaveOf
    <3>3. QED
      BY <3>1, <3>2
  <2>3. h = [i \in 0 .. n + 1 |-> WaveOf(h, l, e, w, i)]
    BY <2>2, Zenon
  <2> HIDE DEF h
  <2>4. P(n + 1)
    BY <2>3 DEF WavesTo
  <2>5. QED
    BY <2>4
<1> HIDE DEF P
<1>3. I \in SUBSET Nat
  OBVIOUS
<1>4. Nat \subseteq I
  <2> HIDE DEF I
  <2>1. QED
    BY <1>1, <1>2, <1>3, NatInd
<1>5. QED
  BY <1>4 DEF P

\* Without a cycle, each pass takes a step of what is left; of nothing it leaves nothing.
LEMMA PassShortens ==
  ASSUME NEW e, NEW V, Graph(e, V), NeverRunnable(e) = {}, NEW w \in Nat \ {0},
         NEW S \in SUBSET V, NEW l, Lists(l, S)
  PROVE  /\ \E R \in SUBSET S : Lists(Passed(l, e, w), R)
         /\ IF l = <<>> THEN Passed(l, e, w) = <<>> ELSE Len(Passed(l, e, w)) < Len(l)
<1> DEFINE F == {s \in S : e[s] \cap S = {}}
           ready == Those(l, F)
           X == ToSet(Firsts(ready, w))
<1>1. S = ToSet(l) /\ IsFiniteSet(S) /\ Cardinality(S) = Len(l) /\ Len(l) \in Nat
  BY ListCounts, LenProperties DEF Lists
<1>2. Lists(ready, F)
  <2>1. S \cap F = F
    OBVIOUS
  <2> HIDE DEF F
  <2>2. QED
    BY <2>1, ThoseLists
<1>3. Passed(l, e, w) = Those(l, S \ X)
  BY <1>1 DEF Passed
<1>4. IsFiniteSet(F) /\ F \subseteq S /\ Cardinality(F) \in Nat
  BY <1>1, FS_Subset, FS_CardinalityType
<1>5. S # {} => F # {}
  <2>1. SUFFICES ASSUME S # {}, F = {} PROVE FALSE
    OBVIOUS
  <2>2. Stuck(e, S)
    BY <2>1 DEF Stuck, Graph
  <2>3. S \subseteq NeverRunnable(e)
    BY <2>2, NeverIs
  <2>4. QED
    BY <2>1, <2>3
<1> HIDE DEF F, ready
<1>6. X \subseteq F /\ (S # {} => X # {})
  <2>1. /\ X \subseteq F /\ (Cardinality(F) <= w => X = F)
        /\ (w <= Cardinality(F) => Cardinality(X) = w)
    BY <1>2, FirstsIs
  <2> HIDE DEF X
  <2>2. X = {} => Cardinality(X) = 0
    BY FS_EmptySet
  <2>3. QED
    BY <1>4, <1>5, <2>1, <2>2
<1> HIDE DEF X
<1>7. Lists(Passed(l, e, w), S \ X)
  <2>1. S \cap (S \ X) = S \ X
    OBVIOUS
  <2>2. QED
    BY <1>3, <2>1, ThoseLists
<1>8. Len(Passed(l, e, w)) = Cardinality(S \ X) /\ Len(Passed(l, e, w)) \in Nat
  BY <1>7, ListCounts, LenProperties DEF Lists
<1>9. CASE l = <<>>
  <2>1. S = {} /\ S \ X = {}
    BY <1>1, <1>9 DEF ToSet
  <2>2. Len(Passed(l, e, w)) = 0
    BY <1>8, <2>1, FS_EmptySet
  <2>3. Passed(l, e, w) = <<>>
    BY <1>7, <2>2, EmptySeq DEF Lists
  <2>4. QED
    BY <1>7, <1>9, <2>3
<1>10. CASE l # <<>>
  <2>1. S # {}
    <3>1. Len(l) # 0
      BY <1>10, EmptySeq DEF Lists
    <3>2. QED
      BY <1>1, <3>1, FS_EmptySet
  <2>2. PICK x \in X : x \in S
    BY <1>4, <1>6, <2>1
  <2>3. S \ X \subseteq S \ {x} /\ IsFiniteSet(S \ {x}) /\ Cardinality(S \ {x}) = Cardinality(S) - 1
    BY <1>1, <2>2, FS_RemoveElement
  <2>4. Cardinality(S \ X) <= Cardinality(S \ {x})
    BY <2>3, FS_Subset
  <2>5. QED
    BY <1>1, <1>7, <1>8, <1>10, <2>3, <2>4
<1>11. QED
  BY <1>9, <1>10

\* So the passes end within as many as there are steps, and once.
LEMMA WavesIs ==
  ASSUME NEW e, NEW V, Graph(e, V), NeverRunnable(e) = {}, NEW w \in Nat \ {0},
         NEW S \in SUBSET V, NEW l, Lists(l, S), l # <<>>, NEW m \in Nat, m = Len(l)
  PROVE  \E g : /\ WavesTo(g, l, e, w, m)
                /\ RemainingWaves(l, e, w) \in 1 .. m /\ Ends(g, RemainingWaves(l, e, w))
                /\ \A n \in 1 .. m : Ends(g, n) => n = RemainingWaves(l, e, w)
<1> DEFINE g == CHOOSE g : WavesTo(g, l, e, w, m)
<1>1. WavesTo(g, l, e, w, m)
  BY WavesExist
<1>2. RemainingWaves(l, e, w) = CHOOSE n \in 1 .. m : Ends(g, n)
  BY WavesUnfold
<1> HIDE DEF g
<1>3. g[0] = l /\ \A n \in Nat : n + 1 <= m => g[n + 1] = Passed(g[n], e, w)
  <2>1. \A n \in 0 .. m : g[n] = WaveOf(g, l, e, w, n)
    BY <1>1 DEF WavesTo
  <2>2. ASSUME NEW n \in Nat, n + 1 <= m PROVE g[n + 1] = Passed(g[n], e, w)
    <3>1. n + 1 \in 0 .. m /\ n + 1 # 0 /\ n + 1 - 1 = n
      BY <2>2
    <3>2. QED
      BY <2>1, <3>1 DEF WaveOf
  <2>3. QED
    BY <2>1, <2>2 DEF WaveOf
<1> DEFINE I == {n \in Nat : n <= m => Shrunk(g[n], S, n, m)}
<1>4. 0 \in I
  <2>1. Shrunk(g[0], S, 0, m)
    BY <1>3 DEF Shrunk
  <2>2. QED
    BY <2>1
<1>5. ASSUME NEW n \in I PROVE n + 1 \in I
  <2>1. SUFFICES ASSUME n + 1 <= m PROVE Shrunk(g[n + 1], S, n + 1, m)
    OBVIOUS
  <2>0. Shrunk(g[n], S, n, m) /\ n \in Nat
    BY <2>1
  <2>2. PICK R \in SUBSET S : Lists(g[n], R)
    BY <2>0 DEF Shrunk
  <2>3. (g[n] = <<>> \/ Len(g[n]) + n <= m) /\ g[n + 1] = Passed(g[n], e, w)
    BY <1>3, <2>0, <2>1 DEF Shrunk
  <2>4. /\ \E Q \in SUBSET R : Lists(g[n + 1], Q)
        /\ IF g[n] = <<>> THEN g[n + 1] = <<>> ELSE Len(g[n + 1]) < Len(g[n])
    <3>1. R \in SUBSET V
      OBVIOUS
    <3>2. PICK x : x = g[n]
      OBVIOUS
    <3>3. Lists(x, R)
      BY <2>2, <3>2
    <3>4. /\ \E Q \in SUBSET R : Lists(Passed(x, e, w), Q)
          /\ IF x = <<>> THEN Passed(x, e, w) = <<>> ELSE Len(Passed(x, e, w)) < Len(x)
      BY <3>1, <3>3, PassShortens
    <3>5. QED
      BY <2>3, <3>2, <3>4
  <2>5. Len(g[n]) \in Nat /\ Len(g[n + 1]) \in Nat
    BY <2>2, <2>4, LenProperties DEF Lists
  <2>6. g[n + 1] = <<>> \/ Len(g[n + 1]) + (n + 1) <= m
    BY <2>0, <2>3, <2>4, <2>5
  <2>7. QED
    BY <2>4, <2>6 DEF Shrunk
<1>6. \A n \in 0 .. m : Shrunk(g[n], S, n, m)
  <2>1. I \in SUBSET Nat
    OBVIOUS
  <2>2. Nat \subseteq I
    <3> HIDE DEF I
    <3>1. QED
      BY <1>4, <1>5, <2>1, NatInd
  <2>3. QED
    BY <2>2
<1>7. ASSUME NEW n \in Nat, n + 1 <= m, g[n] = <<>> PROVE g[n + 1] = <<>>
  <2>1. Shrunk(g[n], S, n, m)
    <3>1. n \in 0 .. m
      BY <1>7
    <3>2. QED
      BY <1>6, <3>1
  <2>2. PICK R \in SUBSET S : Lists(<<>>, R)
    BY <1>7, <2>1 DEF Shrunk
  <2>3. R \in SUBSET V
    OBVIOUS
  <2>4. Passed(<<>>, e, w) = <<>>
    BY <2>2, <2>3, PassShortens
  <2>5. QED
    BY <1>3, <1>7, <2>4
<1>8. g[m] = <<>>
  <2>0. Shrunk(g[m], S, m, m)
    BY <1>6
  <2>1. PICK R \in SUBSET S : Lists(g[m], R)
    BY <2>0 DEF Shrunk
  <2>2. Len(g[m]) \in Nat
    BY <2>1, LenProperties DEF Lists
  <2>3. g[m] = <<>> \/ Len(g[m]) + m <= m
    BY <2>0 DEF Shrunk
  <2>4. QED
    BY <2>1, <2>2, <2>3, EmptySeq DEF Lists
<1> HIDE DEF I
<1> DEFINE E == {n \in Nat : n <= m /\ g[n] = <<>>}
<1>9. PICK k \in E : \A n \in E : k <= n
  <2>1. E \in SUBSET Nat /\ m \in E
    BY <1>8
  <2> HIDE DEF E
  <2>2. QED
    BY <2>1, LeastNat
<1>10. k \in 1 .. m /\ Ends(g, k)
  <2>1. k # 0
    BY <1>3, <1>9
  <2>2. k \in 1 .. m /\ k - 1 \in Nat /\ k - 1 \notin E
    BY <1>9, <2>1
  <2>3. QED
    BY <1>9, <2>2 DEF Ends
<1>11. ASSUME NEW n \in 1 .. m, Ends(g, n) PROVE n = k
  <2>1. g[n] = <<>> /\ g[n - 1] # <<>> /\ n \in E
    BY <1>11 DEF Ends
  <2>2. k <= n
    BY <1>9, <2>1
  <2> DEFINE J == {i \in Nat : k + i <= m => g[k + i] = <<>>}
  <2>3. 0 \in J
    BY <1>9
  <2>4. ASSUME NEW i \in J PROVE i + 1 \in J
    <3>1. SUFFICES ASSUME k + (i + 1) <= m PROVE g[k + (i + 1)] = <<>>
      OBVIOUS
    <3>2. k + i \in Nat /\ (k + i) + 1 <= m /\ k + (i + 1) = (k + i) + 1 /\ g[k + i] = <<>>
      BY <1>9, <3>1
    <3>3. QED
      BY <1>7, <3>2
  <2>5. Nat \subseteq J
    <3>1. J \in SUBSET Nat
      OBVIOUS
    <3> HIDE DEF J
    <3>2. QED
      BY <2>3, <2>4, <3>1, NatInd
  <2>6. ASSUME k < n PROVE FALSE
    <3>1. n - 1 - k \in Nat /\ k + (n - 1 - k) = n - 1 /\ n - 1 <= m
      BY <1>9, <2>6
    <3>2. n - 1 - k \in J
      BY <2>5, <3>1
    <3>3. QED
      BY <2>1, <3>1, <3>2
  <2>7. QED
    BY <1>9, <2>2, <2>6
<1>12. RemainingWaves(l, e, w) = k
  BY <1>2, <1>10, <1>11
<1>13. QED
  BY <1>1, <1>10, <1>11, <1>12

\* One pass is one wave.
LEMMA OneWave ==
  ASSUME NEW e, NEW V, Graph(e, V), NeverRunnable(e) = {}, NEW w \in Nat \ {0},
         NEW S \in SUBSET V, NEW l, Lists(l, S), l # <<>>
  PROVE  LET q == Passed(l, e, w) IN
         /\ q = <<>> => RemainingWaves(l, e, w) = 1
         /\ q # <<>> => RemainingWaves(q, e, w) = RemainingWaves(l, e, w) - 1
<1> DEFINE q == Passed(l, e, w)
           N == RemainingWaves(l, e, w)
           M == RemainingWaves(q, e, w)
<1>1. PICK m \in Nat \ {0} : m = Len(l)
  <2>1. Len(l) \in Nat /\ Len(l) # 0
    BY LenProperties, EmptySeq DEF Lists
  <2>2. QED
    BY <2>1
<1>2. PICK g : WavesTo(g, l, e, w, m) /\ N \in 1 .. m /\ \A n \in 1 .. m : Ends(g, n) => n = N
  BY <1>1, WavesIs
<1>3. PICK R \in SUBSET V : Lists(q, R)
  BY PassShortens
<1>4. Len(q) < m
  BY <1>1, PassShortens
<1> HIDE DEF q, N, M
<1>5. g[0] = l /\ g[1] = q
  <2>1. 0 \in 0 .. m /\ 1 \in 0 .. m /\ 1 # 0 /\ 1 - 1 = 0
    BY <1>1
  <2>2. \A n \in 0 .. m : g[n] = WaveOf(g, l, e, w, n)
    BY <1>2 DEF WavesTo
  <2>3. g[0] = l
    BY <2>1, <2>2 DEF WaveOf
  <2>4. g[1] = Passed(g[0], e, w)
    BY <2>1, <2>2 DEF WaveOf
  <2>5. QED
    BY <2>3, <2>4 DEF q
<1>6. ASSUME q = <<>> PROVE N = 1
  <2>1. 1 \in 1 .. m /\ 1 - 1 = 0
    BY <1>1
  <2>2. Ends(g, 1)
    BY <1>5, <1>6, <2>1 DEF Ends
  <2>3. QED
    BY <1>2, <2>1, <2>2
<1>7. ASSUME q # <<>> PROVE M = N - 1
  <2>1. PICK k \in Nat : k = Len(q)
    BY <1>3, LenProperties DEF Lists
  <2>2. PICK h : WavesTo(h, q, e, w, k) /\ M \in 1 .. k /\ Ends(h, M)
    BY <1>3, <1>7, <2>1, WavesIs DEF M
  <2>3. k < m
    BY <1>4, <2>1
  <2> DEFINE I == {i \in Nat : i <= k => h[i] = g[i + 1]}
  <2>4. (\A n \in 0 .. k : h[n] = WaveOf(h, q, e, w, n)) /\ \A n \in 0 .. m : g[n] = WaveOf(g, l, e, w, n)
    BY <1>2, <2>2 DEF WavesTo
  <2>5. 0 \in I
    <3>1. 0 \in 0 .. k /\ 0 + 1 = 1
      BY <2>1
    <3>2. h[0] = q
      BY <2>4, <3>1 DEF WaveOf
    <3>3. QED
      BY <1>5, <3>1, <3>2
  <2>6. ASSUME NEW i \in I PROVE i + 1 \in I
    <3>1. SUFFICES ASSUME i + 1 <= k PROVE h[i + 1] = g[i + 1 + 1]
      OBVIOUS
    <3>2. h[i] = g[i + 1]
      BY <3>1
    <3>3. /\ i + 1 \in 0 .. k /\ i + 1 # 0 /\ i + 1 - 1 = i
          /\ i + 1 + 1 \in 0 .. m /\ i + 1 + 1 # 0 /\ i + 1 + 1 - 1 = i + 1
      BY <2>3, <3>1
    <3>4. h[i + 1] = Passed(h[i], e, w)
      BY <2>4, <3>3 DEF WaveOf
    <3>5. g[i + 1 + 1] = Passed(g[i + 1], e, w)
      BY <2>4, <3>3 DEF WaveOf
    <3>6. QED
      BY <3>2, <3>4, <3>5
  <2>7. Nat \subseteq I
    <3>1. I \in SUBSET Nat
      OBVIOUS
    <3> HIDE DEF I
    <3>2. QED
      BY <2>5, <2>6, <3>1, NatInd
  <2>8. M \in I /\ M - 1 \in I /\ M <= k /\ M - 1 <= k /\ M - 1 + 1 = M
    BY <2>2, <2>7
  <2>9. M + 1 \in 1 .. m /\ M + 1 - 1 = M
    BY <2>2, <2>3
  <2>10. Ends(g, M + 1)
    BY <2>2, <2>8, <2>9 DEF Ends
  <2>11. M + 1 = N
    BY <1>2, <2>9, <2>10
  <2>12. M \in Int
    BY <2>2
  <2>13. QED
    BY <2>11, <2>12
<1>8. QED
  BY <1>6, <1>7 DEF q, N, M

-----------------------------------------------------------------------------
(* A plan and its steps.                                                   *)
StepFields == {"st", "deps", "map", "optional", "parent", "noRetry", "guidance", "reason", "res", "asks"}
Sts == {"pending", "ran", "passed", "failed", "skipped", "expanded", "awaiting"}
Sound(r) ==
  /\ DOMAIN r = StepFields /\ r.st \in Sts /\ r.asks \subseteq {"confirm", "elicit"}
  /\ (r.st = "awaiting") = (r.asks # {})

(* A step was planned, or is the child of an expanded step that was.       *)
IsChild(s, x) ==
  LET q == s[x].parent IN
  /\ q \in DOMAIN s /\ q \in GivenNames /\ s[q].st = "expanded" /\ s[x].optional = s[q].optional
  /\ s[x].map = NoName /\ s[x].st # "expanded"
  /\ \E i \in 1 .. MaxExpansion : x = ChildOf(q, i)
Stands(s, x) == (s[x].parent = NoName /\ x \in GivenNames) \/ IsChild(s, x)
Family(o, s) ==
  /\ Lists(o, DOMAIN s)
  /\ \A x \in DOMAIN s :
       Sound(s[x]) /\ x # NoName /\ Stands(s, x) /\ (s[x].st = "expanded" => ChildrenOf(s, x) # {})

\* A plan as it is made: names of its own for all its steps.
LEMMA PlanMade ==
  ASSUME NEW r \in Explored
  PROVE  /\ \E n \in Nat : DOMAIN PlanOf(r) = 1 .. n
         /\ \A k \in DOMAIN PlanOf(r) : PlanOf(r)[k].id \in GivenNames
         /\ \A j, k \in DOMAIN PlanOf(r) : PlanOf(r)[j].id = PlanOf(r)[k].id => j = k
<1> DEFINE planned == IF r = <<>> THEN Fallback ELSE r
           ids == UniqueIds(planned)
<1>1. planned \in Seq(PlannedSteps)
  <2>1. Fallback \in Seq(PlannedSteps)
    BY DEF Fallback, PlannedSteps, PlannedNames, NoName
  <2>2. QED
    BY <2>1, PlanAssumption
<1>2. PlanOf(r) = InitPlan(planned)
  BY DEF PlanOf
<1> HIDE DEF planned
<1>3. \A i \in DOMAIN ids : ids[i] \in GivenNames
  BY <1>1, UniqueIdsList DEF Lists, ToSet
<1>4. QED
  BY <1>1, <1>2, <1>3, PlanIs

(* o and s are the order and the steps that r is made into.                *)
Made(r, o, s) ==
  /\ o = [k \in DOMAIN PlanOf(r) |-> PlanOf(r)[k].id]
  /\ s = [x \in {PlanOf(r)[k].id : k \in DOMAIN PlanOf(r)} |->
            NewStep(PlanOf(r)[CHOOSE k \in DOMAIN PlanOf(r) : PlanOf(r)[k].id = x])]

\* The plan that is made of it is a family of one generation.
LEMMA PlanStarts ==
  ASSUME NEW r \in Explored, NEW o, NEW s, Made(r, o, s)
  PROVE  /\ Family(o, s) /\ \A x \in DOMAIN s : s[x].st = "pending"
         /\ \A k \in DOMAIN PlanOf(r) : /\ PlanOf(r)[k].id \in DOMAIN s
                                        /\ s[PlanOf(r)[k].id].optional = PlanOf(r)[k].optional
<1> DEFINE p == PlanOf(r)
<1>1. PICK n \in Nat : DOMAIN p = 1 .. n
  BY PlanMade
<1>2. \A k \in DOMAIN p : p[k].id \in GivenNames
  BY PlanMade
<1>3. \A j, k \in DOMAIN p : p[j].id = p[k].id => j = k
  BY PlanMade
<1> HIDE DEF p
<1>4. /\ o = [k \in DOMAIN p |-> p[k].id]
      /\ s = [x \in {p[k].id : k \in DOMAIN p} |-> NewStep(p[CHOOSE k \in DOMAIN p : p[k].id = x])]
  BY DEF p, Made
<1>5. ASSUME NEW k \in DOMAIN p PROVE p[k].id \in DOMAIN s /\ s[p[k].id] = NewStep(p[k])
  <2>1. k = CHOOSE j \in DOMAIN p : p[j].id = p[k].id
    BY <1>3
  <2>2. QED
    BY <1>4, <2>1
<1>6. ASSUME NEW x \in DOMAIN s PROVE \E k \in DOMAIN p : x = p[k].id /\ s[x] = NewStep(p[k])
  <2>1. DOMAIN s = {p[k].id : k \in DOMAIN p}
    BY <1>4, Zenon
  <2>2. PICK k \in DOMAIN p : x = p[k].id
    BY <2>1
  <2>3. QED
    BY <1>5, <2>2, Zenon
<1>7. \A k \in DOMAIN p : /\ Sound(NewStep(p[k])) /\ NewStep(p[k]).st = "pending"
                          /\ NewStep(p[k]).parent = NoName /\ NewStep(p[k]).optional = p[k].optional
  BY DEF Sound, NewStep, StepFields, Sts
<1>8. Lists(o, DOMAIN s)
  <2>0. DOMAIN s = {p[k].id : k \in DOMAIN p}
    BY <1>4, Zenon
  <2>1. DOMAIN s = {p[k].id : k \in DOMAIN p} /\ DOMAIN o = 1 .. n /\ \A k \in 1 .. n : o[k] = p[k].id
    BY <1>1, <1>4, <2>0, Zenon
  <2>2. o \in [1 .. n -> DOMAIN s]
    BY <1>1, <1>4, <1>5
  <2>3. o \in Seq(DOMAIN s)
    BY <2>2
  <2>4. QED
    BY <1>1, <1>3, <2>1, <2>3 DEF Lists, Injective, ToSet
<1>9. ASSUME NEW x \in DOMAIN s
      PROVE  Sound(s[x]) /\ s[x].st = "pending" /\ s[x].parent = NoName /\ x \in GivenNames
  <2>1. PICK k \in DOMAIN p : x = p[k].id /\ s[x] = NewStep(p[k])
    BY <1>6
  <2>2. QED
    BY <1>2, <1>7, <2>1, Zenon
<1>10. Family(o, s)
  BY <1>8, <1>9 DEF Family, Stands, GivenNames
<1>11. QED
  BY <1>5, <1>7, <1>9, <1>10 DEF p

-----------------------------------------------------------------------------
(* _expand_mapped_steps.                                                   *)
(* t is s with p expanded into children of it.                             *)
Expands(s, t, p) ==
  /\ DOMAIN s \subseteq DOMAIN t
  /\ \A x \in DOMAIN s \ {p} : t[x] = s[x]
  /\ t[p] = [s[p] EXCEPT !.st = "expanded"]
  /\ \A x \in DOMAIN t \ DOMAIN s : t[x].st = "pending" /\ t[x].parent = p

\* A child's name is that of no other step while its parent is not expanded.
LEMMA ChildIsNew ==
  ASSUME NEW o, NEW s, Family(o, s), NEW p \in DOMAIN s, p \in GivenNames, s[p].st = "pending",
         NEW i \in 1 .. MaxExpansion
  PROVE  ChildOf(p, i) \notin DOMAIN s
<1> DEFINE x == ChildOf(p, i)
<1>1. i \in Nat \ {0} /\ p \in PlannedNames
  BY DEF GivenNames
<1>2. x \notin PlannedNames
  BY <1>1, ChildNames
<1>3. SUFFICES ASSUME x \in DOMAIN s PROVE FALSE
  OBVIOUS
<1> HIDE DEF x
<1>4. IsChild(s, x)
  BY <1>2, <1>3 DEF Family, Stands, GivenNames
<1> DEFINE q == s[x].parent
<1>5. q \in GivenNames /\ s[q].st = "expanded" /\ \E j \in 1 .. MaxExpansion : x = ChildOf(q, j)
  BY <1>4 DEF IsChild
<1> HIDE DEF q
<1>6. p = q
  <2>1. PICK j \in 1 .. MaxExpansion : x = ChildOf(q, j)
    BY <1>5
  <2>2. q \in PlannedNames /\ j \in Nat \ {0} /\ ChildOf(p, i) = ChildOf(q, j)
    BY <1>5, <2>1 DEF GivenNames, x
  <2>3. QED
    BY <1>1, <2>2, ChildNames
<1>7. QED
  BY <1>5, <1>6

\* A family stays one when a planned step is expanded.
LEMMA ExpandWithKeeps ==
  ASSUME NEW e, Family(e.order, e.steps), NEW p \in DOMAIN e.steps, p \in GivenNames,
         e.steps[p].st = "pending", e.steps[p].parent = NoName,
         NEW J \in SUBSET (1 .. MaxExpansion), J # {}, NEW items, Lists(items, J), NEW extra
  PROVE  /\ Family(ExpandWith(e, p, items, extra).order, ExpandWith(e, p, items, extra).steps)
         /\ Expands(e.steps, ExpandWith(e, p, items, extra).steps, p)
<1> DEFINE s == e.steps
           o == e.order
           new == [i \in DOMAIN items |-> ChildOf(p, items[i])]
           N == ToSet(new)
           at == CHOOSE k \in DOMAIN o : o[k] = p
           t == ExpandWith(e, p, items, extra).steps
           u == ExpandWith(e, p, items, extra).order
<1>1. /\ u = Spliced(o, new, at)
      /\ t = [x \in DOMAIN s \cup N |->
                IF x = p THEN [s[p] EXCEPT !.st = "expanded"]
                ELSE IF x \in N THEN Child(s, p, extra[-Last(x)]) ELSE s[x]]
  BY DEF ExpandWith, Spliced
<1>2. Family(o, s) /\ p \in DOMAIN s /\ s[p].st = "pending" /\ s[p].parent = NoName
  OBVIOUS
<1> HIDE DEF s, o, t, u
<1>3. PICK n \in Nat : DOMAIN items = 1 .. n
  BY LenProperties DEF Lists
<1>4. N = {ChildOf(p, j) : j \in J}
  BY DEF Lists, ToSet
<1>5. Lists(new, N)
  <2>1. \A i \in 1 .. n : items[i] \in J
    BY <1>3 DEF Lists, ToSet
  <2>2. ASSUME NEW i \in 1 .. n, NEW j \in 1 .. n, new[i] = new[j] PROVE i = j
    <3>0. PICK a \in J, b \in J : a = items[i] /\ b = items[j]
      BY <2>1
    <3>1. a \in Nat \ {0} /\ b \in Nat \ {0}
      OBVIOUS
    <3>2. p \in PlannedNames /\ ChildOf(p, a) = ChildOf(p, b)
      BY <1>3, <2>2, <3>0 DEF GivenNames
    <3>3. a = b
      BY <3>1, <3>2, ChildNames
    <3>4. QED
      BY <1>3, <3>0, <3>3 DEF Lists, Injective
  <2>3. DOMAIN new = 1 .. n /\ new \in [1 .. n -> N]
    BY <1>3 DEF ToSet
  <2> HIDE DEF new
  <2>4. new \in Seq(N)
    BY <2>3 DEF N
  <2>5. QED
    BY <2>2, <2>3, <2>4 DEF Lists, Injective, N
<1>6. \A x \in N : x \notin DOMAIN s
  BY <1>2, <1>4, ChildIsNew
<1>7. at \in 1 .. Len(o)
  <2>1. DOMAIN o = 1 .. Len(o) /\ \E k \in DOMAIN o : o[k] = p
    BY <1>2, LenProperties DEF Family, Lists, ToSet
  <2>2. QED
    BY <2>1
<1> HIDE DEF at, new, N
<1>8. Lists(u, DOMAIN s \cup N)
  <2>1. DOMAIN s \cap N = {} /\ Lists(o, DOMAIN s)
    BY <1>2, <1>6 DEF Family
  <2>2. Lists(Spliced(o, new, at), DOMAIN s \cup N)
    BY <2>1, <1>5, <1>7, SplicedLists
  <2>3. QED
    BY <1>1, <2>2
<1>9. DOMAIN t = DOMAIN s \cup N
  BY <1>1
<1>10. \A x \in DOMAIN s \ {p} : t[x] = s[x]
  BY <1>1, <1>6
<1>11. t[p] = [s[p] EXCEPT !.st = "expanded"]
  BY <1>1, <1>2
<1>12. ASSUME NEW x \in N
       PROVE  /\ t[x] = Child(s, p, extra[-Last(x)])
              /\ \E i \in 1 .. MaxExpansion : x = ChildOf(p, i)
  BY <1>1, <1>2, <1>4, <1>6
<1>13. Sound(s[p])
  BY <1>2 DEF Family
<1>14. ASSUME NEW x \in N
       PROVE  /\ Sound(t[x]) /\ x # NoName /\ t[x].st = "pending" /\ t[x].parent = p /\ t[x].map = NoName
              /\ t[x].optional = s[p].optional
  <2>1. PICK d : t[x] = [s[p] EXCEPT !.deps = d, !.map = NoName, !.parent = p, !.res = "none", !.reason = ""]
    BY <1>12 DEF Child
  <2>2. DOMAIN s[p] = StepFields
    BY <1>13 DEF Sound
  <2>3. /\ DOMAIN t[x] = StepFields /\ t[x].st = s[p].st /\ t[x].asks = s[p].asks
        /\ t[x].parent = p /\ t[x].map = NoName /\ t[x].optional = s[p].optional
    BY <2>1, <2>2 DEF StepFields
  <2>4. x # NoName
    <3>1. PICK i \in 1 .. MaxExpansion : x = ChildOf(p, i)
      BY <1>12
    <3>2. QED
      BY <3>1, ChildNames DEF GivenNames
  <2>5. QED
    BY <1>2, <1>13, <2>3, <2>4 DEF Sound
<1>15. /\ Sound(t[p]) /\ t[p].st = "expanded" /\ t[p].parent = NoName /\ t[p].optional = s[p].optional
       /\ t[p].map = s[p].map
  <2>1. DOMAIN s[p] = StepFields
    BY <1>13 DEF Sound
  <2>2. /\ DOMAIN t[p] = StepFields /\ t[p].st = "expanded" /\ t[p].asks = s[p].asks
        /\ t[p].parent = s[p].parent /\ t[p].map = s[p].map /\ t[p].optional = s[p].optional
    BY <1>11, <2>1 DEF StepFields
  <2>3. QED
    BY <1>2, <1>13, <2>2 DEF Sound, Sts
<1>16. Expands(s, t, p)
  BY <1>9, <1>10, <1>11, <1>14 DEF Expands
<1>17. ASSUME NEW x \in DOMAIN t
       PROVE  Sound(t[x]) /\ x # NoName /\ Stands(t, x) /\ (t[x].st = "expanded" => ChildrenOf(t, x) # {})
  <2>1. CASE x \in N
    <3>1. IsChild(t, x)
      BY <1>2, <1>9, <1>12, <1>14, <1>15, <2>1 DEF IsChild
    <3>2. QED
      BY <1>14, <2>1, <3>1 DEF Stands
  <2>2. CASE x = p
    <3>1. PICK j \in J : TRUE
      OBVIOUS
    <3>2. ChildOf(p, j) \in ChildrenOf(t, p)
      BY <1>4, <1>9, <1>14 DEF ChildrenOf
    <3>3. QED
      BY <1>2, <1>15, <2>2, <3>2 DEF Stands, Family
  <2>3. CASE x \notin N /\ x # p
    <3>1. x \in DOMAIN s /\ t[x] = s[x]
      BY <1>9, <1>10, <2>3
    <3>2. Sound(s[x]) /\ x # NoName /\ Stands(s, x) /\ (s[x].st = "expanded" => ChildrenOf(s, x) # {})
      BY <1>2, <3>1 DEF Family
    <3>3. Stands(t, x)
      <4>1. ASSUME IsChild(s, x) PROVE IsChild(t, x)
        <5>1. s[x].parent # p
          BY <1>2, <4>1 DEF IsChild
        <5>2. s[x].parent \in DOMAIN s
          BY <4>1 DEF IsChild
        <5>3. t[s[x].parent] = s[s[x].parent] /\ s[x].parent \in DOMAIN t
          BY <1>9, <1>10, <5>1, <5>2
        <5>4. QED
          BY <3>1, <4>1, <5>3 DEF IsChild
      <4>2. QED
        BY <3>1, <3>2, <4>1 DEF Stands
    <3>4. ChildrenOf(s, x) \subseteq ChildrenOf(t, x)
      <4>1. SUFFICES ASSUME NEW c \in DOMAIN s, s[c].parent = x PROVE c \in DOMAIN t /\ t[c].parent = x
        BY DEF ChildrenOf
      <4>2. c # p
        BY <1>2, <3>2, <4>1
      <4>3. QED
        BY <1>9, <1>10, <4>1, <4>2
    <3>5. QED
      BY <3>1, <3>2, <3>3, <3>4
  <2>4. QED
    BY <2>1, <2>2, <2>3
<1>18. Family(u, t)
  BY <1>8, <1>9, <1>17 DEF Family
<1>19. QED
  BY <1>16, <1>18 DEF s, t, u

(* What expanding one step does: nothing, the step runs as it was written, *)
(* or it is replaced by children.                                          *)
OneExpanded(e, f, p) ==
  /\ Family(f.order, f.steps)
  /\ \/ f = e
     \/ /\ DOMAIN f.steps = DOMAIN e.steps /\ \A x \in DOMAIN e.steps \ {p} : f.steps[x] = e.steps[x]
        /\ f.steps[p] = [e.steps[p] EXCEPT !.map = NoName]
     \/ Expands(e.steps, f.steps, p)

\* One step of the expansion keeps the family.
LEMMA ExpandOneKeeps ==
  ASSUME NEW e, DOMAIN e = {"order", "steps"}, Family(e.order, e.steps), NEW p \in DOMAIN e.steps,
         e.steps[p].st = "pending", e.steps[p].map \in DOMAIN e.steps, NEW n \in 0 .. MaxExpansion
  PROVE  OneExpanded(e, ExpandOne(e, p, n), p)
<1> DEFINE s == e.steps
           src == e.steps[p].map
           J == {i \in 1 .. MaxExpansion : ChildOf(src, i) \in ChildrenOf(s, src)}
           items == Those([i \in 1 .. MaxExpansion |-> i], J)
<1>0. MaxExpansion \in Nat
  BY PlanAssumption
<1>1. s[p].parent = NoName /\ p \in GivenNames
  BY DEF Family, Stands, IsChild
<1>2. CASE s[src].st = "expanded"
  <2>1. ExpandOne(e, p, n) = ExpandWith(e, p, items, [i \in ToSet(items) |-> {ChildOf(src, i)}])
    BY <1>2 DEF ExpandOne
  <2>2. J # {}
    <3>1. ChildrenOf(s, src) # {}
      BY <1>2 DEF Family
    <3>2. PICK x \in DOMAIN s : s[x].parent = src
      BY <3>1 DEF ChildrenOf
    <3>3. IsChild(s, x)
      BY <3>2 DEF Family, Stands
    <3>4. PICK i \in 1 .. MaxExpansion : x = ChildOf(src, i)
      BY <3>2, <3>3 DEF IsChild
    <3>5. QED
      BY <3>2, <3>4 DEF ChildrenOf
  <2>3. Lists(items, J)
    <3>1. Lists([i \in 1 .. MaxExpansion |-> i], 1 .. MaxExpansion)
      BY <1>0, NumbersList
    <3>2. Lists(items, (1 .. MaxExpansion) \cap J)
      BY <3>1, ThoseLists
    <3>3. (1 .. MaxExpansion) \cap J = J
      OBVIOUS
    <3> HIDE DEF items, J
    <3>4. QED
      BY <3>2, <3>3, Zenon
  <2>4. J \in SUBSET (1 .. MaxExpansion)
    OBVIOUS
  <2> HIDE DEF items, J
  <2>5. QED
    BY <1>1, <2>1, <2>2, <2>3, <2>4, ExpandWithKeeps DEF OneExpanded
<1>3. CASE s[src].st # "expanded" /\ s[src].st # "passed"
  BY <1>3 DEF ExpandOne, OneExpanded
<1>4. CASE s[src].st = "passed" /\ n = 0
  <2>1. ExpandOne(e, p, n) = [e EXCEPT !.steps[p].map = NoName]
    BY <1>4 DEF ExpandOne
  <2> DEFINE t == [s EXCEPT ![p] = [s[p] EXCEPT !.map = NoName]]
             f == ExpandOne(e, p, n)
  <2>2. f.order = e.order /\ f.steps = t
    BY <2>1
  <2>3. /\ DOMAIN t = DOMAIN s /\ \A x \in DOMAIN s \ {p} : t[x] = s[x]
        /\ t[p] = [s[p] EXCEPT !.map = NoName]
    OBVIOUS
  <2>4. /\ Sound(t[p]) /\ t[p].st = "pending" /\ t[p].parent = NoName /\ t[p].optional = s[p].optional
    <3>1. Sound(s[p]) /\ DOMAIN s[p] = StepFields
      BY DEF Family, Sound
    <3>2. /\ DOMAIN t[p] = StepFields /\ t[p].st = s[p].st /\ t[p].asks = s[p].asks
          /\ t[p].parent = s[p].parent /\ t[p].optional = s[p].optional
      BY <2>3, <3>1 DEF StepFields
    <3>3. QED
      BY <1>1, <3>1, <3>2 DEF Sound
  <2> HIDE DEF t
  <2>5. \A x \in DOMAIN s : t[x].parent = s[x].parent /\ t[x].st = s[x].st /\ t[x].optional = s[x].optional
    BY <1>1, <2>3, <2>4
  <2>6. \A x : ChildrenOf(t, x) = ChildrenOf(s, x)
    BY <2>3, <2>5 DEF ChildrenOf
  <2>7. \A x \in DOMAIN s : Stands(t, x)
    <3>1. SUFFICES ASSUME NEW x \in DOMAIN s PROVE Stands(t, x)
      OBVIOUS
    <3>2. Stands(s, x)
      BY DEF Family
    <3>3. CASE x = p
      BY <1>1, <2>4, <3>3 DEF Stands
    <3>4. CASE x # p
      <4>1. t[x] = s[x]
        BY <2>3, <3>4
      <4>2. QED
        BY <2>3, <2>5, <3>2, <4>1 DEF Stands, IsChild
    <3>5. QED
      BY <3>3, <3>4
  <2>8. Family(e.order, t)
    <3>1. Family(e.order, s)
      OBVIOUS
    <3>2. Lists(e.order, DOMAIN t)
      BY <2>3, <3>1 DEF Family
    <3>3. ASSUME NEW x \in DOMAIN t
          PROVE  Sound(t[x]) /\ x # NoName /\ (t[x].st = "expanded" => ChildrenOf(t, x) # {})
      <4>1. Sound(s[x]) /\ x # NoName /\ (s[x].st = "expanded" => ChildrenOf(s, x) # {})
        BY <2>3, <3>1 DEF Family
      <4>2. QED
        BY <2>3, <2>4, <2>5, <2>6, <4>1
    <3>4. QED
      BY <2>3, <2>7, <3>2, <3>3 DEF Family
  <2>9. QED
    BY <2>2, <2>3, <2>8 DEF OneExpanded
<1>5. CASE s[src].st = "passed" /\ n # 0
  <2>1. ExpandOne(e, p, n) = ExpandWith(e, p, [i \in 1 .. n |-> i], [i \in 1 .. n |-> {}])
    BY <1>5 DEF ExpandOne
  <2>2. Lists([i \in 1 .. n |-> i], 1 .. n)
    BY <1>0, NumbersList
  <2>3. 1 .. n # {} /\ 1 .. n \in SUBSET (1 .. MaxExpansion)
    BY <1>0, <1>5
  <2>4. QED
    BY <1>1, <2>1, <2>2, <2>3, ExpandWithKeeps DEF OneExpanded
<1>6. QED
  BY <1>2, <1>3, <1>4, <1>5

(* t has the steps of s: one that was pending may be expanded since, and   *)
(* what is new stands for one of these.                                    *)
Grown(s, t) ==
  /\ DOMAIN s \subseteq DOMAIN t
  /\ \A x \in DOMAIN s :
       \/ t[x] = s[x]
       \/ /\ s[x].st = "pending" /\ t[x].st \in {"pending", "expanded"}
          /\ t[x].parent = s[x].parent /\ t[x].optional = s[x].optional /\ t[x].deps = s[x].deps
  /\ \A x \in DOMAIN t \ DOMAIN s :
       t[x].st = "pending" /\ t[x].parent \in DOMAIN s /\ s[t[x].parent].st = "pending"

\* The steps go on growing when one more of them is expanded.
LEMMA OneMoreGrown ==
  ASSUME NEW s, NEW e, Grown(s, e.steps), NEW p \in DOMAIN s, Sound(s[p]), s[p].st = "pending",
         e.steps[p] = s[p], NEW f, OneExpanded(e, f, p)
  PROVE  Grown(s, f.steps) /\ \A x \in DOMAIN s \ {p} : f.steps[x] = e.steps[x]
<1> DEFINE t == e.steps  u == f.steps
<1>1. Grown(s, t) /\ t[p] = s[p]
  OBVIOUS
<1>2. \/ u = t
      \/ /\ DOMAIN u = DOMAIN t /\ \A x \in DOMAIN t \ {p} : u[x] = t[x]
         /\ u[p] = [t[p] EXCEPT !.map = NoName]
      \/ Expands(t, u, p)
  BY DEF OneExpanded
<1> HIDE DEF t, u
<1>3. DOMAIN s \subseteq DOMAIN t /\ DOMAIN s[p] = StepFields
  BY <1>1 DEF Grown, Sound
<1>4. CASE u = t
  BY <1>1, <1>4 DEF t, u
<1>5. CASE /\ DOMAIN u = DOMAIN t /\ \A x \in DOMAIN t \ {p} : u[x] = t[x]
           /\ u[p] = [t[p] EXCEPT !.map = NoName]
  <2>1. /\ u[p].st = s[p].st /\ u[p].parent = s[p].parent /\ u[p].optional = s[p].optional
        /\ u[p].deps = s[p].deps
    BY <1>1, <1>3, <1>5 DEF StepFields
  <2>2. Grown(s, u)
    <3>1. ASSUME NEW x \in DOMAIN s
          PROVE  \/ u[x] = s[x]
                 \/ /\ s[x].st = "pending" /\ u[x].st \in {"pending", "expanded"}
                    /\ u[x].parent = s[x].parent /\ u[x].optional = s[x].optional
                    /\ u[x].deps = s[x].deps
      <4>1. CASE x = p
        BY <2>1, <4>1
      <4>2. CASE x # p
        <5>1. u[x] = t[x]
          BY <1>3, <1>5, <4>2
        <5>2. QED
          BY <1>1, <5>1 DEF Grown
      <4>3. QED
        BY <4>1, <4>2
    <3>2. ASSUME NEW x \in DOMAIN u \ DOMAIN s PROVE x \in DOMAIN t \ DOMAIN s /\ u[x] = t[x]
      BY <1>5
    <3>3. QED
      BY <1>1, <1>3, <1>5, <3>1, <3>2 DEF Grown
  <2>3. QED
    BY <1>3, <1>5, <2>2 DEF t, u
<1>6. CASE Expands(t, u, p)
  <2>1. /\ DOMAIN t \subseteq DOMAIN u /\ \A x \in DOMAIN t \ {p} : u[x] = t[x]
        /\ u[p] = [t[p] EXCEPT !.st = "expanded"]
        /\ \A x \in DOMAIN u \ DOMAIN t : u[x].st = "pending" /\ u[x].parent = p
    BY <1>6 DEF Expands
  <2>2. /\ u[p].st = "expanded" /\ u[p].parent = s[p].parent /\ u[p].optional = s[p].optional
        /\ u[p].deps = s[p].deps
    BY <1>1, <1>3, <2>1 DEF StepFields
  <2>3. Grown(s, u)
    <3>1. ASSUME NEW x \in DOMAIN s
          PROVE  \/ u[x] = s[x]
                 \/ /\ s[x].st = "pending" /\ u[x].st \in {"pending", "expanded"}
                    /\ u[x].parent = s[x].parent /\ u[x].optional = s[x].optional
                    /\ u[x].deps = s[x].deps
      <4>1. CASE x = p
        BY <2>2, <4>1
      <4>2. CASE x # p
        <5>1. u[x] = t[x]
          BY <1>3, <2>1, <4>2
        <5>2. QED
          BY <1>1, <5>1 DEF Grown
      <4>3. QED
        BY <4>1, <4>2
    <3>2. ASSUME NEW x \in DOMAIN u \ DOMAIN s
          PROVE  u[x].st = "pending" /\ u[x].parent \in DOMAIN s /\ s[u[x].parent].st = "pending"
      <4>1. CASE x \in DOMAIN t
        <5>1. u[x] = t[x]
          BY <2>1, <4>1
        <5>2. QED
          BY <1>1, <4>1, <5>1 DEF Grown
      <4>2. CASE x \notin DOMAIN t
        BY <2>1, <4>2
      <4>3. QED
        BY <4>1, <4>2
    <3>3. DOMAIN s \subseteq DOMAIN u
      BY <1>3, <2>1
    <3>4. QED
      BY <3>1, <3>2, <3>3 DEF Grown
  <2>4. QED
    BY <1>3, <2>1, <2>3 DEF t, u
<1>7. QED
  BY <1>2, <1>4, <1>5, <1>6

GrowFrom(g, s, n, k) ==
  IF k = 0 THEN [order |-> order, steps |-> s]
  ELSE IF order[k] \in DOMAIN n THEN ExpandOne(g[k - 1], order[k], n[order[k]]) ELSE g[k - 1]
Grows(g, s, n, m) == g = [k \in 0 .. m |-> GrowFrom(g, s, n, k)]

\* What Expanded unfolds to.
LEMMA ExpandedUnfolds ==
  ASSUME NEW s, NEW n
  PROVE  Expanded(s, n) = (CHOOSE g : Grows(g, s, n, Len(order)))[Len(order)]
  BY DEF Expanded, Grows, GrowFrom

\* The expansions of the first steps of the order exist.
LEMMA GrowsExist == ASSUME NEW s, NEW n, NEW m \in Nat PROVE \E g : Grows(g, s, n, m)
<1> DEFINE P(k) == \E g : Grows(g, s, n, k)
           I == {k \in Nat : P(k)}
<1>1. 0 \in I
  <2> DEFINE g == [k \in 0 .. 0 |-> [order |-> order, steps |-> s]]
  <2>1. Grows(g, s, n, 0)
    BY DEF Grows, GrowFrom
  <2> HIDE DEF g
  <2>2. QED
    BY <2>1
<1>2. ASSUME NEW k \in I PROVE k + 1 \in I
  <2>1. PICK g : g = [j \in 0 .. k |-> GrowFrom(g, s, n, j)]
    BY DEF Grows
  <2> DEFINE h == [j \in 0 .. k + 1 |-> GrowFrom(g, s, n, j)]
  <2>2. ASSUME NEW j \in 0 .. k + 1 PROVE GrowFrom(g, s, n, j) = GrowFrom(h, s, n, j)
    <3>1. CASE j = 0
      BY <3>1 DEF GrowFrom
    <3>2. CASE j # 0
      <4>1. j - 1 \in 0 .. k /\ j - 1 \in 0 .. k + 1
        BY <3>2
      <4>2. h[j - 1] = g[j - 1]
        BY <2>1, <4>1, Zenon
      <4> HIDE DEF h
      <4>3. QED
        BY <4>2, Zenon DEF GrowFrom
    <3>3. QED
      BY <3>1, <3>2
  <2>3. h = [j \in 0 .. k + 1 |-> GrowFrom(h, s, n, j)]
    BY <2>2, Zenon
  <2> HIDE DEF h
  <2>4. P(k + 1)
    BY <2>3 DEF Grows
  <2>5. QED
    BY <2>4
<1> HIDE DEF P
<1>3. I \in SUBSET Nat
  OBVIOUS
<1>4. Nat \subseteq I
  <2> HIDE DEF I
  <2>1. QED
    BY <1>1, <1>2, <1>3, NatInd
<1>5. QED
  BY <1>4 DEF P

\* Expanding one step of a plan leaves a record of an order and steps.
LEMMA ExpandOneRecord ==
  ASSUME NEW e, DOMAIN e = {"order", "steps"}, NEW p, NEW n
  PROVE  DOMAIN ExpandOne(e, p, n) = {"order", "steps"}
  BY DEF ExpandOne, ExpandWith

\* The expansion of a pass: a family again, grown from the one before.
LEMMA ExpandedKeeps ==
  ASSUME NEW s, Family(order, s), NEW n, DOMAIN n = Mapped(s),
         \A p \in DOMAIN n : n[p] \in 0 .. MaxExpansion
  PROVE  /\ Family(Expanded(s, n).order, Expanded(s, n).steps)
         /\ Grown(s, Expanded(s, n).steps)
<1>1. PICK m \in Nat : m = Len(order) /\ DOMAIN order = 1 .. m
  BY LenProperties DEF Family, Lists
<1> DEFINE c == CHOOSE g : Grows(g, s, n, m)
<1>2. Grows(c, s, n, m)
  BY GrowsExist
<1> HIDE DEF c
<1>3. \A k \in 0 .. m : c[k] = GrowFrom(c, s, n, k)
  BY <1>2 DEF Grows
<1> DEFINE Good(k) == /\ DOMAIN c[k] = {"order", "steps"} /\ Family(c[k].order, c[k].steps)
                      /\ Grown(s, c[k].steps)
                      /\ \A j \in 1 .. m : j > k => c[k].steps[order[j]] = s[order[j]]
           I == {k \in Nat : k <= m => Good(k)}
<1>4. 0 \in I
  <2>1. c[0] = [order |-> order, steps |-> s]
    BY <1>3 DEF GrowFrom
  <2>2. Grown(s, s)
    BY DEF Grown
  <2>3. QED
    BY <2>1, <2>2
<1>5. ASSUME NEW k \in I PROVE k + 1 \in I
  <2>1. SUFFICES ASSUME k + 1 <= m PROVE Good(k + 1)
    OBVIOUS
  <2>2. Good(k) /\ k + 1 \in 1 .. m
    BY <2>1
  <2> DEFINE e == c[k]  p == order[k + 1]  f == c[k + 1]
  <2>3. f = IF p \in DOMAIN n THEN ExpandOne(e, p, n[p]) ELSE e
    <3> DEFINE i == k + 1
    <3>1. i \in 0 .. m /\ i # 0 /\ i - 1 = k
      BY <2>2
    <3>2. c[i] = GrowFrom(c, s, n, i)
      BY <1>3, <3>1
    <3> HIDE DEF i
    <3>3. c[i] = IF order[i] \in DOMAIN n THEN ExpandOne(c[k], order[i], n[order[i]]) ELSE c[k]
      BY <3>1, <3>2, Zenon DEF GrowFrom
    <3>4. QED
      BY <3>3 DEF i
  <2>4. /\ DOMAIN e = {"order", "steps"} /\ Family(e.order, e.steps) /\ Grown(s, e.steps)
        /\ \A j \in 1 .. m : j > k => e.steps[order[j]] = s[order[j]]
    BY <2>2
  <2>5. p \in DOMAIN s /\ e.steps[p] = s[p]
    <3>1. order[k + 1] \in DOMAIN s
      BY <1>1, <2>2 DEF Family, Lists, ToSet
    <3>2. k + 1 > k
      OBVIOUS
    <3>3. QED
      BY <2>2, <2>4, <3>1, <3>2
  <2>6. \A j \in 1 .. m : j > k + 1 => order[j] \in DOMAIN s \ {p} /\ j > k
    BY <1>1, <2>2 DEF Family, Lists, Injective, ToSet
  <2> HIDE DEF e, p, f
  <2>7. CASE p \in DOMAIN n
    <3>1. s[p].st = "pending" /\ s[p].map \in DOMAIN s /\ Sound(s[p])
      BY <2>7 DEF Mapped, Family
    <3>2. DOMAIN s \subseteq DOMAIN e.steps
      BY <2>4 DEF Grown
    <3>3. OneExpanded(e, f, p)
      BY <2>3, <2>4, <2>5, <2>7, <3>1, <3>2, ExpandOneKeeps
    <3>4. Grown(s, f.steps) /\ \A x \in DOMAIN s \ {p} : f.steps[x] = e.steps[x]
      BY <2>4, <2>5, <3>1, <3>3, OneMoreGrown
    <3>5. DOMAIN f = {"order", "steps"} /\ Family(f.order, f.steps)
      BY <2>3, <2>4, <2>7, <3>3, ExpandOneRecord DEF OneExpanded
    <3>6. ASSUME NEW j \in 1 .. m, j > k + 1 PROVE f.steps[order[j]] = s[order[j]]
      BY <2>4, <2>6, <3>4, <3>6
    <3>7. QED
      BY <3>4, <3>5, <3>6 DEF f
  <2>8. CASE p \notin DOMAIN n
    <3>1. f = e
      BY <2>3, <2>8
    <3>2. \A j \in 1 .. m : j > k + 1 => f.steps[order[j]] = s[order[j]]
      BY <2>4, <2>6, <3>1
    <3>3. QED
      BY <2>4, <3>1, <3>2 DEF f
  <2>9. QED
    BY <2>7, <2>8
<1>6. Good(m)
  <2>1. I \in SUBSET Nat
    OBVIOUS
  <2> HIDE DEF I
  <2>2. Nat \subseteq I
    BY <1>4, <1>5, <2>1, NatInd
  <2> HIDE DEF Good
  <2>3. QED
    BY <2>2 DEF I
<1>7. Expanded(s, n) = c[m]
  BY <1>1, ExpandedUnfolds DEF c
<1>8. QED
  BY <1>6, <1>7

-----------------------------------------------------------------------------
(* What the nodes keep of a plan.                                          *)
Done == {"ran", "awaiting", "passed"}
DepsMet(s) == \A x \in DOMAIN s : s[x].st \in Done => \A d \in s[x].deps : Satisfied(s, d)

(* What passed or was expanded in s is so in t, and new steps stand for    *)
(* those that were waiting.                                                *)
Keeps(s, t) ==
  /\ DOMAIN s \subseteq DOMAIN t
  /\ \A x \in DOMAIN s :
       /\ t[x].parent = s[x].parent /\ t[x].optional = s[x].optional
       /\ s[x].st = "passed" => t[x].st = "passed"
       /\ s[x].st = "expanded" => t[x].st = "expanded"
  /\ \A x \in DOMAIN t \ DOMAIN s : t[x].parent \in DOMAIN s /\ s[t[x].parent].st = "pending"

(* A step whose state and result change, but not its place in the plan.    *)
Changed(r, q) ==
  /\ Sound(q) /\ q.deps = r.deps /\ q.map = r.map /\ q.optional = r.optional /\ q.parent = r.parent
  /\ (q.st = "expanded") = (r.st = "expanded") /\ (r.st = "passed" => q.st = "passed")
Updated(s, t) == DOMAIN t = DOMAIN s /\ \A x \in DOMAIN s : Changed(s[x], t[x])

\* A dependency that is satisfied stays so.
LEMMA SatisfiedStays ==
  ASSUME NEW s, NEW t, Keeps(s, t), NEW d, Satisfied(s, d)
  PROVE  Satisfied(t, d)
<1>1. d \in DOMAIN s /\ d \in DOMAIN t
  BY DEF Satisfied, Keeps
<1>2. CASE s[d].st = "passed"
  BY <1>1, <1>2 DEF Satisfied, Keeps
<1>3. CASE s[d].st # "passed"
  <2>1. /\ s[d].st = "expanded" /\ ChildrenOf(s, d) # {}
        /\ \A x \in ChildrenOf(s, d) : s[x].st = "passed"
    BY <1>3 DEF Satisfied
  <2>2. t[d].st = "expanded"
    BY <1>1, <2>1 DEF Keeps
  <2>3. ASSUME NEW x \in DOMAIN t, t[x].parent = d PROVE x \in DOMAIN s /\ s[x].parent = d
    <3>1. x \in DOMAIN s
      BY <2>1, <2>3 DEF Keeps
    <3>2. QED
      BY <2>3, <3>1 DEF Keeps
  <2>4. ASSUME NEW x \in DOMAIN s, s[x].parent = d PROVE x \in DOMAIN t /\ t[x].parent = d
    BY <2>4 DEF Keeps
  <2>5. ChildrenOf(t, d) = ChildrenOf(s, d)
    BY <2>3, <2>4 DEF ChildrenOf
  <2>6. \A x \in ChildrenOf(s, d) : t[x].st = "passed"
    BY <2>1 DEF Keeps, ChildrenOf
  <2>7. QED
    BY <1>1, <2>1, <2>2, <2>5, <2>6, Zenon DEF Satisfied
<1>4. QED
  BY <1>2, <1>3

\* A plan whose steps change in place is the family it was.
LEMMA UpdatedKeeps ==
  ASSUME NEW o, NEW s, Family(o, s), NEW t, Updated(s, t)
  PROVE  Family(o, t) /\ Keeps(s, t)
<1>1. DOMAIN t = DOMAIN s
  BY DEF Updated
<1>2. \A x \in DOMAIN s :
        /\ Sound(t[x]) /\ t[x].map = s[x].map /\ t[x].optional = s[x].optional
        /\ t[x].parent = s[x].parent /\ (t[x].st = "expanded") = (s[x].st = "expanded")
        /\ s[x].st = "passed" => t[x].st = "passed"
  BY DEF Updated, Changed
<1>3. Keeps(s, t)
  BY <1>1, <1>2 DEF Keeps
<1>4. ASSUME NEW x \in DOMAIN t
      PROVE  Sound(t[x]) /\ x # NoName /\ Stands(t, x) /\ (t[x].st = "expanded" => ChildrenOf(t, x) # {})
  <2>1. Sound(s[x]) /\ x # NoName /\ Stands(s, x) /\ (s[x].st = "expanded" => ChildrenOf(s, x) # {})
    BY <1>1 DEF Family
  <2>2. Stands(t, x)
    BY <1>1, <1>2, <2>1 DEF Stands, IsChild
  <2>3. ChildrenOf(t, x) = ChildrenOf(s, x)
    BY <1>1, <1>2 DEF ChildrenOf
  <2>4. QED
    BY <1>1, <1>2, <2>1, <2>2, <2>3
<1>5. Lists(o, DOMAIN t)
  BY <1>1 DEF Family
<1>6. QED
  BY <1>3, <1>4, <1>5 DEF Family

\* A plan that grew keeps what it had.
LEMMA GrownKeeps == ASSUME NEW s, NEW t, Grown(s, t) PROVE Keeps(s, t)
<1>1. ASSUME NEW x \in DOMAIN s
      PROVE  /\ t[x].parent = s[x].parent /\ t[x].optional = s[x].optional
             /\ s[x].st = "passed" => t[x].st = "passed"
             /\ s[x].st = "expanded" => t[x].st = "expanded"
  BY DEF Grown
<1>2. QED
  BY <1>1 DEF Grown, Keeps

\* The dependencies of what ran are met, if they were met when it started.
LEMMA DepsStayMet ==
  ASSUME NEW s, NEW t, Keeps(s, t), DepsMet(s),
         \A x \in DOMAIN t : t[x].st \in Done =>
           /\ x \in DOMAIN s /\ t[x].deps = s[x].deps
           /\ s[x].st \in Done \/ \A d \in s[x].deps : Satisfied(s, d)
  PROVE  DepsMet(t)
<1>1. SUFFICES ASSUME NEW x \in DOMAIN t, t[x].st \in Done, NEW d \in t[x].deps PROVE Satisfied(t, d)
  BY DEF DepsMet
<1>2. x \in DOMAIN s /\ d \in s[x].deps /\ (s[x].st \in Done \/ \A c \in s[x].deps : Satisfied(s, c))
  BY <1>1
<1>3. Satisfied(s, d)
  BY <1>2 DEF DepsMet
<1>4. QED
  BY <1>3, SatisfiedStays

-----------------------------------------------------------------------------
(* The inductive invariant.                                                *)
(* A turn walks its plan, or the conversation carries one that is not      *)
(* finished: the plan that was made, with its steps in place.              *)
Walking == {"dispatcher", "verifier", "synthesizer", "pause"}
Planning == {"planner", "replanner", "planned"}
Carries == phase \in Walking \/ HasPendingPlan

(* The steps that were planned are steps of the plan.                      *)
Kept(s) ==
  /\ raw \in Explored
  /\ \A k \in DOMAIN PlanOf(raw) : /\ PlanOf(raw)[k].id \in DOMAIN s
                                   /\ s[PlanOf(raw)[k].id].optional = PlanOf(raw)[k].optional
(* A step was handed to a worker once, once more for every retry cycle and *)
(* once more for every batch that was lost; what waits for its worker has  *)
(* a start to come, and so has a child whose plan was never saved.         *)
Due(s, i, x) == IF x \in DOMAIN s THEN i + IF s[x].st = "pending" THEN 0 ELSE 1 ELSE 0
Paid(s, a, i, l) == \A x \in DOMAIN a : a[x] \in Nat /\ a[x] <= l + Due(s, i, x)
(* A step whose action was executed is past its worker for good.           *)
Past(r) ==
  \/ r.st \in {"awaiting", "passed", "skipped"}
  \/ r.st \in {"ran", "failed"} /\ r.noRetry = TRUE
  \/ r.st = "ran" /\ r.res = "executed"
Settled(s, A) == \A x \in A : x \in DOMAIN s /\ Past(s[x])
(* The batches of this cycle are of steps that do not wait any more.       *)
Old(s, B, i) ==
  \A b \in B : /\ b[1] \in Nat /\ b[1] <= i /\ b[2] # {}
               /\ b[1] = i => \A x \in b[2] : x \in DOMAIN s /\ s[x].st # "pending"

PlanIInv ==
  /\ phase \in Phases /\ iter \in 0 .. MaxIterations /\ mode \in {"normal", "degraded", "finalizing"}
  /\ Family(order, step) /\ DepsMet(step)
  /\ lost \in Nat /\ AttemptsBounded /\ AbandonedPlanNeverRuns
  /\ phase \in {"router"} \cup Planning => batches = {}
  /\ phase \in Planning => ~HasPendingPlan
  /\ phase \in Planning \ {"planner"} => DOMAIN attempts = {}
  /\ phase \in Walking => Old(step, batches, iter)
  /\ Carries => Kept(step) /\ Paid(step, attempts, iter, lost) /\ Settled(step, acted)

-----------------------------------------------------------------------------
(* What the parts of a pass do to the steps.                               *)
\* Trimmed leaves out steps that were waiting.
LEMMA TrimmedUpdates ==
  ASSUME NEW s, \A x \in DOMAIN s : Sound(s[x])
  PROVE  /\ Updated(s, Trimmed(s))
         /\ \A x \in DOMAIN s : \/ Trimmed(s)[x] = s[x]
                                \/ s[x].st = "pending" /\ Trimmed(s)[x].st = "skipped"
<1> DEFINE t == Trimmed(s)
<1>1. DOMAIN t = DOMAIN s
  BY DEF Trimmed
<1>2. ASSUME NEW x \in DOMAIN s
      PROVE  Changed(s[x], t[x]) /\ (t[x] = s[x] \/ (s[x].st = "pending" /\ t[x].st = "skipped"))
  <2> DEFINE r == s[x]
  <2>1. Sound(r) /\ DOMAIN r = StepFields
    BY DEF Sound
  <2>2. \/ t[x] = r
        \/ r.st = "pending" /\ t[x] = [r EXCEPT !.st = "skipped", !.res = "left out"]
    BY DEF Trimmed
  <2> HIDE DEF r, t
  <2>3. CASE t[x] = r
    BY <2>1, <2>3 DEF Changed, r
  <2>4. CASE r.st = "pending" /\ t[x] = [r EXCEPT !.st = "skipped", !.res = "left out"]
    <3>1. /\ DOMAIN t[x] = StepFields /\ t[x].st = "skipped" /\ t[x].asks = r.asks /\ t[x].deps = r.deps
          /\ t[x].map = r.map /\ t[x].optional = r.optional /\ t[x].parent = r.parent
      BY <2>1, <2>4 DEF StepFields
    <3>2. QED
      BY <2>1, <2>4, <3>1 DEF Changed, Sound, Sts, r
  <2>5. QED
    BY <2>2, <2>3, <2>4
<1>3. QED
  BY <1>1, <1>2 DEF Updated

\* A judged step differs in whether it may be tried again.
LEMMA JudgedChanges ==
  ASSUME NEW r, Sound(r)
  PROVE  /\ Changed(r, Judged(r)) /\ Judged(r).st = r.st /\ Judged(r).res = r.res
         /\ DOMAIN Judged(r) = StepFields /\ Judged(r).asks = r.asks
         /\ r.noRetry = TRUE => Judged(r).noRetry = TRUE
<1>1. DOMAIN r = StepFields
  BY DEF Sound
<1>2. Judged(r) = r \/ (r.st = "failed" /\ Judged(r) = [r EXCEPT !.noRetry = TRUE])
  BY DEF Judged
<1>3. CASE Judged(r) = r
  BY <1>1, <1>3 DEF Changed
<1>4. CASE r.st = "failed" /\ Judged(r) = [r EXCEPT !.noRetry = TRUE]
  <2> DEFINE q == Judged(r)
  <2>1. /\ DOMAIN q = StepFields /\ q.st = r.st /\ q.asks = r.asks /\ q.deps = r.deps /\ q.res = r.res
        /\ q.map = r.map /\ q.optional = r.optional /\ q.parent = r.parent /\ q.noRetry = TRUE
    BY <1>1, <1>4 DEF StepFields
  <2> HIDE DEF q
  <2>2. QED
    BY <2>1 DEF Changed, Sound, q
<1>5. QED
  BY <1>2, <1>3, <1>4

\* What a retry does to a step: nothing, or it waits again, in a new cycle.
Retried(r, q, again) ==
  \/ q.st = r.st /\ q.res = r.res /\ (r.noRetry = TRUE => q.noRetry = TRUE)
  \/ again /\ r.st = "failed" /\ q.st = "pending" /\ ~(r.noRetry = TRUE)

\* A cycle of retries is counted when a step waits again, and only while cycles are left.
LEMMA PreparedUpdates ==
  ASSUME NEW s, \A x \in DOMAIN s : Sound(s[x]), iter \in 0 .. MaxIterations
  PROVE  /\ Updated(s, Prepared(s).steps)
         /\ Prepared(s).iter \in {iter, iter + 1} /\ Prepared(s).iter <= MaxIterations
         /\ \A x \in DOMAIN s : Retried(s[x], Prepared(s).steps[x], Prepared(s).iter = iter + 1)
<1> DEFINE judged == [x \in DOMAIN s |-> Judged(s[x])]
           p == Prepared(s)
           stay == iter >= MaxIterations \/ \A x \in DOMAIN s : ~Retryable(judged[x])
<1>0. MaxIterations \in Nat
  BY PlanAssumption
<1>1. \A x \in DOMAIN s :
        /\ Changed(s[x], judged[x]) /\ judged[x].st = s[x].st /\ judged[x].res = s[x].res
        /\ DOMAIN judged[x] = StepFields /\ judged[x].asks = s[x].asks
        /\ s[x].noRetry = TRUE => judged[x].noRetry = TRUE
  BY JudgedChanges
<1>2. DOMAIN judged = DOMAIN s
  OBVIOUS
<1>3. p = IF stay THEN [steps |-> judged, iter |-> iter]
          ELSE [steps |-> [x \in DOMAIN s |->
                  IF Retryable(judged[x])
                  THEN [judged[x] EXCEPT !.st = "pending", !.guidance = judged[x].reason]
                  ELSE judged[x]],
                iter |-> iter + 1]
  BY DEF Prepared
<1>4. ~stay => iter < MaxIterations
  BY <1>0
<1> HIDE DEF judged, p, stay
<1>5. CASE stay
  <2>1. p.steps = judged /\ p.iter = iter
    BY <1>3, <1>5
  <2>2. Updated(s, p.steps) /\ \A x \in DOMAIN s : Retried(s[x], p.steps[x], p.iter = iter + 1)
    BY <1>1, <1>2, <2>1 DEF Updated, Retried
  <2>3. QED
    BY <2>1, <2>2 DEF p
<1>6. CASE ~stay
  <2> DEFINE t == p.steps
  <2>1. /\ t = [x \in DOMAIN s |->
                  IF Retryable(judged[x])
                  THEN [judged[x] EXCEPT !.st = "pending", !.guidance = judged[x].reason]
                  ELSE judged[x]]
        /\ p.iter = iter + 1
    BY <1>3, <1>6
  <2> HIDE DEF t
  <2>2. ASSUME NEW x \in DOMAIN s PROVE Changed(s[x], t[x]) /\ Retried(s[x], t[x], TRUE)
    <3>0. Sound(s[x])
      OBVIOUS
    <3> DEFINE j == judged[x]
    <3>1. /\ Changed(s[x], j) /\ j.st = s[x].st /\ j.res = s[x].res /\ DOMAIN j = StepFields
          /\ j.asks = s[x].asks /\ (s[x].noRetry = TRUE => j.noRetry = TRUE)
      BY <1>1
    <3>2. t[x] = IF Retryable(j) THEN [j EXCEPT !.st = "pending", !.guidance = j.reason] ELSE j
      BY <2>1
    <3> HIDE DEF j
    <3>3. CASE ~Retryable(j)
      BY <3>1, <3>2, <3>3 DEF Retried
    <3>4. CASE Retryable(j)
      <4>1. j.st = "failed" /\ ~j.noRetry /\ t[x] = [j EXCEPT !.st = "pending", !.guidance = j.reason]
        BY <3>2, <3>4 DEF Retryable
      <4>2. /\ DOMAIN t[x] = StepFields /\ t[x].st = "pending" /\ t[x].asks = j.asks /\ t[x].deps = j.deps
            /\ t[x].map = j.map /\ t[x].optional = j.optional /\ t[x].parent = j.parent
        BY <3>1, <4>1 DEF StepFields
      <4>3. ~(s[x].noRetry = TRUE)
        BY <3>1, <4>1
      <4>4. QED
        BY <3>0, <3>1, <4>1, <4>2, <4>3 DEF Changed, Sound, Sts, Retried
    <3>5. QED
      BY <3>3, <3>4
  <2>3. DOMAIN t = DOMAIN s
    BY <2>1
  <2>4. p.iter <= MaxIterations
    <3>1. PICK i \in Nat : i = iter /\ i < MaxIterations
      BY <1>0, <1>4, <1>6
    <3>2. p.iter = i + 1
      BY <2>1, <3>1
    <3> HIDE DEF p
    <3>3. QED
      BY <1>0, <3>1, <3>2
  <2>5. QED
    BY <2>1, <2>2, <2>3, <2>4 DEF Updated, t, p, Retried
<1>7. QED
  BY <1>5, <1>6

-----------------------------------------------------------------------------
(* What a plan carries from node to node.                                  *)
Carried(o, s, a, i, l, A, B) ==
  Family(o, s) /\ DepsMet(s) /\ Kept(s) /\ Paid(s, a, i, l) /\ Settled(s, A) /\ Old(s, B, i)

(* A step goes on: it does not wait again but in a new cycle, an executed  *)
(* action stays behind it, and it does not run.                            *)
Follows(r, q, again) ==
  /\ q.st = "pending" => r.st = "pending" \/ again
  /\ Past(r) => Past(q)
  /\ q.st \in Done => r.st \in Done

\* The steps that were planned stay in a plan that keeps them.
LEMMA KeptStays == ASSUME NEW s, NEW t, Kept(s), Keeps(s, t) PROVE Kept(t)
  BY DEF Kept, Keeps

\* A plan is carried on when its steps go on.
LEMMA CarriedOn ==
  ASSUME NEW o, NEW s, NEW a, NEW i \in Nat, NEW l \in Nat, NEW A, NEW B,
         Carried(o, s, a, i, l, A, B),
         NEW t, Updated(s, t), NEW j \in {i, i + 1},
         \A x \in DOMAIN s : Follows(s[x], t[x], j = i + 1)
  PROVE  Carried(o, t, a, j, l, A, B)
<1>1. Family(o, s) /\ DepsMet(s) /\ Kept(s) /\ Paid(s, a, i, l) /\ Settled(s, A) /\ Old(s, B, i)
  BY DEF Carried
<1>2. Family(o, t) /\ Keeps(s, t) /\ DOMAIN t = DOMAIN s
  BY <1>1, UpdatedKeeps DEF Updated
<1>3. \A x \in DOMAIN s : /\ t[x].st = "pending" => s[x].st = "pending" \/ j = i + 1
                          /\ Past(s[x]) => Past(t[x])
                          /\ t[x].st \in Done => s[x].st \in Done
                          /\ t[x].deps = s[x].deps
  BY DEF Follows, Updated, Changed
<1>4. DepsMet(t)
  BY <1>1, <1>2, <1>3, DepsStayMet
<1>5. Kept(t)
  BY <1>1, <1>2, KeptStays
<1>6. Paid(t, a, j, l)
  <2>1. ASSUME NEW x \in DOMAIN a PROVE a[x] \in Nat /\ a[x] <= l + Due(t, j, x)
    <3>1. PICK m \in Nat : m = a[x] /\ m <= l + Due(s, i, x)
      BY <1>1 DEF Paid
    <3>2. x \in DOMAIN s /\ t[x].st = "pending" => s[x].st = "pending" \/ j = i + 1
      BY <1>3
    <3>3. m <= l + Due(t, j, x)
      BY <1>2, <3>1, <3>2 DEF Due
    <3>4. QED
      BY <3>1, <3>3
  <2>2. QED
    BY <2>1 DEF Paid
<1>7. Settled(t, A)
  BY <1>1, <1>2, <1>3 DEF Settled
<1>8. Old(t, B, j)
  <2>1. ASSUME NEW b \in B
        PROVE  /\ b[1] \in Nat /\ b[1] <= j /\ b[2] # {}
               /\ b[1] = j => \A x \in b[2] : x \in DOMAIN t /\ t[x].st # "pending"
    <3>1. PICK m \in Nat : m = b[1] /\ m <= i /\ b[2] # {}
      BY <1>1 DEF Old
    <3>2. m <= j /\ (m = j => m = i /\ ~(j = i + 1))
      BY <3>1
    <3>3. m = i => \A x \in b[2] : x \in DOMAIN s /\ s[x].st # "pending"
      BY <1>1, <3>1 DEF Old
    <3>4. QED
      BY <1>2, <1>3, <3>1, <3>2, <3>3
  <2>2. QED
    BY <2>1 DEF Old
<1>9. QED
  BY <1>2, <1>4, <1>5, <1>6, <1>7, <1>8 DEF Carried

\* A plan is carried on when it grows.
LEMMA CarriedGrown ==
  ASSUME NEW o, NEW s, NEW a, NEW i \in Nat, NEW l \in Nat, NEW A, NEW B,
         Carried(o, s, a, i, l, A, B),
         NEW q, NEW t, Family(q, t), Grown(s, t)
  PROVE  Carried(q, t, a, i, l, A, B)
<1>1. DepsMet(s) /\ Kept(s) /\ Paid(s, a, i, l) /\ Settled(s, A) /\ Old(s, B, i)
  BY DEF Carried
<1>2. Keeps(s, t) /\ DOMAIN s \subseteq DOMAIN t
  BY GrownKeeps DEF Grown
<1>3. \A x \in DOMAIN s : t[x] = s[x] \/ (s[x].st = "pending" /\ t[x].st \in {"pending", "expanded"})
  BY DEF Grown
<1>4. \A x \in DOMAIN t \ DOMAIN s : t[x].st = "pending"
  BY DEF Grown
<1>5. DepsMet(t)
  BY <1>1, <1>2, <1>3, <1>4, DepsStayMet DEF Done
<1>6. Kept(t)
  BY <1>1, <1>2, KeptStays
<1>7. Paid(t, a, i, l)
  <2>1. ASSUME NEW x \in DOMAIN a PROVE a[x] \in Nat /\ a[x] <= l + Due(t, i, x)
    <3>1. PICK m \in Nat : m = a[x] /\ m <= l + Due(s, i, x)
      BY <1>1 DEF Paid
    <3>2. Due(s, i, x) <= Due(t, i, x) /\ Due(s, i, x) \in Nat /\ Due(t, i, x) \in Nat
      BY <1>2, <1>3, <1>4 DEF Due
    <3>3. QED
      BY <3>1, <3>2
  <2>2. QED
    BY <2>1 DEF Paid
<1>8. Settled(t, A)
  BY <1>1, <1>2, <1>3 DEF Settled, Past
<1>9. Old(t, B, i)
  BY <1>1, <1>2, <1>3 DEF Old
<1>10. QED
  BY <1>5, <1>6, <1>7, <1>8, <1>9 DEF Carried

(* The steps X of s, which were ready, have run in t.                      *)
BatchRuns(s, X, t) ==
  /\ X \in SUBSET DOMAIN s /\ X # {}
  /\ \A x \in X : s[x].st = "pending" /\ \A d \in s[x].deps : Satisfied(s, d)
  /\ Updated(s, t) /\ \A x \in DOMAIN s \ X : t[x] = s[x]
  /\ \A x \in X : t[x].st \in {"ran", "awaiting"}

(* The steps X are handed to their workers r times.                        *)
Handed(a, X, r) ==
  [x \in X \cup DOMAIN a |-> (IF x \in DOMAIN a THEN a[x] ELSE 0) + IF x \in X THEN r ELSE 0]

\* What a batch of the plan costs its steps: r batches that are lost ...
LEMMA LostIsPaid ==
  ASSUME NEW s, NEW a, NEW i \in Nat, NEW l \in Nat, Paid(s, a, i, l), NEW X, NEW r \in Nat
  PROVE  Paid(s, Handed(a, X, r), i, l + r)
<1> DEFINE c == Handed(a, X, r)
<1>1. DOMAIN c = X \cup DOMAIN a
  BY DEF Handed
<1>2. ASSUME NEW x \in DOMAIN c PROVE c[x] \in Nat /\ c[x] <= l + r + Due(s, i, x)
  <2>1. Due(s, i, x) \in Nat
    BY DEF Due
  <2>2. PICK m \in Nat : /\ m = IF x \in DOMAIN a THEN a[x] ELSE 0
                         /\ m <= l + Due(s, i, x)
    BY <2>1 DEF Paid
  <2>3. c[x] = m + IF x \in X THEN r ELSE 0
    BY <1>1, <2>2 DEF Handed
  <2> HIDE DEF c
  <2>4. QED
    BY <2>1, <2>2, <2>3
<1> HIDE DEF c
<1>3. QED
  BY <1>2 DEF Paid, c

\* ... or the start that was to come, and those that are lost.
LEMMA BatchIsPaid ==
  ASSUME NEW s, NEW a, NEW i \in Nat, NEW l \in Nat, Paid(s, a, i, l), NEW X, NEW r \in Nat \ {0},
         NEW t, DOMAIN t = DOMAIN s, X \subseteq DOMAIN s, \A x \in DOMAIN s \ X : t[x] = s[x],
         \A x \in X : s[x].st = "pending" /\ t[x].st # "pending"
  PROVE  Paid(t, Handed(a, X, r), i, l + r - 1)
<1> DEFINE c == Handed(a, X, r)
<1>1. DOMAIN c = X \cup DOMAIN a
  BY DEF Handed
<1>2. ASSUME NEW x \in DOMAIN c PROVE c[x] \in Nat /\ c[x] <= l + r - 1 + Due(t, i, x)
  <2>1. Due(s, i, x) \in Nat /\ Due(t, i, x) = Due(s, i, x) + IF x \in X THEN 1 ELSE 0
    BY DEF Due
  <2>2. PICK m \in Nat : /\ m = IF x \in DOMAIN a THEN a[x] ELSE 0
                         /\ m <= l + Due(s, i, x)
    BY <2>1 DEF Paid
  <2>3. c[x] = m + IF x \in X THEN r ELSE 0
    BY <1>1, <2>2 DEF Handed
  <2> HIDE DEF c
  <2>4. QED
    BY <2>1, <2>2, <2>3
<1> HIDE DEF c
<1>3. QED
  BY <1>2 DEF Paid, c

\* No step is handed to a worker more often than that.
LEMMA PaidBounds ==
  ASSUME NEW s, NEW a, NEW i \in 0 .. MaxIterations, NEW l \in Nat, Paid(s, a, i, l), NEW x \in DOMAIN a
  PROVE  a[x] <= 1 + MaxIterations + l
<1>1. MaxIterations \in Nat
  BY PlanAssumption
<1>2. PICK m \in Nat, j \in Nat : m = a[x] /\ j = i /\ j <= MaxIterations
  BY <1>1 DEF Paid
<1>3. m <= l + Due(s, j, x)
  BY <1>2 DEF Paid
<1>4. Due(s, j, x) \in Nat /\ Due(s, j, x) <= j + 1
  BY DEF Due
<1>5. m <= 1 + MaxIterations + l
  BY <1>1, <1>2, <1>3, <1>4
<1>6. QED
  BY <1>2, <1>5

\* A batch that waits is a new one, and none of its steps has acted.
LEMMA NewBatch ==
  ASSUME NEW o, NEW s, NEW a, NEW i, NEW l, NEW A, NEW B, Carried(o, s, a, i, l, A, B),
         NEW X, X # {}, \A x \in X : x \in DOMAIN s /\ s[x].st = "pending"
  PROVE  <<i, X>> \notin B /\ X \cap A = {}
<1>1. Settled(s, A) /\ Old(s, B, i)
  BY DEF Carried
<1>2. X \cap A = {}
  BY <1>1 DEF Settled, Past
<1>3. SUFFICES ASSUME <<i, X>> \in B PROVE FALSE
  BY <1>2
<1>4. \A x \in X : s[x].st # "pending"
  BY <1>1, <1>3 DEF Old
<1>5. QED
  BY <1>4

\* A plan is carried on when a batch of it runs.
LEMMA CarriedBatch ==
  ASSUME NEW o, NEW s, NEW a, NEW i \in Nat, NEW l \in Nat, NEW A, NEW B,
         Carried(o, s, a, i, l, A, B), NEW X, NEW t, BatchRuns(s, X, t), NEW r \in Nat \ {0}
  PROVE  Carried(o, t, Handed(a, X, r), i, l + r - 1, A, B \cup {<<i, X>>})
<1>0. /\ X \in SUBSET DOMAIN s /\ X # {}
      /\ \A x \in X : s[x].st = "pending" /\ \A d \in s[x].deps : Satisfied(s, d)
      /\ Updated(s, t) /\ \A x \in DOMAIN s \ X : t[x] = s[x]
      /\ \A x \in X : t[x].st \in {"ran", "awaiting"}
  BY DEF BatchRuns
<1> USE <1>0
<1>1. Family(o, s) /\ DepsMet(s) /\ Kept(s) /\ Paid(s, a, i, l) /\ Settled(s, A) /\ Old(s, B, i)
  BY DEF Carried
<1>2. Family(o, t) /\ Keeps(s, t) /\ DOMAIN t = DOMAIN s /\ \A x \in DOMAIN s : t[x].deps = s[x].deps
  BY <1>1, UpdatedKeeps DEF Updated, Changed
<1>3. DepsMet(t)
  BY <1>1, <1>2, DepsStayMet
<1>4. Kept(t)
  BY <1>1, <1>2, KeptStays
<1>5. Paid(t, Handed(a, X, r), i, l + r - 1)
  BY <1>1, <1>2, BatchIsPaid
<1>6. X \cap A = {}
  BY NewBatch
<1>7. Settled(t, A)
  BY <1>1, <1>2, <1>6 DEF Settled
<1>9. Old(t, B \cup {<<i, X>>}, i)
  <2>1. ASSUME NEW b \in B
        PROVE  /\ b[1] \in Nat /\ b[1] <= i /\ b[2] # {}
               /\ b[1] = i => \A x \in b[2] : x \in DOMAIN t /\ t[x].st # "pending"
    BY <1>1, <1>2, <2>1 DEF Old
  <2>2. \A x \in X : x \in DOMAIN t /\ t[x].st # "pending"
    BY <1>2
  <2>3. QED
    BY <2>1, <2>2 DEF Old
<1>10. QED
  BY <1>2, <1>3, <1>4, <1>5, <1>7, <1>9 DEF Carried

\* A step that stays as it is goes on.
LEMMA SameFollows == ASSUME NEW r, Sound(r), NEW again PROVE Changed(r, r) /\ Follows(r, r, again)
  BY DEF Changed, Follows

\* A step that is resumed waits on, or is past its worker.
LEMMA ResumedChanges ==
  ASSUME NEW r, Sound(r), r.st = "awaiting", NEW again,
         NEW a \in [e : {"none", "wait", "answered", "refused"},
                    c : {"none", "wait", "run", "elicit", "abort"}],
         (a.e = "none") = ("elicit" \notin r.asks),
         (a.c = "none") = ("confirm" \notin r.asks \/ a.e \in {"wait", "refused"})
  PROVE  /\ Changed(r, Resumed(r, a)) /\ Follows(r, Resumed(r, a), again) /\ Past(Resumed(r, a))
         /\ Resumed(r, a).st \in {"awaiting", "ran", "failed"}
<1> DEFINE asked == IF a.e = "none" THEN r ELSE [r EXCEPT !.noRetry = TRUE, !.asks = @ \ {"elicit"}]
           Failed == [asked EXCEPT !.st = "failed", !.noRetry = TRUE, !.reason = "ended", !.asks = {}]
           q == Resumed(r, a)
<1>0. DOMAIN r = StepFields /\ r.asks \subseteq {"confirm", "elicit"} /\ r.asks # {}
  BY DEF Sound
<1>1. q = IF a.e = "wait" THEN r
          ELSE IF a.e = "refused" \/ a.c = "abort" THEN Failed
          ELSE CASE a.c = "none"   -> [asked EXCEPT !.st = "ran", !.res = "output"]
                 [] a.c = "run"    -> [asked EXCEPT !.st = "ran", !.res = "executed", !.asks = {}]
                 [] a.c = "elicit" -> [asked EXCEPT !.asks = {"elicit"}]
                 [] OTHER          -> asked
  BY DEF Resumed
<1>2. /\ DOMAIN asked = StepFields /\ asked.st = "awaiting" /\ asked.deps = r.deps /\ asked.map = r.map
      /\ asked.optional = r.optional /\ asked.parent = r.parent
      /\ asked.asks = IF a.e = "none" THEN r.asks ELSE r.asks \ {"elicit"}
      /\ a.e # "none" => asked.noRetry = TRUE
  BY <1>0 DEF StepFields
<1> HIDE DEF asked, q
<1>3. /\ DOMAIN q = StepFields /\ q.deps = r.deps /\ q.map = r.map /\ q.optional = r.optional
      /\ q.parent = r.parent
  BY <1>0, <1>1, <1>2 DEF StepFields
<1>4. \/ q = r
      \/ q = Failed
      \/ a.c = "none" /\ a.e \notin {"wait", "refused"} /\ q = [asked EXCEPT !.st = "ran", !.res = "output"]
      \/ a.c = "run" /\ q = [asked EXCEPT !.st = "ran", !.res = "executed", !.asks = {}]
      \/ q = [asked EXCEPT !.asks = {"elicit"}]
      \/ a.c = "wait" /\ q = asked
  BY <1>1
<1>5. /\ q.st \in {"awaiting", "ran", "failed"} /\ q.asks \subseteq {"confirm", "elicit"}
      /\ (q.st = "awaiting") = (q.asks # {}) /\ Past(q)
  <2>1. CASE q = r
    BY <1>0, <2>1 DEF Past
  <2>2. CASE q = Failed
    BY <1>2, <2>2 DEF Past, StepFields
  <2>3. CASE a.c = "none" /\ a.e \notin {"wait", "refused"} /\ q = [asked EXCEPT !.st = "ran", !.res = "output"]
    <3>1. "confirm" \notin r.asks /\ "elicit" \in r.asks /\ a.e # "none"
      BY <1>0, <2>3
    <3>2. asked.asks = {} /\ asked.noRetry = TRUE
      BY <1>0, <1>2, <3>1
    <3>3. q.st = "ran" /\ q.asks = {} /\ q.noRetry = TRUE
      BY <1>2, <2>3, <3>2 DEF StepFields
    <3>4. QED
      BY <3>3 DEF Past
  <2>4. CASE a.c = "run" /\ q = [asked EXCEPT !.st = "ran", !.res = "executed", !.asks = {}]
    <3>1. q.st = "ran" /\ q.asks = {} /\ q.res = "executed"
      BY <1>2, <2>4 DEF StepFields
    <3>2. QED
      BY <3>1 DEF Past
  <2>5. CASE q = [asked EXCEPT !.asks = {"elicit"}]
    <3>1. q.st = "awaiting" /\ q.asks = {"elicit"}
      BY <1>2, <2>5 DEF StepFields
    <3>2. QED
      BY <3>1 DEF Past
  <2>6. CASE a.c = "wait" /\ q = asked
    <3>1. "confirm" \in r.asks
      BY <2>6
    <3>2. "confirm" \in asked.asks /\ asked.asks \subseteq {"confirm", "elicit"}
      BY <1>0, <1>2, <3>1
    <3>3. QED
      BY <1>2, <2>6, <3>2 DEF Past
  <2>7. QED
    BY <1>4, <2>1, <2>2, <2>3, <2>4, <2>5, <2>6
<1>6. Changed(r, q)
  BY <1>3, <1>5 DEF Changed, Sound, Sts
<1>7. Follows(r, q, again)
  BY <1>5 DEF Follows, Done
<1>8. QED
  BY <1>5, <1>6, <1>7 DEF q

\* A step that is given up: skipped for the budget, or failed as out of reach.
LEMMA GivenUpChanges ==
  ASSUME NEW r, Sound(r), NEW again, NEW q,
         \/ /\ r.st \in {"pending", "failed"} /\ q = [r EXCEPT !.st = "skipped", !.res = "budget"]
         \/ /\ r.st = "pending"
            /\ q = [r EXCEPT !.st = "failed", !.noRetry = TRUE, !.res = "error", !.reason = "unreachable"]
  PROVE  Changed(r, q) /\ Follows(r, q, again)
<1>0. DOMAIN r = StepFields
  BY DEF Sound
<1>1. /\ DOMAIN q = StepFields /\ q.deps = r.deps /\ q.map = r.map /\ q.optional = r.optional
      /\ q.parent = r.parent /\ q.asks = r.asks /\ q.st \in {"skipped", "failed"}
      /\ q.st = "failed" => r.st = "pending"
  BY <1>0 DEF StepFields
<1>2. r.st \in {"pending", "failed"}
  OBVIOUS
<1>3. Changed(r, q)
  BY <1>1, <1>2 DEF Changed, Sound, Sts
<1>4. Past(r) => Past(q)
  BY <1>1, <1>2 DEF Past
<1>5. QED
  BY <1>1, <1>3, <1>4 DEF Follows, Done

\* A step that was judged: an executed action has passed.
LEMMA VerifiedChanges ==
  ASSUME NEW r, Sound(r), r.st = "ran", NEW again, NEW v, v \in Verdicts(r), NEW q,
         q = [r EXCEPT !.st = IF v = "" THEN "passed" ELSE "failed", !.reason = v]
  PROVE  Changed(r, q) /\ Follows(r, q, again)
<1>0. DOMAIN r = StepFields
  BY DEF Sound
<1>1. /\ DOMAIN q = StepFields /\ q.deps = r.deps /\ q.map = r.map /\ q.optional = r.optional
      /\ q.parent = r.parent /\ q.asks = r.asks /\ q.noRetry = r.noRetry
      /\ q.st = IF v = "" THEN "passed" ELSE "failed"
  BY <1>0 DEF StepFields
<1>2. r.res = "executed" => v = ""
  BY DEF Verdicts
<1>3. Changed(r, q)
  BY <1>1 DEF Changed, Sound, Sts
<1>4. Past(r) => Past(q)
  BY <1>1, <1>2 DEF Past
<1>5. QED
  BY <1>1, <1>3, <1>4 DEF Follows, Done

\* A step whose worker came back has run, or is parked with its questions.
LEMMA WorkedChanges ==
  ASSUME NEW r, Sound(r), r.st = "pending", NEW w \in WorkerResults, NEW q,
         q = [r EXCEPT !.st = IF w.res = "asked" THEN "awaiting" ELSE "ran",
                       !.res = w.res, !.asks = w.asks]
  PROVE  Changed(r, q) /\ q.st \in {"ran", "awaiting"}
<1>0. DOMAIN r = StepFields
  BY DEF Sound
<1>1. w.asks \subseteq {"confirm", "elicit"} /\ (w.res = "asked") = (w.asks # {})
  <2>1. CASE w \in [res : {"output", "error", "blocked"}, asks : {{}}]
    BY <2>1
  <2>2. CASE w \in [res : {"asked"}, asks : Asks]
    <3>1. w.asks \in (SUBSET {"confirm", "elicit"}) \ {{}} /\ w.res = "asked"
      BY <2>2, PlanAssumption
    <3>2. QED
      BY <3>1
  <2>3. QED
    BY <2>1, <2>2 DEF WorkerResults
<1>2. /\ DOMAIN q = StepFields /\ q.deps = r.deps /\ q.map = r.map /\ q.optional = r.optional
      /\ q.parent = r.parent /\ q.asks = w.asks
      /\ q.st = IF w.res = "asked" THEN "awaiting" ELSE "ran"
  BY <1>0 DEF StepFields
<1>3. QED
  BY <1>1, <1>2 DEF Changed, Sound, Sts

-----------------------------------------------------------------------------
(* The actions.                                                            *)
(* A worker starts again only in a new batch, and never for a step whose   *)
(* approved action was executed.                                           *)
NewStarts ==
  \A s \in DOMAIN attempts \cap DOMAIN attempts' :
    attempts'[s] # attempts[s] => s \notin acted /\ batches' # batches

\* The steps of the plan are those of its order.
LEMMA IdsAreSteps == ASSUME Family(order, step) PROVE Ids = DOMAIN step
  BY DEF Family, Lists, Ids

\* What the invariant says of a plan while the turn walks it.
LEMMA Walks ==
  ASSUME PlanIInv, phase \in Walking
  PROVE  /\ Carried(order, step, attempts, iter, lost, acted, batches) /\ Ids = DOMAIN step
         /\ iter \in Nat /\ lost \in Nat
<1>1. MaxIterations \in Nat
  BY PlanAssumption
<1>2. QED
  BY <1>1, IdsAreSteps DEF PlanIInv, Carried, Carries

\* The invariant holds again when the turn goes on walking its plan.
LEMMA WalksOn ==
  ASSUME PlanIInv, phase' \in Walking, raw' = raw, iter' \in 0 .. MaxIterations, lost' \in Nat,
         mode' \in {"normal", "degraded", "finalizing"}, AbandonedPlanNeverRuns',
         Carried(order', step', attempts', iter', lost', acted', batches')
  PROVE  PlanIInv'
<1>1. /\ Family(order', step') /\ DepsMet(step') /\ Kept(step') /\ Paid(step', attempts', iter', lost')
      /\ Settled(step', acted') /\ Old(step', batches', iter')
  BY DEF Carried
<1>2. Family(order, step)' /\ DepsMet(step)' /\ Kept(step)' /\ Paid(step, attempts, iter, lost)'
  BY <1>1 DEF Kept
<1>3. Settled(step, acted)' /\ Old(step, batches, iter)'
  BY <1>1
<1>4. phase' \in Phases /\ phase' \notin {"router"} \cup Planning
  BY DEF Walking, Phases, Planning
<1>5. AttemptsBounded'
  BY <1>1, PaidBounds DEF AttemptsBounded
<1>6. QED
  BY <1>2, <1>3, <1>4, <1>5 DEF PlanIInv, Planning

(* The starts that the turn leaves behind are those it found, or have been *)
(* paid for by batches that are lost.                                      *)
Charged ==
  \/ attempts' = attempts /\ lost' = lost
  \/ phase \in Walking /\ lost' \in Nat /\ Paid(step, attempts', iter, lost')

\* The invariant holds again when the turn leaves its plan as it is, or drops it.
LEMMA StaysOrDrops ==
  ASSUME PlanIInv, phase' \in {"idle", "router"} \cup Planning, phase' # "idle" => batches' = {},
         mode' \in {"normal", "degraded", "finalizing"}, Charged,
         \/ UNCHANGED saved /\ acted' \subseteq acted \cup With("awaiting")
         \/ order' = <<>> /\ step' = <<>> /\ iter' = 0,
         phase' \in Planning => phase' = "planner" /\ ~HasPendingPlan'
  PROVE  PlanIInv'
<1>0. MaxIterations \in Nat
  BY PlanAssumption
<1>1. /\ phase' \in Phases /\ phase' \notin Walking
  BY DEF Walking, Phases, Planning
<1>2. lost' \in Nat /\ AttemptsBounded' /\ AbandonedPlanNeverRuns'
  <2>1. AttemptsBounded' /\ lost' \in Nat
    <3>1. CASE attempts' = attempts /\ lost' = lost
      BY <3>1 DEF PlanIInv, AttemptsBounded
    <3>2. CASE lost' \in Nat /\ Paid(step, attempts', iter, lost')
      BY <3>2, PaidBounds DEF PlanIInv, AttemptsBounded
    <3>3. QED
      BY <3>1, <3>2 DEF Charged
  <2>2. AbandonedPlanNeverRuns'
    BY <1>1 DEF AbandonedPlanNeverRuns, Walking
  <2>3. QED
    BY <2>1, <2>2
<1>3. CASE UNCHANGED saved /\ acted' \subseteq acted \cup With("awaiting")
  <2>1. raw' = raw /\ order' = order /\ step' = step /\ iter' = iter
    BY <1>3 DEF saved
  <2>2. HasPendingPlan' = HasPendingPlan
    BY <2>1 DEF HasPendingPlan, Ids
  <2>3. ASSUME HasPendingPlan
        PROVE  Kept(step)' /\ Paid(step, attempts, iter, lost)' /\ Settled(step, acted)'
    <3>1. Kept(step) /\ Paid(step, attempts', iter, lost') /\ Settled(step, acted)
      BY <2>3 DEF PlanIInv, Carries, Charged
    <3>2. With("awaiting") \subseteq DOMAIN step /\ \A s \in With("awaiting") : Past(step[s])
      BY IdsAreSteps DEF PlanIInv, With, Past
    <3>3. Settled(step, acted)'
      BY <1>3, <2>1, <3>1, <3>2 DEF Settled
    <3>4. QED
      BY <2>1, <3>1, <3>3 DEF Kept
  <2>4. Family(order, step)' /\ DepsMet(step)' /\ iter' \in 0 .. MaxIterations
    BY <2>1 DEF PlanIInv
  <2>5. QED
    BY <1>1, <1>2, <2>2, <2>3, <2>4 DEF PlanIInv, Carries, Planning
<1>4. CASE order' = <<>> /\ step' = <<>> /\ iter' = 0
  <2>1. DOMAIN step' = {} /\ Ids' = {}
    BY <1>4 DEF Ids, ToSet
  <2>2. ~HasPendingPlan'
    BY <2>1 DEF HasPendingPlan
  <2>3. Lists(<<>>, {})
    BY DEF Lists, Injective, ToSet
  <2>4. Family(order, step)' /\ DepsMet(step)'
    BY <1>4, <2>1, <2>3 DEF Family, DepsMet
  <2>5. QED
    BY <1>0, <1>1, <1>2, <1>4, <2>2, <2>4 DEF PlanIInv, Carries, Planning
<1>5. QED
  BY <1>3, <1>4

\* A new message, and the turn that looks for a plan to go on with.
LEMMA SayKeeps == ASSUME PlanIInv, NEW k, Say(k) PROVE PlanIInv' /\ NewStarts
<1>1. /\ phase' = "router" /\ batches' = {} /\ mode' = "normal" /\ UNCHANGED saved
      /\ attempts' = attempts /\ lost' = lost /\ acted' = acted
  BY DEF Say
<1>2. QED
  BY <1>1, StaysOrDrops DEF NewStarts, Planning, Charged

\* The router.
LEMMA RouteKeeps == ASSUME PlanIInv, Route PROVE PlanIInv' /\ NewStarts
<1>1. /\ phase = "router" /\ batches = {} /\ mode' = mode /\ msg' = msg /\ turn' = turn
      /\ owner' = owner /\ batches' = batches /\ attempts' = attempts /\ acted' = acted
      /\ lost' = lost /\ lost \in Nat /\ mode \in {"normal", "degraded", "finalizing"}
  BY DEF Route, history, PlanIInv
<1>2. CASE HasPendingPlan /\ msg # "fresh"
  <2>1. phase' = "dispatcher" /\ raw' = raw /\ order' = order /\ step' = step /\ iter' = iter
    BY <1>2 DEF Route, saved
  <2>2. Carried(order, step, attempts, iter, lost, acted, batches)
    <3>1. Old(step, batches, iter)
      BY <1>1 DEF Old
    <3>2. QED
      BY <1>2, <3>1 DEF PlanIInv, Carries, Carried
  <2>3. AbandonedPlanNeverRuns'
    BY <1>1, <1>2 DEF AbandonedPlanNeverRuns
  <2>4. PlanIInv'
    <3>1. Carried(order', step', attempts', iter', lost', acted', batches')
      BY <1>1, <2>1, <2>2
    <3>2. iter' \in 0 .. MaxIterations /\ phase' \in Walking
      BY <2>1 DEF PlanIInv, Walking
    <3>3. QED
      BY <1>1, <2>1, <2>3, <3>1, <3>2, WalksOn
  <2>5. QED
    BY <1>1, <2>4 DEF NewStarts
<1>3. CASE ~(HasPendingPlan /\ msg # "fresh")
  <2>1. /\ phase' \in {"planner", "idle"}
        /\ \/ HasPendingPlan /\ order' = <<>> /\ step' = <<>> /\ iter' = 0
           \/ ~HasPendingPlan /\ UNCHANGED saved
    BY <1>3 DEF Route
  <2>2. ~HasPendingPlan'
    <3>1. CASE order' = <<>>
      BY <3>1 DEF HasPendingPlan, Ids, ToSet
    <3>2. CASE ~HasPendingPlan /\ UNCHANGED saved
      BY <3>2 DEF saved, HasPendingPlan, Ids
    <3>3. QED
      BY <2>1, <3>1, <3>2
  <2>3. PlanIInv'
    BY <1>1, <2>1, <2>2, StaysOrDrops DEF Planning, Charged
  <2>4. QED
    BY <1>1, <2>3 DEF NewStarts
<1>4. QED
  BY <1>2, <1>3

\* The planner, before there is a plan.
LEMMA PlannerKeeps ==
  ASSUME PlanIInv, PlannerAnswers \/ Replan PROVE PlanIInv' /\ NewStarts
<1>1. /\ phase \in {"planner", "replanner"} /\ phase' \in {"replanner", "planned"}
      /\ mode' \in {"normal", "degraded", "finalizing"}
      /\ order' = order /\ step' = step /\ iter' = iter /\ owner' = owner /\ batches' = batches
      /\ DOMAIN attempts' = {} /\ lost' \in Nat
  <2>1. CASE PlannerAnswers
    BY <2>1 DEF PlannerAnswers, PlanIInv
  <2>2. CASE Replan
    BY <2>2 DEF Replan, PlanIInv, history, Planning
  <2>3. QED
    BY <2>1, <2>2
<1>2. ~HasPendingPlan' /\ batches' = {}
  BY <1>1 DEF PlanIInv, Planning, HasPendingPlan, Ids
<1>3. Family(order, step)' /\ DepsMet(step)' /\ iter' \in 0 .. MaxIterations
  BY <1>1 DEF PlanIInv
<1>4. phase' \in Phases /\ phase' \notin Walking
  BY <1>1 DEF Phases, Walking
<1>5. AttemptsBounded' /\ AbandonedPlanNeverRuns' /\ NewStarts
  BY <1>1 DEF AttemptsBounded, AbandonedPlanNeverRuns, NewStarts
<1>6. QED
  BY <1>1, <1>2, <1>3, <1>4, <1>5 DEF PlanIInv, Carries

\* The plan is made.
LEMMA PlanKeeps == ASSUME PlanIInv, Plan PROVE PlanIInv' /\ NewStarts
<1>1. /\ phase = "planned" /\ raw \in Explored /\ DOMAIN attempts = {} /\ batches = {}
      /\ attempts' = [s \in DOMAIN step' |-> 0] /\ acted' = {}
      /\ iter' = 0 /\ owner' = turn /\ phase' = "dispatcher"
      /\ msg' = msg /\ turn' = turn /\ raw' = raw /\ mode' = mode /\ batches' = batches
      /\ lost' = lost /\ lost \in Nat
  BY DEF Plan, PlanIInv, Planning
<1>2. Made(raw, order', step')
  BY Zenon DEF Plan, Made
<1>3. /\ Family(order', step') /\ \A x \in DOMAIN step' : step'[x].st = "pending"
      /\ \A k \in DOMAIN PlanOf(raw) : /\ PlanOf(raw)[k].id \in DOMAIN step'
                                       /\ step'[PlanOf(raw)[k].id].optional = PlanOf(raw)[k].optional
  BY <1>1, <1>2, PlanStarts
<1>4. Carried(order', step', attempts', iter', lost', acted', batches')
  <2>1. DepsMet(step')
    BY <1>3 DEF DepsMet, Done
  <2>2. Kept(step')
    BY <1>1, <1>3 DEF Kept
  <2>3. Paid(step', attempts', iter', lost')
    BY <1>1, <1>3 DEF Paid, Due
  <2>4. Settled(step', acted') /\ Old(step', batches', iter')
    BY <1>1 DEF Settled, Old
  <2>5. QED
    BY <1>3, <2>1, <2>2, <2>3, <2>4 DEF Carried
<1>5. AbandonedPlanNeverRuns'
  BY <1>1 DEF AbandonedPlanNeverRuns
<1>6. PlanIInv'
  <2>1. MaxIterations \in Nat
    BY PlanAssumption
  <2>2. iter' \in 0 .. MaxIterations /\ phase' \in Walking
    BY <1>1, <2>1 DEF Walking
  <2>3. mode' \in {"normal", "degraded", "finalizing"}
    BY <1>1 DEF PlanIInv
  <2>4. QED
    BY <1>1, <1>4, <1>5, <2>2, <2>3, WalksOn
<1>7. QED
  BY <1>1, <1>6 DEF NewStarts

\* The end of a turn, at an answer or at a pause.
LEMMA EndKeeps ==
  ASSUME PlanIInv, Synthesize \/ Pause PROVE PlanIInv' /\ NewStarts
<1>1. /\ phase' = "idle" /\ mode' = mode /\ attempts' = attempts /\ lost' = lost
      /\ mode \in {"normal", "degraded", "finalizing"}
      /\ \/ UNCHANGED saved /\ acted' = acted
         \/ order' = <<>> /\ step' = <<>> /\ iter' = 0
  BY DEF Synthesize, Pause, PlanIInv, history
<1>2. PlanIInv'
  BY <1>1, StaysOrDrops DEF Planning, Charged
<1>3. QED
  BY <1>1, <1>2 DEF NewStarts

(* What a node may do to the steps s of a plan, to leave t: resume or give *)
(* up some of them, judge what has run, or have a batch run.               *)
GoesOn(s, t) ==
  /\ Updated(s, t)
  /\ \A x \in DOMAIN s : \/ t[x].st = s[x].st \/ t[x].st \in {"failed", "skipped"}
                         \/ s[x].st = "awaiting" /\ t[x].st = "ran"
Judges(s, t) ==
  /\ Updated(s, t)
  /\ \A x \in DOMAIN s : IF s[x].st = "ran" THEN t[x].st \in {"passed", "failed"} ELSE t[x] = s[x]
Works(o, s, t) ==
  LET run == Runnable(o, s)
      batch == ToSet(Firsts(run, MaxParallel))
  IN  IF run = <<>> THEN t = Unreachable(s)
      ELSE /\ Updated(s, t)
           /\ \A x \in DOMAIN s : IF x \in batch THEN t[x].st \in {"ran", "awaiting"} ELSE t[x] = s[x]
Dispatched ==
  \E s, t : /\ Updated(step, s) /\ Family(order, s)
           /\ Grown(s, t) /\ Family(order', t) /\ Works(order', t, step')

\* The turn goes on walking when its steps go on, in the same cycle.
LEMMA StepsGoOn ==
  ASSUME PlanIInv, phase \in Walking, phase' \in Walking,
         msg' = msg, turn' = turn, raw' = raw, order' = order, iter' = iter, owner' = owner,
         batches' = batches, attempts' = attempts, lost' = lost,
         mode' \in {"normal", "degraded", "finalizing"},
         Updated(step, step'), \A x \in DOMAIN step : Follows(step[x], step'[x], FALSE),
         Settled(step', acted) => Settled(step', acted')
  PROVE  PlanIInv' /\ NewStarts
<1>1. Carried(order, step, attempts, iter, lost, acted, batches) /\ iter \in Nat /\ lost \in Nat
  BY Walks
<1>2. Carried(order, step', attempts, iter, lost, acted, batches)
  <2>1. PICK i \in Nat : i = iter
    BY <1>1
  <2>2. i \in {i, i + 1} /\ ~(i = i + 1)
    OBVIOUS
  <2>3. \A x \in DOMAIN step : Follows(step[x], step'[x], i = i + 1)
    BY <2>2 DEF Follows
  <2>4. Carried(order, step, attempts, i, lost, acted, batches) /\ lost \in Nat
    BY <1>1, <2>1
  <2>5. Carried(order, step', attempts, i, lost, acted, batches)
    BY <2>2, <2>3, <2>4, CarriedOn
  <2>6. QED
    BY <2>1, <2>5
<1>3. Carried(order', step', attempts', iter', lost', acted', batches')
  BY <1>2 DEF Carried
<1>4. AbandonedPlanNeverRuns'
  BY DEF PlanIInv, AbandonedPlanNeverRuns, Walking
<1>5. iter' \in 0 .. MaxIterations
  BY DEF PlanIInv
<1>6. PlanIInv'
  BY <1>1, <1>3, <1>4, <1>5, WalksOn
<1>7. QED
  BY <1>6 DEF NewStarts

\* The steps of a plan that is walked are sound.
LEMMA WalkedSteps ==
  ASSUME PlanIInv, phase \in Walking
  PROVE  Ids = DOMAIN step /\ \A x \in DOMAIN step : Sound(step[x])
  BY Walks DEF PlanIInv, Family

\* A resumption.
LEMMA ResumeKeeps ==
  ASSUME PlanIInv, Resume
  PROVE  PlanIInv' /\ NewStarts /\ GoesOn(step, step')
<1>1. phase \in Walking /\ phase' \in Walking
  BY DEF Resume, AfterDispatch, Walking
<1>2. Ids = DOMAIN step /\ \A x \in DOMAIN step : Sound(step[x])
  BY <1>1, WalkedSteps
<1>3. PICK a \in [With("awaiting") -> UNION {Answers(s) : s \in With("awaiting")}] :
        /\ \A s \in With("awaiting") : a[s] \in Answers(s)
        /\ step' = [s \in Ids |-> IF s \in DOMAIN a THEN Resumed(step[s], a[s]) ELSE step[s]]
        /\ acted' = acted \cup {s \in DOMAIN a : a[s].c \in {"run", "elicit"}}
  BY DEF Resume
<1>4. DOMAIN a = With("awaiting") /\ DOMAIN step' = DOMAIN step
  BY <1>2, <1>3
<1>5. ASSUME NEW x \in With("awaiting")
      PROVE  /\ x \in DOMAIN step /\ Changed(step[x], step'[x]) /\ Follows(step[x], step'[x], FALSE)
             /\ Past(step'[x]) /\ step'[x].st \in {"awaiting", "ran", "failed"}
  <2>1. x \in DOMAIN step /\ step[x].st = "awaiting" /\ step'[x] = Resumed(step[x], a[x])
    BY <1>2, <1>3, <1>4 DEF With
  <2>2. a[x] \in Answers(x)
    BY <1>3
  <2>3. /\ a[x] \in [e : {"none", "wait", "answered", "refused"},
                     c : {"none", "wait", "run", "elicit", "abort"}]
        /\ (a[x].e = "none") = ("elicit" \notin step[x].asks)
        /\ (a[x].c = "none") = ("confirm" \notin step[x].asks \/ a[x].e \in {"wait", "refused"})
    BY <2>2, Zenon DEF Answers
  <2>4. PICK r, b : r = step[x] /\ b = a[x]
    OBVIOUS
  <2>5. /\ Sound(r) /\ r.st = "awaiting"
        /\ b \in [e : {"none", "wait", "answered", "refused"},
                  c : {"none", "wait", "run", "elicit", "abort"}]
        /\ (b.e = "none") = ("elicit" \notin r.asks)
        /\ (b.c = "none") = ("confirm" \notin r.asks \/ b.e \in {"wait", "refused"})
    BY <1>2, <2>1, <2>3, <2>4
  <2>6. /\ Changed(r, Resumed(r, b)) /\ Follows(r, Resumed(r, b), FALSE) /\ Past(Resumed(r, b))
        /\ Resumed(r, b).st \in {"awaiting", "ran", "failed"}
    BY <2>5, ResumedChanges
  <2>7. QED
    BY <2>1, <2>4, <2>6
<1>6. ASSUME NEW x \in DOMAIN step, x \notin With("awaiting")
      PROVE  Changed(step[x], step'[x]) /\ Follows(step[x], step'[x], FALSE) /\ step'[x] = step[x]
  <2>1. step'[x] = step[x]
    BY <1>2, <1>3, <1>4, <1>6
  <2>2. QED
    BY <1>2, <2>1, SameFollows
<1>7. Updated(step, step') /\ \A x \in DOMAIN step : Follows(step[x], step'[x], FALSE)
  BY <1>4, <1>5, <1>6 DEF Updated
<1>8. Settled(step', acted) => Settled(step', acted')
  BY <1>3, <1>4, <1>5 DEF Settled
<1>9. mode' \in {"normal", "degraded", "finalizing"}
  BY DEF Resume, PlanIInv
<1>10. /\ msg' = msg /\ turn' = turn /\ raw' = raw /\ order' = order /\ iter' = iter /\ owner' = owner
       /\ batches' = batches /\ attempts' = attempts /\ lost' = lost
  BY DEF Resume
<1>11. \A x \in With("awaiting") : step[x].st = "awaiting"
  BY DEF With
<1>12. GoesOn(step, step')
  BY <1>5, <1>6, <1>7, <1>11 DEF GoesOn
<1>13. QED
  BY <1>1, <1>7, <1>8, <1>9, <1>10, <1>12, StepsGoOn

\* The budget is at its end.
LEMMA WindKeeps ==
  ASSUME PlanIInv, Wind
  PROVE  PlanIInv' /\ NewStarts /\ GoesOn(step, step')
<1>1. phase \in Walking /\ phase' \in Walking
  BY DEF Wind, AfterDispatch, Walking
<1>2. Ids = DOMAIN step /\ \A x \in DOMAIN step : Sound(step[x])
  BY <1>1, WalkedSteps
<1>3. step' = [s \in DOMAIN step |-> IF step[s].st \in {"pending", "failed"}
                 THEN [step[s] EXCEPT !.st = "skipped", !.res = "budget"] ELSE step[s]]
  BY <1>2 DEF Wind
<1>4. ASSUME NEW x \in DOMAIN step
      PROVE  /\ Changed(step[x], step'[x]) /\ Follows(step[x], step'[x], FALSE)
             /\ step'[x].st \in {step[x].st, "skipped"}
  <2>1. CASE step[x].st \in {"pending", "failed"}
    <3>1. step'[x] = [step[x] EXCEPT !.st = "skipped", !.res = "budget"]
      BY <1>3, <2>1
    <3>2. step'[x].st = "skipped"
      BY <1>2, <3>1 DEF Sound, StepFields
    <3>3. QED
      BY <1>2, <2>1, <3>1, <3>2, GivenUpChanges
  <2>2. CASE step[x].st \notin {"pending", "failed"}
    <3>1. step'[x] = step[x]
      BY <1>3, <2>2
    <3>2. QED
      BY <1>2, <3>1, SameFollows
  <2>3. QED
    BY <2>1, <2>2
<1>5. Updated(step, step')
  BY <1>3, <1>4 DEF Updated
<1>6. mode' \in {"normal", "degraded", "finalizing"}
  BY DEF Wind, PlanIInv
<1>7. /\ msg' = msg /\ turn' = turn /\ raw' = raw /\ order' = order /\ iter' = iter /\ owner' = owner
      /\ batches' = batches /\ attempts' = attempts /\ lost' = lost /\ acted' = acted
  BY DEF Wind, history
<1>8. GoesOn(step, step')
  BY <1>4, <1>5 DEF GoesOn
<1>9. QED
  BY <1>1, <1>4, <1>5, <1>6, <1>7, <1>8, StepsGoOn

\* The verifier.
LEMMA VerifyKeeps ==
  ASSUME PlanIInv, Verify
  PROVE  PlanIInv' /\ NewStarts /\ Judges(step, step')
<1>1. phase \in Walking /\ phase' \in Walking
  BY DEF Verify, AfterVerify, Walking
<1>2. Ids = DOMAIN step /\ \A x \in DOMAIN step : Sound(step[x])
  BY <1>1, WalkedSteps
<1>3. PICK v \in [With("ran") -> Reasons \cup {""}] :
        /\ \A s \in With("ran") : v[s] \in Verdicts(step[s])
        /\ step' = [s \in Ids |->
             IF s \notin With("ran") THEN step[s]
             ELSE [step[s] EXCEPT !.st = IF v[s] = "" THEN "passed" ELSE "failed", !.reason = v[s]]]
  BY DEF Verify
<1>4. ASSUME NEW x \in DOMAIN step
      PROVE  /\ Changed(step[x], step'[x]) /\ Follows(step[x], step'[x], FALSE)
             /\ IF step[x].st = "ran" THEN step'[x].st \in {"passed", "failed"} ELSE step'[x] = step[x]
  <2>1. CASE x \in With("ran")
    <3>1. step'[x] = [step[x] EXCEPT !.st = IF v[x] = "" THEN "passed" ELSE "failed", !.reason = v[x]]
      BY <1>2, <1>3, <2>1
    <3>2. step[x].st = "ran" /\ v[x] \in Verdicts(step[x]) /\ Sound(step[x])
      BY <1>2, <1>3, <2>1 DEF With
    <3>3. step'[x].st \in {"passed", "failed"}
      BY <3>1, <3>2 DEF Sound, StepFields
    <3>4. QED
      BY <3>1, <3>2, <3>3, VerifiedChanges
  <2>2. CASE x \notin With("ran")
    <3>1. step'[x] = step[x]
      BY <1>2, <1>3, <2>2
    <3>2. step[x].st # "ran"
      BY <1>2, <2>2 DEF With
    <3>3. QED
      BY <1>2, <3>1, <3>2, SameFollows
  <2>3. QED
    BY <2>1, <2>2
<1>5. Updated(step, step')
  BY <1>2, <1>3, <1>4 DEF Updated
<1>6. mode' \in {"normal", "degraded", "finalizing"}
  BY DEF Verify, PlanIInv
<1>7. /\ msg' = msg /\ turn' = turn /\ raw' = raw /\ order' = order /\ iter' = iter /\ owner' = owner
      /\ batches' = batches /\ attempts' = attempts /\ lost' = lost /\ acted' = acted
  BY DEF Verify, history
<1>8. Judges(step, step')
  BY <1>4, <1>5 DEF Judges
<1>9. QED
  BY <1>1, <1>4, <1>5, <1>6, <1>7, <1>8, StepsGoOn

\* The budget goes down while a node runs.
LEMMA BudgetMovesKeeps == ASSUME PlanIInv, BudgetMoves PROVE PlanIInv' /\ NewStarts
<1>1. phase \in Walking /\ phase' \in Walking
  BY DEF BudgetMoves, Walking
<1>2. mode' \in {"normal", "degraded", "finalizing"}
  BY DEF BudgetMoves
<1>3. /\ msg' = msg /\ turn' = turn /\ raw' = raw /\ order' = order /\ iter' = iter /\ owner' = owner
      /\ batches' = batches /\ attempts' = attempts /\ lost' = lost /\ acted' = acted
      /\ step' = step
  BY DEF BudgetMoves, history, saved
<1>4. \A x \in DOMAIN step : Changed(step[x], step'[x]) /\ Follows(step[x], step'[x], FALSE)
  BY <1>1, <1>3, WalkedSteps, SameFollows
<1>5. Updated(step, step')
  BY <1>3, <1>4 DEF Updated
<1>6. QED
  BY <1>1, <1>2, <1>3, <1>4, <1>5, StepsGoOn

\* What is not reachable any more fails.
LEMMA UnreachableUpdates ==
  ASSUME NEW s, \A x \in DOMAIN s : Sound(s[x])
  PROVE  Updated(s, Unreachable(s)) /\ \A x \in DOMAIN s : Follows(s[x], Unreachable(s)[x], FALSE)
<1> DEFINE t == Unreachable(s)
<1>1. CASE States(s) \cap {"ran", "awaiting"} # {}
  <2>1. t = s
    BY <1>1 DEF Unreachable
  <2>2. QED
    BY <2>1, SameFollows DEF Updated
<1>2. CASE States(s) \cap {"ran", "awaiting"} = {}
  <2>1. t = [x \in DOMAIN s |->
               IF s[x].st = "pending"
               THEN [s[x] EXCEPT !.st = "failed", !.noRetry = TRUE, !.res = "error", !.reason = "unreachable"]
               ELSE s[x]]
    BY <1>2 DEF Unreachable
  <2> HIDE DEF t
  <2>2. ASSUME NEW x \in DOMAIN s PROVE Changed(s[x], t[x]) /\ Follows(s[x], t[x], FALSE)
    <3>1. CASE s[x].st = "pending"
      <4>1. t[x] = [s[x] EXCEPT !.st = "failed", !.noRetry = TRUE, !.res = "error", !.reason = "unreachable"]
        BY <2>1, <3>1
      <4>2. QED
        BY <3>1, <4>1, GivenUpChanges
    <3>2. CASE s[x].st # "pending"
      <4>1. t[x] = s[x]
        BY <2>1, <3>2
      <4>2. QED
        BY <4>1, SameFollows
    <3>3. QED
      BY <3>1, <3>2
  <2>3. QED
    BY <2>1, <2>2 DEF Updated, t
<1>3. QED
  BY <1>1, <1>2

(* The steps a worker may be started for.                                  *)
ReadyIn(s) == {x \in DOMAIN s : s[x].st = "pending" /\ \A d \in s[x].deps : Satisfied(s, d)}

\* Runnable lists them in the order of the plan.
LEMMA RunnableLists ==
  ASSUME NEW o, NEW s, Lists(o, DOMAIN s)
  PROVE  Runnable(o, s) = Those(o, ReadyIn(s)) /\ Lists(Runnable(o, s), ReadyIn(s))
<1>1. Runnable(o, s) = Those(o, ReadyIn(s))
  BY DEF Runnable, ReadyIn
<1>2. DOMAIN s \cap ReadyIn(s) = ReadyIn(s)
  BY DEF ReadyIn
<1>3. QED
  BY <1>1, <1>2, ThoseLists

\* The steps of a batch wait, and what they depend on is satisfied.
LEMMA BatchIsReady ==
  ASSUME NEW o, NEW s, Family(o, s), NEW run, run = Runnable(o, s), run # <<>>,
         NEW X, X = ToSet(Firsts(run, MaxParallel))
  PROVE  /\ X \in SUBSET DOMAIN s /\ X # {}
         /\ \A x \in X : s[x].st = "pending" /\ \A d \in s[x].deps : Satisfied(s, d)
<1>1. Lists(run, ReadyIn(s))
  BY RunnableLists DEF Family
<1>2. MaxParallel \in Nat \ {0}
  BY PlanAssumption
<1>3. X \subseteq ReadyIn(s)
  BY <1>1, <1>2, FirstsIs
<1>4. X # {}
  <2>1. Cardinality(ReadyIn(s)) = Len(run) /\ Len(run) \in Nat /\ Len(run) # 0
    BY <1>1, ListCounts, LenProperties, EmptySeq DEF Lists
  <2>2. Cardinality(X) = MaxParallel \/ X = ReadyIn(s)
    BY <1>1, <1>2, <2>1, FirstsIs
  <2>3. Cardinality({}) = 0
    BY FS_EmptySet
  <2>4. QED
    BY <1>2, <2>1, <2>2, <2>3
<1>5. QED
  BY <1>3, <1>4 DEF ReadyIn

\* What a pass of the dispatcher comes to: the plan goes on, in this cycle or the
\* next, and has grown.
LEMMA PassIs ==
  ASSUME PlanIInv, Dispatching, NEW n \in Found, NEW p, p = Pass(n)
  PROVE  /\ Carried(p.order, p.steps, attempts, p.iter, lost, acted, batches)
         /\ p.iter \in 0 .. MaxIterations /\ p.iter \in Nat
         /\ \E s : Updated(step, s) /\ Family(order, s) /\ Grown(s, p.steps)
<1> DEFINE t == Trimmed(step)
           q == Prepared(t)
           s == q.steps
           i == q.iter
           ready == {x \in Mapped(s) : s[s[x].map].st = "passed"}
           m == [x \in Mapped(s) |-> IF x \in DOMAIN n THEN n[x] ELSE 0]
           e == Expanded(s, m)
           v == e.steps
<1>1. n \in [ready -> 0 .. MaxExpansion]
  BY DEF Found
<1>2. p.order = e.order /\ p.steps = v /\ p.iter = i
  BY DEF Pass
<1>3. phase \in Walking
  BY DEF Dispatching, Walking
<1>4. /\ Carried(order, step, attempts, iter, lost, acted, batches) /\ iter \in 0 .. MaxIterations
      /\ MaxIterations \in Nat /\ iter \in Nat /\ lost \in Nat
  BY <1>3, Walks, PlanAssumption DEF PlanIInv
<1> HIDE DEF v, e, m, ready
<1>5. Carried(order, t, attempts, iter, lost, acted, batches) /\ Updated(step, t)
  <2>1. \A x \in DOMAIN step : Sound(step[x])
    BY <1>3, WalkedSteps
  <2>2. /\ Updated(step, t)
        /\ \A x \in DOMAIN step : t[x] = step[x] \/ (step[x].st = "pending" /\ t[x].st = "skipped")
    BY <2>1, TrimmedUpdates
  <2> HIDE DEF t
  <2>3. \A x \in DOMAIN step : Follows(step[x], t[x], iter = iter + 1)
    BY <2>2 DEF Follows, Past, Done
  <2>4. iter \in {iter, iter + 1}
    OBVIOUS
  <2>5. QED
    BY <1>4, <2>2, <2>3, <2>4, CarriedOn
<1>6. /\ Carried(order, s, attempts, i, lost, acted, batches) /\ i \in 0 .. MaxIterations /\ i \in Nat
      /\ Updated(t, s)
  <2>1. \A x \in DOMAIN t : Sound(t[x])
    BY <1>5 DEF Carried, Family
  <2>2. /\ Updated(t, s) /\ i \in {iter, iter + 1} /\ i <= MaxIterations
        /\ \A x \in DOMAIN t : Retried(t[x], s[x], i = iter + 1)
    BY <1>4, <2>1, PreparedUpdates
  <2> HIDE DEF t, q
  <2>3. \A x \in DOMAIN t : Follows(t[x], s[x], i = iter + 1)
    BY <2>2 DEF Follows, Past, Done, Retried
  <2>4. Carried(order, t, attempts, iter, lost, acted, batches) /\ iter \in Nat /\ lost \in Nat
    BY <1>4, <1>5
  <2>5. Carried(order, s, attempts, i, lost, acted, batches)
    BY <2>2, <2>3, <2>4, CarriedOn
  <2>6. QED
    BY <1>4, <2>2, <2>5
<1> HIDE DEF t, q
<1>7. Family(e.order, v) /\ Grown(s, v)
  <2>1. Family(order, s)
    BY <1>6 DEF Carried
  <2>2. DOMAIN m = Mapped(s) /\ \A x \in DOMAIN m : m[x] \in 0 .. MaxExpansion
    <3>1. MaxExpansion \in Nat
      BY PlanAssumption
    <3>2. DOMAIN m = Mapped(s) /\ \A x \in Mapped(s) : m[x] = IF x \in DOMAIN n THEN n[x] ELSE 0
      BY DEF m
    <3>3. \A x \in DOMAIN n : n[x] \in 0 .. MaxExpansion
      BY <1>1
    <3>4. QED
      BY <3>1, <3>2, <3>3
  <2>3. QED
    BY <2>1, <2>2, ExpandedKeeps DEF e, v
<1>8. Carried(e.order, v, attempts, i, lost, acted, batches)
  BY <1>4, <1>6, <1>7, CarriedGrown
<1>9. Updated(step, s) /\ Family(order, s)
  BY <1>5, <1>6 DEF Updated, Changed, Carried
<1>10. QED
  BY <1>2, <1>6, <1>7, <1>8, <1>9

\* Its batch is of steps that wait, is a new one, and is empty when nothing can run.
LEMMA PassBatch ==
  ASSUME PlanIInv, Dispatching, NEW n \in Found, NEW p, p = Pass(n),
         NEW X, X = ToSet(p.batch)
  PROVE  /\ X = ToSet(Firsts(Runnable(p.order, p.steps), MaxParallel))
         /\ X = {} <=> Runnable(p.order, p.steps) = <<>>
         /\ X \in SUBSET DOMAIN p.steps
         /\ \A x \in X : p.steps[x].st = "pending" /\ \A d \in p.steps[x].deps : Satisfied(p.steps, d)
         /\ X # {} => <<p.iter, X>> \notin batches /\ X \cap acted = {}
<1>1. Carried(p.order, p.steps, attempts, p.iter, lost, acted, batches)
  BY PassIs
<1>2. p.batch = Firsts(Runnable(p.order, p.steps), MaxParallel)
  BY DEF Pass
<1> DEFINE run == Runnable(p.order, p.steps)
<1>3. Family(p.order, p.steps)
  BY <1>1 DEF Carried
<1>4. CASE run = <<>>
  <2>1. Lists(run, ReadyIn(p.steps)) /\ MaxParallel \in Nat
    BY <1>3, RunnableLists, PlanAssumption DEF Family
  <2>2. ReadyIn(p.steps) = {}
    BY <1>4, <2>1 DEF Lists, ToSet
  <2> HIDE DEF run
  <2>3. X = {}
    BY <1>2, <2>1, <2>2, FirstsIs DEF run
  <2>4. QED
    BY <1>2, <1>4, <2>3 DEF run
<1>5. CASE run # <<>>
  <2> HIDE DEF run
  <2>1. /\ X \in SUBSET DOMAIN p.steps /\ X # {}
        /\ \A x \in X : p.steps[x].st = "pending" /\ \A d \in p.steps[x].deps : Satisfied(p.steps, d)
    BY <1>2, <1>3, <1>5, BatchIsReady DEF run
  <2>2. <<p.iter, X>> \notin batches /\ X \cap acted = {}
    BY <1>1, <2>1, NewBatch
  <2>3. QED
    BY <1>2, <1>5, <2>1, <2>2 DEF run
<1>6. QED
  BY <1>4, <1>5

\* A batch that starts is a new one.
LEMMA StartsAreNew ==
  ASSUME PlanIInv, Dispatching, NEW n \in Found, NEW p, p = Pass(n), NEW r \in Nat, Starts(p, r),
         NEW X, X = ToSet(p.batch)
  PROVE  /\ NewStarts /\ attempts' = Handed(attempts, X, r) /\ batches' = batches \cup {<<p.iter, X>>}
<1>1. /\ X # {} /\ batches' = batches \cup {<<p.iter, X>>}
      /\ attempts' = [x \in X \cup DOMAIN attempts |->
                        (IF x \in DOMAIN attempts THEN attempts[x] ELSE 0) + IF x \in X THEN r ELSE 0]
  BY Zenon DEF Starts, BatchKey
<1>2. attempts' = Handed(attempts, X, r)
  BY <1>1, Zenon DEF Handed
<1>3. <<p.iter, X>> \notin batches /\ X \cap acted = {}
  BY <1>1, PassBatch
<1>4. Paid(step, attempts, iter, lost)
  BY Walks DEF Dispatching, Walking, Carried
<1>5. ASSUME NEW x \in DOMAIN attempts, attempts'[x] # attempts[x]
      PROVE  x \notin acted /\ batches' # batches
  <2>1. attempts'[x] = attempts[x] + IF x \in X THEN r ELSE 0
    BY <1>1
  <2>2. attempts[x] \in Nat
    BY <1>4 DEF Paid
  <2>3. x \in X
    BY <1>5, <2>1, <2>2
  <2>4. QED
    BY <1>1, <1>3, <2>3
<1>6. QED
  BY <1>1, <1>2, <1>5 DEF NewStarts

\* What the pass p does with its batch.
Hands(p, batch) ==
  /\ order' = p.order /\ iter' = p.iter
  /\ IF batch = {}
     THEN /\ step' = Unreachable(p.steps)
          /\ UNCHANGED <<batches, attempts, lost>>
     ELSE /\ \E w \in [batch -> WorkerResults] :
               step' = [x \in DOMAIN p.steps |->
                 IF x \notin batch THEN p.steps[x]
                 ELSE [p.steps[x] EXCEPT
                         !.st = IF w[x].res = "asked" THEN "awaiting" ELSE "ran",
                         !.res = w[x].res, !.asks = w[x].asks]]
          /\ \E r \in Runs(p.batch) : Starts(p, r) /\ lost' = lost + r - 1
          /\ lost' <= MaxLost

\* A pass of the dispatcher.
LEMMA DispatchKeeps ==
  ASSUME PlanIInv, Dispatch
  PROVE  PlanIInv' /\ NewStarts /\ Dispatched
<1>1. phase \in Walking /\ phase' \in Walking /\ Dispatching
  BY DEF Dispatch, AfterDispatch, Walking, Dispatching
<1>2. PICK n \in Found : Hands(Pass(n), ToSet(Pass(n).batch))
  BY DEF Dispatch, Hands
<1>3. PICK p : p = Pass(n) /\ Hands(p, ToSet(p.batch))
  BY <1>2
<1> DEFINE o == p.order
           v == p.steps
           i == p.iter
           X == ToSet(p.batch)
           run == Runnable(o, v)
<1>4. order' = o /\ iter' = i
  BY <1>3 DEF Hands
<1>5. X = {} => step' = Unreachable(v) /\ attempts' = attempts /\ batches' = batches /\ lost' = lost
  BY <1>3 DEF Hands
<1>6. ASSUME X # {}
      PROVE  /\ \E w \in [X -> WorkerResults] :
                  step' = [x \in DOMAIN v |->
                    IF x \notin X THEN v[x]
                    ELSE [v[x] EXCEPT !.st = IF w[x].res = "asked" THEN "awaiting" ELSE "ran",
                                      !.res = w[x].res, !.asks = w[x].asks]]
             /\ \E r \in Runs(p.batch) : Starts(p, r) /\ lost' = lost + r - 1
  BY <1>3, <1>6, Zenon DEF Hands
<1>7. /\ msg' = msg /\ turn' = turn /\ raw' = raw /\ mode' = mode /\ owner' = owner /\ acted' = acted
      /\ mode' \in {"normal", "degraded", "finalizing"}
  BY DEF Dispatch, PlanIInv
<1>8. /\ Carried(o, v, attempts, i, lost, acted, batches) /\ i \in 0 .. MaxIterations /\ i \in Nat
      /\ \E s : Updated(step, s) /\ Family(order, s) /\ Grown(s, v)
  BY <1>1, <1>3, PassIs
<1>9. /\ X = ToSet(Firsts(run, MaxParallel)) /\ (X = {} <=> run = <<>>)
      /\ X \in SUBSET DOMAIN v
      /\ \A x \in X : v[x].st = "pending" /\ \A d \in v[x].deps : Satisfied(v, d)
  BY <1>1, <1>3, PassBatch
<1>10. lost \in Nat
  BY DEF PlanIInv
<1> HIDE DEF o, v, i, X, run
<1>11. Family(o, v) /\ \A x \in DOMAIN v : Sound(v[x])
  BY <1>8 DEF Carried, Family
<1>12. AbandonedPlanNeverRuns'
  BY <1>1, <1>7 DEF PlanIInv, AbandonedPlanNeverRuns, Walking
<1>13. ASSUME Works(o, v, step') PROVE Dispatched
  BY <1>4, <1>8, <1>11, <1>13 DEF Dispatched
<1>14. CASE X = {}
  <2>1. step' = Unreachable(v) /\ attempts' = attempts /\ batches' = batches /\ lost' = lost
    BY <1>5, <1>14
  <2>2. Updated(v, step') /\ \A x \in DOMAIN v : Follows(v[x], step'[x], FALSE)
    BY <1>11, <2>1, UnreachableUpdates
  <2>3. Carried(o, step', attempts, i, lost, acted, batches)
    <3>1. PICK j \in Nat : j = i
      BY <1>8
    <3>2. j \in {j, j + 1} /\ ~(j = j + 1) /\ Carried(o, v, attempts, j, lost, acted, batches)
      BY <1>8, <3>1
    <3>3. \A x \in DOMAIN v : Follows(v[x], step'[x], j = j + 1)
      BY <2>2, <3>2 DEF Follows
    <3>4. Carried(o, step', attempts, j, lost, acted, batches)
      BY <1>10, <2>2, <3>2, <3>3, CarriedOn
    <3>5. QED
      BY <3>1, <3>4
  <2>4. Carried(order', step', attempts', iter', lost', acted', batches')
    BY <1>4, <1>7, <2>1, <2>3
  <2>5. PlanIInv'
    BY <1>1, <1>4, <1>7, <1>8, <1>10, <1>12, <2>1, <2>4, WalksOn
  <2>6. NewStarts
    BY <2>1 DEF NewStarts
  <2>7. Works(o, v, step')
    BY <1>9, <1>14, <2>1 DEF Works, run
  <2>8. QED
    BY <1>13, <2>5, <2>6, <2>7
<1>15. CASE X # {}
  <2>1. PICK w \in [X -> WorkerResults] :
          step' = [x \in DOMAIN v |->
            IF x \notin X THEN v[x]
            ELSE [v[x] EXCEPT !.st = IF w[x].res = "asked" THEN "awaiting" ELSE "ran",
                              !.res = w[x].res, !.asks = w[x].asks]]
    BY <1>6, <1>15
  <2>2. PICK r \in {1, 2} : Starts(p, r) /\ lost' = lost + r - 1
    BY <1>6, <1>15 DEF Runs
  <2>3. NewStarts /\ attempts' = Handed(attempts, X, r) /\ batches' = batches \cup {<<i, X>>}
    BY <1>1, <1>3, <2>2, StartsAreNew DEF i, X
  <2>4. ASSUME NEW x \in DOMAIN v
        PROVE  /\ Changed(v[x], step'[x])
               /\ IF x \in X THEN step'[x].st \in {"ran", "awaiting"} ELSE step'[x] = v[x]
    <3>1. CASE x \in X
      <4>1. step'[x] = [v[x] EXCEPT !.st = IF w[x].res = "asked" THEN "awaiting" ELSE "ran",
                                    !.res = w[x].res, !.asks = w[x].asks]
        BY <2>1, <3>1
      <4>2. w[x] \in WorkerResults /\ Sound(v[x]) /\ v[x].st = "pending"
        BY <1>9, <1>11, <3>1
      <4>3. Changed(v[x], step'[x]) /\ step'[x].st \in {"ran", "awaiting"}
        BY <4>1, <4>2, WorkedChanges
      <4>4. QED
        BY <3>1, <4>3
    <3>2. CASE x \notin X
      <4>1. step'[x] = v[x]
        BY <2>1, <3>2
      <4>2. QED
        BY <1>11, <3>2, <4>1, SameFollows
    <3>3. QED
      BY <3>1, <3>2
  <2>5. Updated(v, step')
    BY <2>1, <2>4 DEF Updated
  <2>6. Carried(o, step', Handed(attempts, X, r), i, lost + r - 1, acted, batches \cup {<<i, X>>})
    <3>1. (\A x \in DOMAIN v \ X : step'[x] = v[x]) /\ \A x \in X : step'[x].st \in {"ran", "awaiting"}
      BY <1>9, <2>4
    <3>2. PICK s, t : s = v /\ t = step'
      OBVIOUS
    <3>3. BatchRuns(s, X, t)
      BY <1>9, <1>15, <2>5, <3>1, <3>2 DEF BatchRuns
    <3>4. Carried(o, s, attempts, i, lost, acted, batches) /\ i \in Nat /\ r \in Nat \ {0}
      BY <1>8, <3>2
    <3>5. Carried(o, t, Handed(attempts, X, r), i, lost + r - 1, acted, batches \cup {<<i, X>>})
      BY <1>10, <3>3, <3>4, CarriedBatch
    <3>6. QED
      BY <3>2, <3>5
  <2>7. Carried(order', step', attempts', iter', lost', acted', batches')
    BY <1>4, <1>7, <2>2, <2>3, <2>6
  <2>8. lost' \in Nat
    BY <1>10, <2>2
  <2>9. PlanIInv'
    BY <1>1, <1>4, <1>7, <1>8, <1>12, <2>7, <2>8, WalksOn
  <2>10. Works(o, v, step')
    BY <1>9, <1>15, <2>4, <2>5 DEF Works, run
  <2>11. QED
    BY <1>13, <2>3, <2>9, <2>10
<1>16. QED
  BY <1>14, <1>15

\* A turn that dies: the plan is as it was, and a batch it had started is lost.
LEMMA TurnDiesKeeps ==
  ASSUME PlanIInv, TurnDies
  PROVE  PlanIInv' /\ NewStarts
<1>1. /\ phase' = "idle" /\ mode' = mode /\ UNCHANGED saved
      /\ mode \in {"normal", "degraded", "finalizing"}
  BY DEF TurnDies, PlanIInv
<1>2. acted' \subseteq acted \cup With("awaiting")
  <2>1. \/ acted' \in {acted \cup A : A \in SUBSET {s \in With("awaiting") : "confirm" \in step[s].asks}}
        \/ acted' = acted
    BY DEF TurnDies
  <2>2. QED
    BY <2>1
<1>3. Charged /\ NewStarts
  <2>1. CASE UNCHANGED <<batches, attempts, lost>>
    BY <2>1 DEF Charged, NewStarts
  <2>2. CASE Dispatching /\ \E n \in Found : \E r \in Runs(Pass(n).batch) :
                Starts(Pass(n), r) /\ lost' = lost + r
    <3>1. PICK n \in Found, r \in {1, 2} : Starts(Pass(n), r) /\ lost' = lost + r
      BY <2>2 DEF Runs
    <3>2. PICK p, X : p = Pass(n) /\ X = ToSet(p.batch)
      OBVIOUS
    <3>3. NewStarts /\ attempts' = Handed(attempts, X, r)
      BY <2>2, <3>1, <3>2, StartsAreNew
    <3>4. /\ phase \in Walking /\ Paid(step, attempts, iter, lost)
          /\ iter \in Nat /\ lost \in Nat
      BY <2>2, Walks DEF Dispatching, Walking, Carried
    <3>5. Paid(step, Handed(attempts, X, r), iter, lost + r) /\ lost' \in Nat
      BY <3>1, <3>4, LostIsPaid
    <3>6. Charged
      BY <3>1, <3>3, <3>4, <3>5 DEF Charged
    <3>7. QED
      BY <3>3, <3>6
  <2>3. QED
    BY <2>1, <2>2 DEF TurnDies
<1>4. PlanIInv'
  BY <1>1, <1>2, <1>3, StaysOrDrops DEF Planning
<1>5. QED
  BY <1>3, <1>4

-----------------------------------------------------------------------------
(* The theorems.                                                           *)
\* The inductive invariant gives what is claimed of a plan.
LEMMA PlanIInvGives == ASSUME PlanIInv PROVE PlanInv
<1>1. Ids = DOMAIN step /\ Family(order, step)
  BY IdsAreSteps DEF PlanIInv
<1>2. PlanTypeOK
  <2>1. Cardinality(Ids) = Len(order)
    BY <1>1, ListCounts DEF Family
  <2>2. ASSUME NEW s \in Ids
        PROVE  /\ step[s].st \in {"pending", "ran", "passed", "failed", "skipped", "expanded", "awaiting"}
               /\ (step[s].st = "awaiting") = (step[s].asks # {})
               /\ step[s].parent # NoName => step[step[s].parent].st = "expanded"
    BY <1>1 DEF Family, Sound, Sts, Stands, IsChild
  <2>3. QED
    BY <1>1, <2>1, <2>2 DEF PlanTypeOK, PlanIInv
<1>3. DependenciesFirst
  BY <1>1 DEF PlanIInv, DependenciesFirst, DepsMet, Done
<1>4. CompletedMeansVerified
  <2>1. SUFFICES ASSUME phase = "synthesizer", TerminalStatus = "completed",
                        NEW k \in DOMAIN PlanOf(raw), ~PlanOf(raw)[k].optional
                 PROVE  Satisfied(step, PlanOf(raw)[k].id)
    BY DEF CompletedMeansVerified
  <2>2. \A s \in Ids : step[s].optional \/ step[s].st \in {"passed", "expanded"}
    BY <2>1 DEF TerminalStatus
  <2>3. Kept(step)
    BY <2>1 DEF PlanIInv, Carries, Walking
  <2> DEFINE d == PlanOf(raw)[k].id
  <2>4. d \in Ids /\ ~step[d].optional /\ d \in GivenNames
    BY <1>1, <2>1, <2>3, PlanMade DEF Kept
  <2> HIDE DEF d
  <2>5. CASE step[d].st = "passed"
    BY <1>1, <2>4, <2>5 DEF Satisfied, d
  <2>6. CASE step[d].st = "expanded"
    <3>1. ChildrenOf(step, d) # {}
      BY <1>1, <2>4, <2>6 DEF Family
    <3>2. ASSUME NEW x \in ChildrenOf(step, d) PROVE step[x].st = "passed"
      <4>1. x \in Ids /\ step[x].parent = d /\ d # NoName
        BY <1>1, <2>4 DEF ChildrenOf, GivenNames
      <4>2. IsChild(step, x)
        BY <1>1, <4>1 DEF Family, Stands
      <4>3. ~step[x].optional /\ step[x].st # "expanded"
        BY <2>4, <4>1, <4>2 DEF IsChild
      <4>4. QED
        BY <2>2, <4>1, <4>3
    <3>3. QED
      BY <1>1, <2>4, <2>6, <3>1, <3>2 DEF Satisfied, d
  <2>7. QED
    BY <2>2, <2>4, <2>5, <2>6
<1>5. QED
  BY <1>2, <1>3, <1>4 DEF PlanInv, PlanIInv

\* It holds of a conversation that has not begun.
LEMMA PlanIInvStarts == ASSUME PlanInit PROVE PlanIInv
<1>1. Lists(<<>>, {})
  BY DEF Lists, Injective, ToSet
<1>2. DOMAIN step = {} /\ Ids = {} /\ DOMAIN attempts = {}
  BY DEF PlanInit, Ids, ToSet
<1>3. Family(order, step) /\ DepsMet(step)
  BY <1>1, <1>2 DEF PlanInit, Family, DepsMet
<1>4. iter \in 0 .. MaxIterations
  <2>1. MaxIterations \in Nat
    BY PlanAssumption
  <2>2. QED
    BY <2>1 DEF PlanInit
<1>5. AttemptsBounded /\ AbandonedPlanNeverRuns
  BY <1>2 DEF PlanInit, AttemptsBounded, AbandonedPlanNeverRuns
<1>6. ~HasPendingPlan
  BY <1>2 DEF HasPendingPlan
<1>7. QED
  BY <1>3, <1>4, <1>5, <1>6 DEF PlanInit, PlanIInv, Phases, Walking, Planning, Carries

\* Every step keeps it, and starts no worker again but in a new batch.
LEMMA PlanIInvStays == ASSUME PlanIInv, [PlanNext]_planVars PROVE PlanIInv' /\ [NewStarts]_planVars
<1>1. CASE PlanNext
  <2>1. CASE \E k \in {"fresh", "resume", "continue"} : Say(k)
    BY <2>1, SayKeeps
  <2>2. CASE Route
    BY <2>2, RouteKeeps
  <2>3. CASE PlannerAnswers \/ Replan
    BY <2>3, PlannerKeeps
  <2>4. CASE Plan
    BY <2>4, PlanKeeps
  <2>5. CASE Resume
    BY <2>5, ResumeKeeps
  <2>6. CASE Wind
    BY <2>6, WindKeeps
  <2>7. CASE Dispatch
    BY <2>7, DispatchKeeps
  <2>8. CASE Verify
    BY <2>8, VerifyKeeps
  <2>9. CASE Synthesize \/ Pause
    BY <2>9, EndKeeps
  <2>9a. CASE TurnDies
    BY <2>9a, TurnDiesKeeps
  <2>10. CASE BudgetMoves
    BY <2>10, BudgetMovesKeeps
  <2>11. QED
    BY <1>1, <2>1, <2>2, <2>3, <2>4, <2>5, <2>6, <2>7, <2>8, <2>9, <2>9a, <2>10 DEF PlanNext, Node
<1>2. CASE UNCHANGED planVars
  <2>1. PlanIInv'
    BY <1>2 DEF planVars, PlanIInv, AttemptsBounded, AbandonedPlanNeverRuns, HasPendingPlan, Ids,
                Carries, Kept
  <2>2. QED
    BY <1>2, <2>1
<1>3. QED
  BY <1>1, <1>2

\* The inductive invariant holds in every state of every conversation.
THEOREM PlanInductive == PlanSpec => []PlanIInv
<1>1. PlanInit => PlanIInv
  BY PlanIInvStarts
<1>2. PlanIInv /\ [PlanNext]_planVars => PlanIInv'
  BY PlanIInvStays
<1>3. QED
  BY <1>1, <1>2, PTL DEF PlanSpec

\* What holds of a plan in every state, over all the turns that carry it:
\* its steps are typed and each of them is in its order once, a worker has started only
\* when everything its step depends on has passed, no worker is started more often than
\* the retry cycles and the batches that were lost allow, a fresh request is answered with
\* its own plan, and a run that is reported as completed has passed every required step of
\* the plan as it was made.
THEOREM PlanCorrect == PlanSpec => []PlanInv
  BY PlanInductive, PlanIInvGives, PTL

\* A worker that starts again starts under a new batch name, and never for a step whose
\* approved action was executed.
THEOREM PlanRestarts == PlanSpec => RestartsAreNew
<1>1. PlanIInv /\ [PlanNext]_planVars => [NewStarts]_planVars
  BY PlanIInvStays
<1>2. QED
  BY <1>1, PlanInductive, PTL DEF PlanSpec, RestartsAreNew, NewStarts

-----------------------------------------------------------------------------
(* What the planner returned is a sequence of steps, cut off or not.       *)
RawIInv == raw \in Seq(PlannedSteps)
LEMMA RawStays == ASSUME RawIInv, [PlanNext]_planVars PROVE RawIInv'
<1>1. \A r \in RawPlans \cup Replans \cup Explored \cup {<<>>} : Truncated(r, MaxSteps) \in Seq(PlannedSteps)
  <2>1. \A r \in RawPlans \cup Replans \cup Explored \cup {<<>>} : r \in Seq(PlannedSteps)
    BY PlanAssumption, EmptySeq
  <2>2. QED
    BY <2>1, PlanAssumption, TruncatedIs
<1>2. <<>> \in Seq(PlannedSteps)
  BY EmptySeq
<1>3. CASE PlannerAnswers
  BY <1>1, <1>3 DEF PlannerAnswers, RawIInv
<1>4. CASE Replan
  BY <1>1, <1>4 DEF Replan, RawIInv
<1>5. CASE Route
  BY <1>2, <1>5 DEF Route, RawIInv, saved
<1>6. CASE ~(PlannerAnswers \/ Replan \/ Route)
  BY <1>6 DEF RawIInv, PlanNext, Node, planVars, saved, Say, Plan, Resume, Wind, Dispatch, Verify, Synthesize,
              Pause, TurnDies, BudgetMoves
<1>7. QED
  BY <1>3, <1>4, <1>5, <1>6

(* A plan is made runnable whatever the planner returns, ids that are      *)
(* doubled or missing, dangling edges, cycles and closing answers included:*)
(* ShapeIsRunnable, for any plans and any limit of their steps.            *)
THEOREM PlanShapeCorrect == PlanSpec => []ShapeIsRunnable
<1>1. PlanInit => RawIInv
  BY EmptySeq DEF PlanInit, RawIInv
<1>2. RawIInv /\ [PlanNext]_planVars => RawIInv'
  BY RawStays
<1>3. RawIInv => ShapeIsRunnable
  <2>1. SUFFICES ASSUME RawIInv, raw # <<>> PROVE ShapeIsRunnable
    BY DEF ShapeIsRunnable
  <2>2. PlanOf(raw) = InitPlan(raw)
    BY <2>1 DEF PlanOf
  <2>3. QED
    BY <2>1, <2>2, PlanWalks DEF ShapeIsRunnable, RawIInv
<1>4. QED
  BY <1>1, <1>2, <1>3, PTL DEF PlanSpec

-----------------------------------------------------------------------------
(* The forecast.  What it rests on is said of plans no step of which was   *)
(* expanded: they have no cycle; and while nothing has failed, the steps   *)
(* that are out, if no more than a batch, are the first of what could run. *)
Plain(s) == \A x \in DOMAIN s : s[x].st \in {"pending", "ran", "awaiting", "passed"}
Out(s) == {x \in DOMAIN s : s[x].st \in {"ran", "awaiting"}}
Deps(s) == [x \in DOMAIN s |-> s[x].deps]
InTurn(o, s) ==
  Plain(s) /\ Out(s) # {} /\ Cardinality(Out(s)) <= MaxParallel =>
    Out(s) = ToSet(Firsts(Those(o, Out(s) \cup ReadyIn(s)), MaxParallel))
Unexpanded(s) == \A x \in DOMAIN s : s[x].st # "expanded"
Acyclic(s) == Unexpanded(s) => Graph(Deps(s), DOMAIN s) /\ NeverRunnable(Deps(s)) = {}
WavesIInv ==
  /\ Acyclic(step) /\ InTurn(order, step)
  /\ phase = "verifier" => "awaiting" \notin States(step) /\ "ran" \in States(step)

\* In such a plan a dependency is satisfied when it has passed.
LEMMA PlainReady ==
  ASSUME NEW s, Plain(s)
  PROVE  /\ Unexpanded(s)
         /\ \A d : Satisfied(s, d) = (d \in DOMAIN s /\ s[d].st = "passed")
  BY DEF Plain, Unexpanded, Satisfied

\* The first steps of a list are all of them, when they are no more.
LEMMA AllInTurn ==
  ASSUME NEW o, NEW D, Lists(o, D), NEW T \in SUBSET D, Cardinality(T) <= MaxParallel
  PROVE  ToSet(Firsts(Those(o, T), MaxParallel)) = T
<1>1. D \cap T = T
  OBVIOUS
<1>2. Lists(Those(o, T), T)
  BY <1>1, ThoseLists
<1>3. QED
  BY <1>2, FirstsIs, PlanAssumption

\* A plan is acyclic as it is made.
LEMMA MadeAcyclic ==
  ASSUME NEW r \in Explored, NEW o, NEW s, Made(r, o, s)
  PROVE  Acyclic(s) /\ Out(s) = {}
<1> DEFINE planned == IF r = <<>> THEN Fallback ELSE r
           p == PlanOf(r)
           ids == {p[k].id : k \in DOMAIN p}
           g == [x \in ids |-> p[CHOOSE k \in DOMAIN p : p[k].id = x].deps]
<1>1. planned \in Seq(PlannedSteps) /\ planned # <<>>
  <2>1. Fallback \in Seq(PlannedSteps) /\ Fallback # <<>>
    BY DEF Fallback, PlannedSteps, PlannedNames, NoName
  <2>2. QED
    BY <2>1, PlanAssumption
<1>2. p = InitPlan(planned)
  BY DEF PlanOf
<1> HIDE DEF planned
<1>3. Walkable(p)
  BY <1>1, <1>2, PlanWalks
<1>5. (\A x \in ids : g[x] \subseteq ids) /\ \A x \in ids : ~OnCycle(g, x)
  BY <1>3 DEF Walkable
<1>6. DOMAIN s = ids /\ \A x \in ids : s[x] = NewStep(p[CHOOSE k \in DOMAIN p : p[k].id = x])
  BY DEF Made
<1>6a. \A q : NewStep(q).deps = q.deps /\ NewStep(q).st = "pending"
  BY DEF NewStep
<1>7. Deps(s) = g
  BY <1>6, <1>6a DEF Deps
<1>8. Out(s) = {}
  BY <1>6, <1>6a DEF Out
<1>9. DOMAIN g = ids
  OBVIOUS
<1>10. IsFiniteSet(ids)
  BY <1>6, PlanStarts, ListCounts DEF Family
<1> HIDE DEF g, ids, p
<1>11. Graph(g, ids)
  BY <1>5, <1>9, <1>10 DEF Graph
<1>12. NeverRunnable(g) = {}
  <2>1. NeverRunnable(g) = WaitsForCycle(g)
    BY <1>11, NeverWaits
  <2>2. \A t \in ids : WaitsFor(g, t) \subseteq ids
    BY <1>9 DEF WaitsFor
  <2>3. WaitsForCycle(g) = {}
    BY <1>5, <1>9, <2>2 DEF WaitsForCycle
  <2>4. QED
    BY <2>1, <2>3
<1>13. QED
  BY <1>6, <1>7, <1>8, <1>11, <1>12 DEF Acyclic

\* It stays acyclic while its steps go on, and no step is expanded.
LEMMA AcyclicStays ==
  ASSUME NEW s, Acyclic(s), NEW t, DOMAIN t = DOMAIN s,
         \A x \in DOMAIN s : t[x].deps = s[x].deps /\ (s[x].st = "expanded" => t[x].st = "expanded")
  PROVE  Acyclic(t)
<1>1. Deps(t) = Deps(s)
  BY DEF Deps
<1>2. Unexpanded(t) => Unexpanded(s)
  BY DEF Unexpanded
<1>3. QED
  BY <1>1, <1>2 DEF Acyclic

\* Without an expanded step, an expansion has left the steps where they were.
LEMMA AcyclicGrown ==
  ASSUME NEW s, NEW p, Family(p, s), Acyclic(s), NEW t, NEW q, Family(q, t), Grown(s, t)
  PROVE  Acyclic(t)
<1>1. SUFFICES ASSUME Unexpanded(t) PROVE Graph(Deps(t), DOMAIN t) /\ NeverRunnable(Deps(t)) = {}
  BY DEF Acyclic
<1>2. DOMAIN t = DOMAIN s
  <2>1. SUFFICES ASSUME NEW x \in DOMAIN t, x \notin DOMAIN s PROVE FALSE
    BY DEF Grown
  <2>2. t[x].parent \in DOMAIN s /\ t[x].parent # NoName
    BY <2>1 DEF Grown, Family
  <2>3. IsChild(t, x)
    BY <2>2 DEF Family, Stands
  <2>4. QED
    BY <1>1, <2>3 DEF IsChild, Unexpanded
<1>3. \A x \in DOMAIN s : t[x].deps = s[x].deps /\ (s[x].st = "expanded" => t[x].st = "expanded")
  BY DEF Grown
<1>4. Acyclic(t)
  BY <1>2, <1>3, AcyclicStays
<1>5. QED
  BY <1>1, <1>4 DEF Acyclic

\* Steps that go on, and of which none has failed, are out as they were.
LEMMA TurnStays ==
  ASSUME NEW o, NEW s, InTurn(o, s), NEW t, GoesOn(s, t)
  PROVE  InTurn(o, t)
<1>1. SUFFICES ASSUME Plain(t), Out(t) # {}, Cardinality(Out(t)) <= MaxParallel
               PROVE  Out(t) = ToSet(Firsts(Those(o, Out(t) \cup ReadyIn(t)), MaxParallel))
  BY DEF InTurn
<1>2. DOMAIN t = DOMAIN s /\ \A x \in DOMAIN s : t[x].deps = s[x].deps
  BY DEF GoesOn, Updated, Changed
<1>3. \A x \in DOMAIN s : t[x].st = s[x].st \/ (s[x].st = "awaiting" /\ t[x].st = "ran")
  BY <1>1, <1>2 DEF GoesOn, Plain
<1>4. Plain(s) /\ Out(t) = Out(s)
  BY <1>1, <1>2, <1>3 DEF Plain, Out
<1>5. \A d : Satisfied(t, d) = Satisfied(s, d)
  BY <1>1, <1>2, <1>3, <1>4, PlainReady
<1>6. ReadyIn(t) = ReadyIn(s)
  BY <1>2, <1>3, <1>5 DEF ReadyIn
<1>7. QED
  BY <1>1, <1>4, <1>6 DEF InTurn

\* A batch that is out alone is the first of what was ready.
LEMMA BatchInTurn ==
  ASSUME NEW o, NEW v, Family(o, v), NEW u, Works(o, v, u)
  PROVE  InTurn(o, u)
<1> DEFINE run == Runnable(o, v)
           X == ToSet(Firsts(run, MaxParallel))
<1>1. SUFFICES ASSUME Plain(u), Out(u) # {}, Cardinality(Out(u)) <= MaxParallel
               PROVE  Out(u) = ToSet(Firsts(Those(o, Out(u) \cup ReadyIn(u)), MaxParallel))
  BY DEF InTurn
<1>2. PICK W \in Nat \ {0} : W = MaxParallel
  BY PlanAssumption
<1>3. Lists(o, DOMAIN v)
  BY DEF Family
<1>4. run = Those(o, ReadyIn(v)) /\ Lists(run, ReadyIn(v))
  BY <1>3, RunnableLists
<1>5. /\ X \subseteq ReadyIn(v) /\ (Cardinality(ReadyIn(v)) <= W => X = ReadyIn(v))
      /\ (W <= Cardinality(ReadyIn(v)) => Cardinality(X) = W)
  BY <1>2, <1>4, FirstsIs
<1>6. IsFiniteSet(DOMAIN v) /\ Cardinality(ReadyIn(v)) \in Nat
  BY <1>3, <1>4, ListCounts, FS_CardinalityType
<1>7. IF run = <<>> THEN u = Unreachable(v)
      ELSE Updated(v, u) /\ \A x \in DOMAIN v : IF x \in X THEN u[x].st \in {"ran", "awaiting"} ELSE u[x] = v[x]
  BY DEF Works
<1> HIDE DEF run, X
<1>8. CASE run = <<>>
  <2>1. ReadyIn(v) = {}
    BY <1>4, <1>8 DEF Lists, ToSet
  <2>2. u = Unreachable(v)
    BY <1>7, <1>8
  <2>3. ASSUME States(v) \cap {"ran", "awaiting"} = {} PROVE FALSE
    <3>1. u = [x \in DOMAIN v |->
                 IF v[x].st = "pending"
                 THEN [v[x] EXCEPT !.st = "failed", !.noRetry = TRUE, !.res = "error", !.reason = "unreachable"]
                 ELSE v[x]]
      BY <2>2, <2>3 DEF Unreachable
    <3>2. \A x \in DOMAIN v : v[x].st \notin {"ran", "awaiting"}
      BY <2>3 DEF States
    <3>3. \A x \in DOMAIN v : DOMAIN v[x] = StepFields
      BY DEF Family, Sound
    <3>4. \A x \in DOMAIN v : u[x].st \notin {"ran", "awaiting"}
      BY <3>1, <3>2, <3>3 DEF StepFields
    <3>5. QED
      BY <1>1, <3>1, <3>4 DEF Out
  <2>4. u = v
    BY <2>2, <2>3 DEF Unreachable
  <2>5. Out(u) \cup ReadyIn(u) = Out(u) /\ Out(u) \subseteq DOMAIN v
    BY <2>1, <2>4 DEF Out
  <2>6. QED
    BY <1>1, <1>3, <2>5, AllInTurn
<1>9. CASE run # <<>>
  <2>1. /\ Updated(v, u) /\ DOMAIN u = DOMAIN v
        /\ \A x \in DOMAIN v : IF x \in X THEN u[x].st \in {"ran", "awaiting"} ELSE u[x] = v[x]
    BY <1>7, <1>9 DEF Updated
  <2>2. \A x \in DOMAIN v : u[x].deps = v[x].deps /\ (u[x].st = "expanded") = (v[x].st = "expanded")
    BY <2>1 DEF Updated, Changed
  <2>3. \A x \in X : x \in DOMAIN v /\ v[x].st = "pending"
    BY <1>5 DEF ReadyIn
  <2>4. Out(u) = Out(v) \cup X /\ Out(v) \cap X = {}
    BY <2>1, <2>3 DEF Out
  <2>5. Unexpanded(u) /\ Unexpanded(v)
    BY <1>1, <2>1, <2>2, PlainReady DEF Unexpanded
  <2>6. \A x \in DOMAIN v : (u[x].st = "passed") = (v[x].st = "passed")
    BY <2>1, <2>3
  <2>7. \A d : Satisfied(u, d) = Satisfied(v, d)
    BY <2>1, <2>5, <2>6 DEF Satisfied, Unexpanded
  <2>8. ReadyIn(u) = ReadyIn(v) \ X
    <3>1. \A x \in DOMAIN v : u[x].st = "pending" <=> v[x].st = "pending" /\ x \notin X
      BY <2>1, <2>3
    <3>2. QED
      BY <2>1, <2>2, <2>7, <3>1 DEF ReadyIn
  <2>9. CASE Out(v) = {}
    <3>1. Out(u) \cup ReadyIn(u) = ReadyIn(v) /\ Out(u) = X
      BY <1>5, <2>4, <2>8, <2>9
    <3>2. QED
      BY <1>4, <3>1 DEF X, run
  <2>10. CASE Out(v) # {}
    <3>1. IsFiniteSet(Out(u)) /\ X \subseteq Out(u) /\ Out(u) \subseteq DOMAIN v
      BY <1>6, <2>1, <2>4, FS_Subset DEF Out
    <3>2. Cardinality(X) < Cardinality(Out(u))
      <4>1. PICK y \in Out(v) : TRUE
        BY <2>10
      <4>2. y \in Out(u) /\ X \subseteq Out(u) \ {y}
        BY <2>4, <4>1
      <4>3. IsFiniteSet(Out(u) \ {y}) /\ Cardinality(Out(u) \ {y}) = Cardinality(Out(u)) - 1
        BY <3>1, <4>2, FS_RemoveElement
      <4>4. Cardinality(X) <= Cardinality(Out(u) \ {y})
        BY <4>2, <4>3, FS_Subset
      <4>5. IsFiniteSet(X) /\ Cardinality(X) \in Nat /\ Cardinality(Out(u)) \in Nat
        BY <3>1, FS_Subset, FS_CardinalityType
      <4>6. QED
        BY <4>3, <4>4, <4>5
    <3>3. Cardinality(Out(u)) \in Nat
      BY <3>1, FS_CardinalityType
    <3>4. X = ReadyIn(v)
      BY <1>1, <1>2, <1>5, <1>6, <3>2, <3>3
    <3>5. Out(u) \cup ReadyIn(u) = Out(u)
      BY <2>8, <3>4
    <3>6. QED
      BY <1>1, <1>3, <3>1, <3>5, AllInTurn
  <2>11. QED
    BY <2>9, <2>10
<1>10. QED
  BY <1>8, <1>9

\* A plan that is not there.
LEMMA NoPlan == Acyclic(<<>>) /\ InTurn(<<>>, <<>>)
<1>1. Deps(<<>>) = <<>> /\ DOMAIN <<>> = {} /\ Out(<<>>) = {}
  BY DEF Deps, Out
<1>2. Graph(<<>>, {})
  BY FS_EmptySet DEF Graph
<1>3. NeverRunnable(<<>>) = {}
  BY <1>2, NeverIs DEF Stuck
<1>4. QED
  BY <1>1, <1>2, <1>3 DEF Acyclic, InTurn

\* The verifier is only gone to with something to verify, and nothing to wait for.
LEMMA VerifierComes ==
  ASSUME phase' = AfterDispatch(States(step')), Acyclic(step'), InTurn(order', step')
  PROVE  WavesIInv'
<1>1. phase' = "verifier" => "awaiting" \notin States(step') /\ "ran" \in States(step')
  BY DEF AfterDispatch
<1>2. QED
  BY <1>1 DEF WavesIInv

\* What the forecast rests on is kept by every step of a conversation.
LEMMA WavesStay ==
  ASSUME PlanIInv, WavesIInv, [PlanNext]_planVars
  PROVE  WavesIInv'
<1>1. Acyclic(step) /\ InTurn(order, step) /\ Family(order, step)
  BY DEF WavesIInv, PlanIInv
<1>2. CASE Resume \/ Wind
  <2>1. GoesOn(step, step') /\ order' = order /\ phase' = AfterDispatch(States(step'))
    BY <1>2, ResumeKeeps, WindKeeps DEF Resume, Wind
  <2>2. Acyclic(step')
    BY <1>1, <2>1, AcyclicStays DEF GoesOn, Updated, Changed
  <2>3. InTurn(order', step')
    BY <1>1, <2>1, TurnStays
  <2>4. QED
    BY <2>1, <2>2, <2>3, VerifierComes
<1>3. CASE Dispatch
  <2>1. Dispatched /\ phase' = AfterDispatch(States(step'))
    BY <1>3, DispatchKeeps DEF Dispatch
  <2>2. PICK s, t : /\ Updated(step, s) /\ Family(order, s)
                    /\ Grown(s, t) /\ Family(order', t) /\ Works(order', t, step')
    BY <2>1 DEF Dispatched
  <2>3. InTurn(order', step')
    BY <2>2, BatchInTurn
  <2>4. Acyclic(s)
    BY <1>1, <2>2, AcyclicStays DEF Updated, Changed
  <2>5. Acyclic(t)
    BY <2>2, <2>4, AcyclicGrown
  <2>6. Updated(t, step')
    BY <2>2, UnreachableUpdates DEF Works, Family
  <2>7. Acyclic(step')
    BY <2>5, <2>6, AcyclicStays DEF Updated, Changed
  <2>8. QED
    BY <2>1, <2>3, <2>7, VerifierComes
<1>4. CASE Verify
  <2>1. Judges(step, step') /\ order' = order /\ phase' # "verifier" /\ phase = "verifier"
    BY <1>4, VerifyKeeps DEF Verify, AfterVerify
  <2>2. Acyclic(step')
    BY <1>1, <2>1, AcyclicStays DEF Judges, Updated, Changed
  <2>3. \A x \in DOMAIN step : step[x].st # "awaiting"
    BY <2>1 DEF WavesIInv, States
  <2>4. Out(step') = {}
    BY <2>1, <2>3 DEF Out, Judges, Updated
  <2>5. QED
    BY <2>1, <2>2, <2>4 DEF WavesIInv, InTurn
<1>5. CASE Plan
  <2>1. Made(raw, order', step') /\ raw \in Explored /\ phase' = "dispatcher"
    BY <1>5, Zenon DEF Plan, Made
  <2>2. Acyclic(step') /\ Out(step') = {}
    BY <2>1, MadeAcyclic
  <2>3. QED
    BY <2>1, <2>2 DEF WavesIInv, InTurn
<1>6. CASE Route \/ Synthesize
  <2>1. /\ phase' # "verifier"
        /\ (order' = order /\ step' = step) \/ (order' = <<>> /\ step' = <<>>)
    BY <1>6 DEF Route, Synthesize, saved
  <2>2. QED
    BY <1>1, <2>1, NoPlan DEF WavesIInv
<1>7. CASE ~(Resume \/ Wind \/ Dispatch \/ Verify \/ Plan \/ Route \/ Synthesize)
  <2>1. order' = order /\ step' = step /\ (phase' = "verifier" => phase = "verifier")
    BY <1>7 DEF PlanNext, Node, planVars, saved, Say, PlannerAnswers, Replan, Pause, TurnDies, BudgetMoves
  <2>2. QED
    BY <1>1, <2>1 DEF WavesIInv
<1>8. QED
  BY <1>2, <1>3, <1>4, <1>5, <1>6, <1>7

-----------------------------------------------------------------------------
(* A batch that fits passes as a whole, and nothing else is left but steps *)
(* that wait: then the forecast is one less, or was one and nothing waits. *)
Verified ==
  /\ phase = "verifier" /\ phase' \in {"dispatcher", "synthesizer"}
  /\ Cardinality(With("ran")) <= MaxParallel
  /\ \A s \in Ids : step'[s].st \in {"pending", "passed"}
Forecast == IF Left' = <<>> THEN Waves = 1 ELSE Waves' = Waves - 1

\* A batch that passes is one pass of the forecast.
LEMMA VerifiedIsWave ==
  ASSUME PlanIInv, WavesIInv, PlanNext, Verified
  PROVE  Forecast
<1>1. Verify
  BY DEF Verified, PlanNext, Node, Say, Route, PlannerAnswers, Replan, Plan, Resume, Wind, Dispatch, Dispatching,
         Synthesize, Pause, TurnDies, BudgetMoves
<1>2. Judges(step, step') /\ order' = order
  BY <1>1, VerifyKeeps DEF Verify
<1> DEFINE D == DOMAIN step
           e == Deps(step)
           out == Out(step)
           L == {x \in D : step[x].st \in {"pending", "ran"}}
<1>3. Ids = D /\ Ids' = D /\ Lists(order, D) /\ DOMAIN step' = D
  BY <1>2, IdsAreSteps DEF PlanIInv, Family, Judges, Updated, Lists, Ids
<1>4. \A x \in D : IF step[x].st = "ran" THEN step'[x].st = "passed"
                   ELSE step'[x] = step[x] /\ step[x].st \in {"pending", "passed"}
  BY <1>2, <1>3 DEF Judges, Verified
<1>5. Plain(step) /\ out = {x \in D : step[x].st = "ran"} /\ out = With("ran")
  BY <1>3, <1>4 DEF Plain, Out, With
<1>6. out # {}
  BY <1>5 DEF WavesIInv, Verified, States
<1>7. Graph(e, D) /\ NeverRunnable(e) = {} /\ e = [x \in D |-> step[x].deps]
  BY <1>5, PlainReady DEF WavesIInv, Acyclic, Deps
<1>8. out = ToSet(Firsts(Those(order, out \cup ReadyIn(step)), MaxParallel))
  BY <1>5, <1>6 DEF WavesIInv, InTurn, Verified
<1>9. \A d : Satisfied(step, d) = (d \in D /\ step[d].st = "passed")
  BY <1>5, PlainReady
<1>10. MaxParallel \in Nat \ {0}
  BY PlanAssumption
<1>11. Left = Those(order, L) /\ Left' = Those(order, L \ out)
  <2>1. {x \in D : step[x].st \notin {"passed", "skipped", "expanded"}} = L
    BY <1>4
  <2>2. {x \in D : step'[x].st \notin {"passed", "skipped", "expanded"}} = L \ out
    BY <1>4, <1>5
  <2>3. Left = Those(order, {x \in D : step[x].st \notin {"passed", "skipped", "expanded"}})
    BY <1>3 DEF Left
  <2>4. Left' = Those(order, {x \in D : step'[x].st \notin {"passed", "skipped", "expanded"}})
    BY <1>2, <1>3 DEF Left
  <2>5. QED
    BY <2>1, <2>2, <2>3, <2>4
<1>12. Waves = RemainingWaves(Left, e, MaxParallel) /\ Waves' = RemainingWaves(Left', e, MaxParallel)
  <2>1. [x \in Ids |-> step[x].deps] = e
    BY <1>3, <1>7
  <2>2. [x \in Ids |-> step[x].deps]' = e
    <3>1. \A x \in D : step'[x].deps = step[x].deps
      BY <1>2 DEF Judges, Updated, Changed
    <3>2. QED
      BY <1>3, <1>7, <3>1
  <2>3. QED
    BY <2>1, <2>2 DEF Waves
<1>13. Lists(Left, L)
  <2>1. D \cap L = L
    OBVIOUS
  <2> HIDE DEF L
  <2>2. QED
    BY <1>3, <1>11, <2>1, ThoseLists
<1>14. {x \in ToSet(Left) : e[x] \cap ToSet(Left) = {}} = out \cup ReadyIn(step)
  <2>1. ToSet(Left) = L
    BY <1>13 DEF Lists
  <2>2. ASSUME NEW x \in out \cup ReadyIn(step) PROVE x \in L /\ e[x] \cap L = {}
    <3>1. x \in D /\ step[x].st \in {"ran", "pending"} /\ e[x] = step[x].deps
      BY <1>5, <1>7 DEF ReadyIn
    <3>2. \A d \in step[x].deps : Satisfied(step, d)
      <4>1. CASE x \in out
        BY <1>5, <4>1 DEF PlanIInv, DepsMet, Done
      <4>2. CASE x \in ReadyIn(step)
        BY <4>2 DEF ReadyIn
      <4>3. QED
        BY <4>1, <4>2
    <3>3. QED
      BY <1>9, <3>1, <3>2
  <2>3. ASSUME NEW x \in L, e[x] \cap L = {}, x \notin out PROVE x \in ReadyIn(step)
    <3>1. x \in D /\ step[x].st = "pending" /\ e[x] = step[x].deps /\ e[x] \subseteq D
      BY <1>5, <1>7, <2>3 DEF Graph
    <3>2. \A d \in e[x] : d \in D /\ step[d].st = "passed"
      BY <1>4, <2>3, <3>1
    <3>3. QED
      BY <1>9, <3>1, <3>2 DEF ReadyIn
  <2> HIDE DEF L, e, out
  <2>4. QED
    BY <2>1, <2>2, <2>3
<1>15. Passed(Left, e, MaxParallel) = Left'
  <2>1. ToSet(Left) = L /\ order \in Seq(D)
    BY <1>3, <1>13 DEF Lists
  <2>2. L \cap (out \cup ReadyIn(step)) = out \cup ReadyIn(step)
    BY <1>5 DEF ReadyIn
  <2>3. L \cap (L \ out) = L \ out
    OBVIOUS
  <2> HIDE DEF L, e, out
  <2>4. Those(Left, out \cup ReadyIn(step)) = Those(order, out \cup ReadyIn(step))
    BY <1>11, <2>1, <2>2, ThoseThose
  <2>5. Those(Left, L \ out) = Those(order, L \ out)
    BY <1>11, <2>1, <2>3, ThoseThose
  <2>6. QED
    BY <1>8, <1>11, <1>14, <2>1, <2>4, <2>5 DEF Passed
<1>16. Left # <<>>
  <2>1. L # {}
    BY <1>5, <1>6
  <2>2. QED
    BY <1>13, <2>1 DEF Lists, ToSet
<1>17. L \in SUBSET D
  OBVIOUS
<1> HIDE DEF D, L, e, out
<1>18. /\ Left' = <<>> => RemainingWaves(Left, e, MaxParallel) = 1
       /\ Left' # <<>> => RemainingWaves(Left', e, MaxParallel) = RemainingWaves(Left, e, MaxParallel) - 1
  <2>1. LET q == Passed(Left, e, MaxParallel) IN
        /\ q = <<>> => RemainingWaves(Left, e, MaxParallel) = 1
        /\ q # <<>> => RemainingWaves(q, e, MaxParallel) = RemainingWaves(Left, e, MaxParallel) - 1
    BY <1>7, <1>10, <1>13, <1>16, <1>17, OneWave
  <2>2. QED
    BY <1>15, <2>1
<1>19. QED
  BY <1>12, <1>18 DEF Forecast

(* The passes the budget is divided by are the passes the plan takes, as   *)
(* long as its steps pass and none of them is mapped: WavesForecast, for   *)
(* any plans, any width of a batch, and over the turns a plan is carried.  *)
THEOREM PlanForecast == PlanSpec => WavesForecast
<1>1. PlanInit => WavesIInv
  BY NoPlan DEF PlanInit, WavesIInv
<1>2. PlanIInv /\ WavesIInv /\ [PlanNext]_planVars => WavesIInv'
  BY WavesStay
<1>3. PlanIInv /\ WavesIInv /\ [PlanNext]_planVars => [Verified => Forecast]_planVars
  BY VerifiedIsWave
<1>4. QED
  BY <1>1, <1>2, <1>3, PlanInductive, PTL DEF PlanSpec, WavesForecast, Verified, Forecast
=============================================================================
