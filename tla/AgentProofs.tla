----------------------------- MODULE AgentProofs -----------------------------
(***************************************************************************)
(* Proofs about the single agent.  ConversationHistory, for any limits,    *)
(* sizes and number of messages: what a turn is told of the history loses  *)
(* nothing that still fits, and its owner reads all of it.  AgentLoop and  *)
(* the ContextWindow it sends, for any tools and skills, any limits, any   *)
(* older exchanges and whatever the model answers: what is asked, what     *)
(* runs, what is sent of it and what is shown fit together.                *)
(***************************************************************************)
EXTENDS ConversationHistory, AgentLoop, DataInduction, SequenceTheorems

-----------------------------------------------------------------------------
(* ConversationHistory.                                                    *)
(* What is kept, and the two orders of ids.                                *)
Messages == [id : Nat \ {0}, is : {"question", "resume", "continue", "answer", "broken"}, size : 1 .. Target]
Ascending(s) == \A i, j \in DOMAIN s : i < j => s[i].id < s[j].id
Rising(s) == \A i, j \in DOMAIN s : i < j => s[i] < s[j]

\* What is left of a sequence behind one of its elements.
LEMMA AfterIs ==
  ASSUME NEW S, NEW s \in Seq(S), NEW i \in 0 .. Len(s)
  PROVE  /\ After(s, i) \in Seq(S) /\ Len(After(s, i)) = Len(s) - i
         /\ \A k \in 1 .. Len(s) - i : After(s, i)[k] = s[i + k]
<1>1. Len(s) \in Nat /\ i + 1 \in Int
  BY LenProperties
<1>2. \A k \in i + 1 .. Len(s) : s[k] \in S
  BY <1>1, ElementOfSeq
<1> DEFINE a == SubSeq(s, i + 1, Len(s))
<1>3. /\ a \in Seq(S) /\ Len(a) = IF i + 1 <= Len(s) THEN Len(s) - (i + 1) + 1 ELSE 0
      /\ \A k \in 1 .. Len(s) - (i + 1) + 1 : a[k] = s[i + 1 + k - 1]
  BY <1>1, <1>2, SubSeqProperties
<1> HIDE DEF a
<1>4. /\ a \in Seq(S) /\ Len(a) = Len(s) - i
      /\ \A k \in 1 .. Len(s) - i : a[k] = s[i + k]
  BY <1>1, <1>3
<1>5. QED
  BY <1>4 DEF After, a

\* Behind nothing is all of it.
LEMMA AfterNone == ASSUME NEW S, NEW s \in Seq(S) PROVE After(s, 0) = s
  BY SubSeqFull DEF After

(* The start of the n latest elements.                                     *)
Early(s, n) == IF Len(s) > n THEN Len(s) - n ELSE 0
\* The latest elements are what is left behind the early ones.
LEMMA LatestIs ==
  ASSUME NEW S, NEW s \in Seq(S), NEW n \in Nat
  PROVE  /\ Early(s, n) \in 0 .. Len(s) /\ Latest(s, n) = After(s, Early(s, n))
         /\ Len(Latest(s, n)) = IF Len(s) > n THEN n ELSE Len(s)
<1>1. Len(s) \in Nat
  BY LenProperties
<1>2. CASE Len(s) > n
  <2>1. Early(s, n) = Len(s) - n /\ Early(s, n) \in 0 .. Len(s) /\ Latest(s, n) = After(s, Early(s, n))
    BY <1>1, <1>2 DEF Early, Latest, After
  <2>2. Len(After(s, Early(s, n))) = Len(s) - Early(s, n)
    BY <2>1, AfterIs
  <2>3. QED
    BY <1>1, <1>2, <2>1, <2>2
<1>3. CASE ~(Len(s) > n)
  <2>1. Early(s, n) = 0 /\ Latest(s, n) = s
    BY <1>3 DEF Early, Latest
  <2>2. QED
    BY <1>1, <1>3, <2>1, AfterNone
<1>4. QED
  BY <1>2, <1>3

\* What is left of ascending messages: those with the greater ids.
LEMMA AfterSet ==
  ASSUME NEW s \in Seq(Messages), Ascending(s), NEW i \in 0 .. Len(s)
  PROVE  /\ Ascending(After(s, i))
         /\ ToSet(After(s, i)) = {m \in ToSet(s) : i = 0 \/ m.id > s[i].id}
<1> DEFINE a == After(s, i)
<1>1. /\ a \in Seq(Messages) /\ Len(a) = Len(s) - i
      /\ \A k \in 1 .. Len(s) - i : a[k] = s[i + k]
  BY AfterIs
<1>2. PICK n \in Nat : n = Len(s) /\ DOMAIN s = 1 .. n /\ DOMAIN a = 1 .. n - i
  BY <1>1, LenProperties
<1>3. \A k \in 1 .. n : s[k] \in Messages
  BY <1>2, ElementOfSeq
<1> HIDE DEF a
<1>4. \A k \in 1 .. n - i : i + k \in 1 .. n /\ a[k] = s[i + k]
  BY <1>1, <1>2
<1>5. Ascending(a)
  <2>1. SUFFICES ASSUME NEW k \in 1 .. n - i, NEW l \in 1 .. n - i, k < l PROVE a[k].id < a[l].id
    BY <1>2 DEF Ascending
  <2>2. i + k < i + l /\ i + k \in 1 .. n /\ i + l \in 1 .. n
    BY <1>2, <2>1
  <2>3. QED
    BY <1>2, <1>4, <2>2 DEF Ascending
<1>6. ToSet(a) = {a[k] : k \in 1 .. n - i} /\ ToSet(s) = {s[k] : k \in 1 .. n}
  BY <1>2 DEF ToSet
<1>7. ASSUME NEW k \in 1 .. n - i PROVE a[k] \in ToSet(s) /\ (i = 0 \/ a[k].id > s[i].id)
  <2>1. i + k \in 1 .. n /\ a[k] = s[i + k] /\ i < i + k
    BY <1>2, <1>4
  <2>2. i # 0 => i \in 1 .. n
    BY <1>2
  <2>3. i # 0 => s[i].id < s[i + k].id /\ s[i].id \in Nat /\ s[i + k].id \in Nat
    BY <1>2, <1>3, <2>1, <2>2 DEF Ascending, Messages
  <2>4. QED
    BY <1>6, <2>1, <2>3
<1>8. ASSUME NEW k \in 1 .. n, i = 0 \/ s[k].id > s[i].id PROVE s[k] \in ToSet(a)
  <2>1. k > i
    <3>1. SUFFICES ASSUME ~(k > i) PROVE FALSE
      OBVIOUS
    <3>2. i # 0 /\ i \in 1 .. n /\ s[k].id > s[i].id /\ (k = i \/ k < i)
      BY <1>2, <1>8, <3>1
    <3>3. s[k].id \in Nat /\ s[i].id \in Nat
      BY <1>3, <3>2 DEF Messages
    <3>4. k < i => s[k].id < s[i].id
      BY <1>2, <3>2 DEF Ascending
    <3>5. QED
      BY <3>2, <3>3, <3>4
  <2>2. k - i \in 1 .. n - i /\ i + (k - i) = k
    BY <1>2, <2>1
  <2>3. a[k - i] = s[k]
    BY <1>4, <2>2
  <2>4. QED
    BY <1>6, <2>2, <2>3
<1>9. ToSet(a) = {m \in ToSet(s) : i = 0 \/ m.id > s[i].id}
  BY <1>6, <1>7, <1>8
<1>10. QED
  BY <1>5, <1>9 DEF a

NextReadable(g, ms, i) ==
  IF i = 0 THEN <<>> ELSE IF Readable(ms[i]) THEN Append(g[i - 1], ms[i]) ELSE g[i - 1]
ReadableUpTo(g, ms, n) == g = [i \in 0 .. n |-> NextReadable(g, ms, i)]

\* What ReadableOf unfolds to.
LEMMA ReadableUnfolds ==
  ASSUME NEW ms
  PROVE  ReadableOf(ms) = (CHOOSE g : ReadableUpTo(g, ms, Len(ms)))[Len(ms)]
  BY DEF ReadableOf, ReadableUpTo, NextReadable

\* Its prefixes exist.
LEMMA ReadableExists == ASSUME NEW ms, NEW m \in Nat PROVE \E g : ReadableUpTo(g, ms, m)
<1> DEFINE P(n) == \E g : ReadableUpTo(g, ms, n)
           I == {n \in Nat : P(n)}
<1>1. 0 \in I
  <2> DEFINE g == [i \in 0 .. 0 |-> <<>>]
  <2>1. ReadableUpTo(g, ms, 0)
    BY DEF ReadableUpTo, NextReadable
  <2> HIDE DEF g
  <2>2. QED
    BY <2>1
<1>2. ASSUME NEW n \in I PROVE n + 1 \in I
  <2>1. PICK g : g = [i \in 0 .. n |-> NextReadable(g, ms, i)]
    BY DEF ReadableUpTo
  <2> DEFINE h == [i \in 0 .. n + 1 |-> NextReadable(g, ms, i)]
  <2>2. ASSUME NEW i \in 0 .. n + 1 PROVE NextReadable(g, ms, i) = NextReadable(h, ms, i)
    <3>1. CASE i = 0
      BY <3>1 DEF NextReadable
    <3>2. CASE i # 0
      <4>1. i - 1 \in 0 .. n /\ i - 1 \in 0 .. n + 1
        BY <3>2
      <4>2. h[i - 1] = g[i - 1]
        BY <2>1, <4>1, Zenon
      <4> HIDE DEF h
      <4>3. QED
        BY <3>2, <4>2 DEF NextReadable
    <3>3. QED
      BY <3>1, <3>2
  <2>3. h = [i \in 0 .. n + 1 |-> NextReadable(h, ms, i)]
    BY <2>2, Zenon
  <2> HIDE DEF h
  <2>4. P(n + 1)
    BY <2>3 DEF ReadableUpTo
  <2>5. QED
    BY <2>4
<1> HIDE DEF P
<1>3. I \in SUBSET Nat
  OBVIOUS
<1>4. Nat \subseteq I
  <2> HIDE DEF I
  <2>1. QED
    BY <1>1, <1>2, <1>3, NatInd
<1>5. QED
  BY <1>4 DEF P

(* A table of the readable messages of every prefix.                       *)
Reads(g, ms) ==
  /\ g[0] = <<>>
  /\ \A n \in 1 .. Len(ms) : g[n] = IF Readable(ms[n]) THEN Append(g[n - 1], ms[n]) ELSE g[n - 1]
\* There is one, and it ends with what ReadableOf says.
LEMMA ReadableTable ==
  ASSUME NEW ms \in Seq(Messages)
  PROVE  \E g : Reads(g, ms) /\ ReadableOf(ms) = g[Len(ms)]
<1>1. PICK m \in Nat : m = Len(ms)
  BY LenProperties
<1> DEFINE c == CHOOSE g : ReadableUpTo(g, ms, m)
<1>2. ReadableUpTo(c, ms, m)
  BY ReadableExists
<1>3. ReadableOf(ms) = c[m]
  BY <1>1, ReadableUnfolds
<1> HIDE DEF c
<1>4. \A n \in 0 .. m : c[n] = NextReadable(c, ms, n)
  BY <1>2 DEF ReadableUpTo
<1>5. Reads(c, ms)
  <2>1. c[0] = <<>>
    <3>1. 0 \in 0 .. m
      OBVIOUS
    <3>2. QED
      BY <1>4, <3>1 DEF NextReadable
  <2>2. ASSUME NEW n \in 1 .. m PROVE c[n] = IF Readable(ms[n]) THEN Append(c[n - 1], ms[n]) ELSE c[n - 1]
    BY <1>4, <2>2 DEF NextReadable
  <2>3. QED
    BY <1>1, <2>1, <2>2 DEF Reads
<1>6. QED
  BY <1>1, <1>3, <1>5

(* What a prefix of n messages reads as.                                   *)
ReadsAs(r, ms, n) ==
  /\ r \in Seq(Messages)
  /\ ToSet(r) = {m \in {ms[j] : j \in 1 .. n} : Readable(m)}
  /\ Ascending(ms) => Ascending(r)
\* One more message.
LEMMA OneMoreRead ==
  ASSUME NEW ms \in Seq(Messages), NEW n \in Nat, n + 1 <= Len(ms), NEW r, ReadsAs(r, ms, n)
  PROVE  ReadsAs(IF Readable(ms[n + 1]) THEN Append(r, ms[n + 1]) ELSE r, ms, n + 1)
<1> DEFINE e == ms[n + 1]
           First(k) == {ms[j] : j \in 1 .. k}
<1>1. n + 1 \in 1 .. Len(ms) /\ Len(ms) \in Nat /\ DOMAIN ms = 1 .. Len(ms)
  BY LenProperties
<1>2. e \in Messages
  BY <1>1, ElementOfSeq
<1>3. First(n + 1) = First(n) \cup {e}
  OBVIOUS
<1>4. CASE ~Readable(e)
  <2>1. {m \in First(n + 1) : Readable(m)} = {m \in First(n) : Readable(m)}
    BY <1>3, <1>4
  <2>2. QED
    BY <1>4, <2>1 DEF ReadsAs
<1>5. CASE Readable(e)
  <2> DEFINE q == Append(r, e)
  <2>1. PICK k \in Nat : k = Len(r) /\ DOMAIN r = 1 .. k /\ r \in Seq(Messages)
    BY LenProperties DEF ReadsAs
  <2>2. /\ q \in Seq(Messages) /\ Len(q) = k + 1 /\ q[k + 1] = e
        /\ \A i \in 1 .. k : q[i] = r[i]
    BY <1>2, <2>1, AppendProperties
  <2>3. DOMAIN q = 1 .. k + 1
    BY <2>2, LenProperties
  <2> HIDE DEF q
  <2>4. ToSet(r) = {r[i] : i \in 1 .. k} /\ ToSet(q) = {q[i] : i \in 1 .. k + 1}
    BY <2>1, <2>3 DEF ToSet
  <2>5. ToSet(q) = ToSet(r) \cup {e}
    <3>1. ToSet(q) = {q[i] : i \in 1 .. k} \cup {q[k + 1]}
      BY <2>1, <2>4
    <3>2. {q[i] : i \in 1 .. k} = {r[i] : i \in 1 .. k}
      BY <2>2
    <3>3. QED
      BY <2>2, <2>4, <3>1, <3>2
  <2>6. ToSet(q) = {m \in First(n + 1) : Readable(m)}
    BY <1>3, <1>5, <2>5 DEF ReadsAs
  <2>7. ASSUME Ascending(ms), NEW i \in 1 .. k + 1, NEW j \in 1 .. k + 1, i < j PROVE q[i].id < q[j].id
    <3>1. CASE j # k + 1
      <4>1. i \in 1 .. k /\ j \in 1 .. k
        BY <2>1, <2>7, <3>1
      <4>2. QED
        BY <2>1, <2>2, <2>7, <4>1 DEF ReadsAs, Ascending
    <3>2. CASE j = k + 1
      <4>1. i \in 1 .. k
        BY <2>1, <2>7, <3>2
      <4>2. q[i] \in First(n) /\ q[j] = e
        BY <2>2, <2>4, <3>2, <4>1 DEF ReadsAs
      <4>3. PICK l \in 1 .. n : q[i] = ms[l]
        BY <4>2
      <4>4. l \in DOMAIN ms /\ n + 1 \in DOMAIN ms /\ l < n + 1
        BY <1>1
      <4>5. QED
        BY <2>7, <4>2, <4>3, <4>4 DEF Ascending
    <3>3. QED
      BY <3>1, <3>2
  <2>8. Ascending(ms) => Ascending(q)
    BY <2>3, <2>7 DEF Ascending
  <2>9. QED
    BY <1>5, <2>2, <2>6, <2>8 DEF ReadsAs, q
<1>6. QED
  BY <1>4, <1>5

\* What every prefix reads as.
LEMMA PrefixReads ==
  ASSUME NEW ms \in Seq(Messages), NEW g, Reads(g, ms), NEW n \in 0 .. Len(ms)
  PROVE  ReadsAs(g[n], ms, n)
<1> DEFINE I == {k \in Nat : k <= Len(ms) => ReadsAs(g[k], ms, k)}
<1>1. Len(ms) \in Nat
  BY LenProperties
<1>2. 0 \in I
  <2>1. <<>> \in Seq(Messages) /\ ToSet(<<>>) = {} /\ Ascending(<<>>)
    BY DEF ToSet, Ascending
  <2>2. {m \in {ms[j] : j \in 1 .. 0} : Readable(m)} = {}
    OBVIOUS
  <2>3. QED
    BY <2>1, <2>2 DEF Reads, ReadsAs
<1>3. ASSUME NEW k \in I PROVE k + 1 \in I
  <2>1. SUFFICES ASSUME k + 1 <= Len(ms) PROVE ReadsAs(g[k + 1], ms, k + 1)
    OBVIOUS
  <2>2. k \in Nat /\ ReadsAs(g[k], ms, k) /\ k + 1 \in 1 .. Len(ms) /\ (k + 1) - 1 = k
    BY <1>1, <2>1
  <2>3. g[k + 1] = IF Readable(ms[k + 1]) THEN Append(g[k], ms[k + 1]) ELSE g[k]
    BY <2>2 DEF Reads
  <2>4. QED
    BY <2>1, <2>2, <2>3, OneMoreRead
<1>4. I \in SUBSET Nat
  OBVIOUS
<1> HIDE DEF I
<1>5. Nat \subseteq I
  BY <1>2, <1>3, <1>4, NatInd
<1>6. QED
  BY <1>1, <1>5 DEF I

\* ReadableOf keeps the readable messages, in their order.
LEMMA ReadableIs ==
  ASSUME NEW ms \in Seq(Messages)
  PROVE  /\ ReadableOf(ms) \in Seq(Messages)
         /\ ToSet(ReadableOf(ms)) = {m \in ToSet(ms) : Readable(m)}
         /\ Ascending(ms) => Ascending(ReadableOf(ms))
<1>1. PICK g : Reads(g, ms) /\ ReadableOf(ms) = g[Len(ms)]
  BY ReadableTable
<1>2. Len(ms) \in 0 .. Len(ms) /\ DOMAIN ms = 1 .. Len(ms)
  BY LenProperties
<1>3. ReadsAs(ReadableOf(ms), ms, Len(ms))
  BY <1>1, <1>2, PrefixReads
<1>4. ToSet(ms) = {ms[j] : j \in 1 .. Len(ms)}
  BY <1>2 DEF ToSet
<1>5. QED
  BY <1>3, <1>4 DEF ReadsAs

\* One more message is read last, or not at all.
LEMMA ReadableAppend ==
  ASSUME NEW ms \in Seq(Messages), NEW x \in Messages
  PROVE  ReadableOf(Append(ms, x)) = IF Readable(x) THEN Append(ReadableOf(ms), x) ELSE ReadableOf(ms)
<1> DEFINE q == Append(ms, x)
<1>1. PICK m \in Nat : m = Len(ms)
  BY LenProperties
<1>2. q \in Seq(Messages) /\ Len(q) = m + 1 /\ q[m + 1] = x /\ \A i \in 1 .. m : q[i] = ms[i]
  BY <1>1, AppendProperties
<1> HIDE DEF q
<1>3. PICK g : Reads(g, ms) /\ ReadableOf(ms) = g[m]
  BY <1>1, ReadableTable
<1>4. PICK h : Reads(h, q) /\ ReadableOf(q) = h[m + 1]
  BY <1>2, ReadableTable
<1> DEFINE I == {n \in Nat : n <= m => h[n] = g[n]}
<1>5. 0 \in I
  BY <1>3, <1>4 DEF Reads
<1>6. ASSUME NEW n \in I PROVE n + 1 \in I
  <2>1. SUFFICES ASSUME n + 1 <= m PROVE h[n + 1] = g[n + 1]
    OBVIOUS
  <2>2. n \in Nat /\ n + 1 \in 1 .. m /\ n + 1 \in 1 .. m + 1 /\ (n + 1) - 1 = n /\ h[n] = g[n]
    BY <2>1
  <2>3. h[n + 1] = IF Readable(q[n + 1]) THEN Append(h[n], q[n + 1]) ELSE h[n]
    BY <1>2, <1>4, <2>2 DEF Reads
  <2>4. g[n + 1] = IF Readable(ms[n + 1]) THEN Append(g[n], ms[n + 1]) ELSE g[n]
    BY <1>1, <1>3, <2>2 DEF Reads
  <2>5. QED
    BY <1>2, <2>2, <2>3, <2>4
<1>7. I \in SUBSET Nat
  OBVIOUS
<1> HIDE DEF I
<1>8. Nat \subseteq I
  BY <1>5, <1>6, <1>7, NatInd
<1>9. h[m] = g[m]
  BY <1>8 DEF I
<1>10. m + 1 \in 1 .. m + 1 /\ (m + 1) - 1 = m
  OBVIOUS
<1>11. h[m + 1] = IF Readable(x) THEN Append(h[m], x) ELSE h[m]
  BY <1>2, <1>4, <1>10 DEF Reads
<1>12. QED
  BY <1>3, <1>4, <1>9, <1>11 DEF q

\* What is readable behind an element is the end of what is readable.
LEMMA ReadableSuffix ==
  ASSUME NEW ms \in Seq(Messages), NEW i \in 0 .. Len(ms)
  PROVE  \E u \in Seq(Messages) : ReadableOf(ms) = u \o ReadableOf(After(ms, i))
<1> DEFINE a == After(ms, i)
<1>1. PICK m \in Nat : m = Len(ms)
  BY LenProperties
<1>2. a \in Seq(Messages) /\ Len(a) = m - i /\ m - i \in Nat /\ \A k \in 1 .. m - i : a[k] = ms[i + k]
  <2>1. a \in Seq(Messages) /\ Len(a) = m - i /\ \A k \in 1 .. m - i : a[k] = ms[i + k]
    BY <1>1, AfterIs
  <2> HIDE DEF a
  <2>2. m - i \in Nat
    BY <1>1
  <2>3. QED
    BY <2>1, <2>2
<1> HIDE DEF a
<1>3. PICK g : Reads(g, ms) /\ ReadableOf(ms) = g[m]
  BY <1>1, ReadableTable
<1>4. PICK h : Reads(h, a) /\ ReadableOf(a) = h[m - i]
  BY <1>2, ReadableTable
<1>5. g[i] \in Seq(Messages)
  BY <1>3, PrefixReads DEF ReadsAs
<1> DEFINE Same(n) == g[i + n] = g[i] \o h[n] /\ h[n] \in Seq(Messages)
           I == {n \in Nat : n <= m - i => Same(n)}
<1>6. 0 \in I
  <2>1. h[0] = <<>> /\ <<>> \in Seq(Messages) /\ g[i] \o <<>> = g[i] /\ i + 0 = i
    BY <1>1, <1>4, <1>5, ConcatEmptySeq DEF Reads
  <2>2. QED
    BY <2>1
<1>7. ASSUME NEW n \in I PROVE n + 1 \in I
  <2> HIDE DEF Same
  <2>1. SUFFICES ASSUME n + 1 <= m - i PROVE Same(n + 1)
    OBVIOUS
  <2>a. n \in Nat /\ n <= m - i /\ Same(n)
    BY <1>1, <2>1
  <2> HIDE DEF I
  <2>b. g[i + n] = g[i] \o h[n] /\ h[n] \in Seq(Messages)
    BY <2>a DEF Same
  <2>2. /\ n + 1 \in 1 .. m - i /\ i + (n + 1) \in 1 .. m /\ (n + 1) - 1 = n
        /\ (i + (n + 1)) - 1 = i + n
    BY <1>1, <2>1, <2>a
  <2> DEFINE e == ms[i + (n + 1)]
  <2>3. e \in Messages /\ a[n + 1] = e
    BY <1>1, <1>2, <2>2, ElementOfSeq
  <2> HIDE DEF e
  <2>4. h[n + 1] = IF Readable(e) THEN Append(h[n], e) ELSE h[n]
    BY <1>2, <1>4, <2>2, <2>3 DEF Reads
  <2>5. g[i + (n + 1)] = IF Readable(e) THEN Append(g[i + n], e) ELSE g[i + n]
    BY <1>1, <1>3, <2>2 DEF Reads, e
  <2>6. Append(g[i] \o h[n], e) = g[i] \o Append(h[n], e)
    <3>1. /\ g[i] \o h[n] \in Seq(Messages) /\ <<e>> \in Seq(Messages)
          /\ Append(h[n], e) = h[n] \o <<e>>
      BY <1>5, <2>b, <2>3, ConcatProperties, AppendIsConcat
    <3>2. Append(g[i] \o h[n], e) = (g[i] \o h[n]) \o <<e>>
      BY <2>3, <3>1, AppendIsConcat
    <3>3. (g[i] \o h[n]) \o <<e>> = g[i] \o (h[n] \o <<e>>)
      <4> DEFINE x == g[i]  y == h[n]  z == <<e>>
      <4>1. x \in Seq(Messages) /\ y \in Seq(Messages) /\ z \in Seq(Messages)
        BY <1>5, <2>b, <3>1
      <4> HIDE DEF x, y, z
      <4>2. (x \o y) \o z = x \o (y \o z)
        BY <4>1, ConcatAssociative
      <4>3. QED
        BY <4>2 DEF x, y, z
    <3>4. QED
      BY <3>1, <3>2, <3>3
  <2>7. Append(h[n], e) \in Seq(Messages)
    BY <2>b, <2>3, AppendProperties
  <2>8. QED
    BY <2>b, <2>4, <2>5, <2>6, <2>7 DEF Same
<1>8. I \in SUBSET Nat
  OBVIOUS
<1> HIDE DEF I
<1>9. Nat \subseteq I
  BY <1>6, <1>7, <1>8, NatInd
<1>10. g[i + (m - i)] = g[i] \o h[m - i] /\ i + (m - i) = m
  <2>1. m - i \in I
    BY <1>2, <1>9
  <2> HIDE DEF Same
  <2>2. Same(m - i)
    BY <1>2, <2>1 DEF I
  <2>3. QED
    BY <1>1, <2>2 DEF Same
<1>11. QED
  BY <1>3, <1>4, <1>5, <1>10 DEF a

\* What the latest elements are.
LEMMA LatestSet ==
  ASSUME NEW S, NEW s \in Seq(S), NEW n \in Nat
  PROVE  /\ Latest(s, n) \in Seq(S)
         /\ ToSet(Latest(s, n)) = {s[p] : p \in Early(s, n) + 1 .. Len(s)}
         /\ s # <<>> /\ n # 0 => /\ Latest(s, n) # <<>>
                                 /\ Last(Latest(s, n)) = s[Len(s)]
<1> DEFINE i == Early(s, n)  w == Latest(s, n)
<1>1. PICK m \in Nat : m = Len(s) /\ (s # <<>> => m # 0)
  BY LenProperties, EmptySeq
<1>2. i \in 0 .. m /\ w = After(s, i) /\ Len(w) = IF m > n THEN n ELSE m
  BY <1>1, LatestIs
<1>3. /\ After(s, i) \in Seq(S) /\ Len(After(s, i)) = m - i
      /\ \A k \in 1 .. m - i : After(s, i)[k] = s[i + k]
  BY <1>1, <1>2, AfterIs
<1> HIDE DEF i, w
<1>4. w \in Seq(S) /\ Len(w) = m - i /\ \A k \in 1 .. m - i : w[k] = s[i + k]
  BY <1>2, <1>3
<1>5. DOMAIN w = 1 .. m - i
  BY <1>4, LenProperties
<1>6. ToSet(w) = {w[k] : k \in 1 .. m - i}
  BY <1>5 DEF ToSet
<1>7. ASSUME NEW k \in 1 .. m - i PROVE \E p \in i + 1 .. m : w[k] = s[p]
  <2>1. i + k \in i + 1 .. m
    BY <1>2
  <2>2. QED
    BY <1>4, <2>1
<1>8. ASSUME NEW p \in i + 1 .. m PROVE \E k \in 1 .. m - i : w[k] = s[p]
  <2>1. p - i \in 1 .. m - i /\ i + (p - i) = p
    BY <1>2
  <2>2. QED
    BY <1>4, <2>1
<1>9. ToSet(w) = {s[p] : p \in i + 1 .. m}
  <2>1. \A x \in ToSet(w) : \E p \in i + 1 .. m : x = s[p]
    BY <1>6, <1>7, Zenon
  <2>2. \A p \in i + 1 .. m : s[p] \in ToSet(w)
    BY <1>6, <1>8, Zenon
  <2>3. QED
    BY <2>1, <2>2, Zenon
<1>10. ASSUME s # <<>>, n # 0 PROVE w # <<>> /\ Last(w) = s[m]
  <2>1. m # 0 /\ Len(w) # 0
    BY <1>1, <1>2, <1>10
  <2>2. m - i \in 1 .. m - i /\ i + (m - i) = m
    BY <1>1, <1>2, <1>4, <2>1
  <2>3. w[m - i] = s[m]
    BY <1>4, <2>2
  <2>4. w # <<>>
    BY <2>1, EmptySeq
  <2>5. QED
    BY <1>4, <2>3, <2>4 DEF Last
<1>11. QED
  BY <1>1, <1>4, <1>9, <1>10 DEF w, i

\* The window holds the newest of what is readable, in its order.
LEMMA WindowIs ==
  ASSUME NEW ms \in Seq(Messages), Ascending(ms)
  PROVE  /\ InWindow(ms) \in Seq(Messages) /\ Ascending(InWindow(ms))
         /\ \A m \in ToSet(InWindow(ms)) : m \in ToSet(ms) /\ Readable(m)
         /\ \A m \in ToSet(ms) : Readable(m) =>
              m \in ToSet(InWindow(ms)) \/ \A x \in ToSet(InWindow(ms)) : m.id < x.id
<1> DEFINE r == ReadableOf(ms)  i == Early(r, Window)
<1>1. r \in Seq(Messages) /\ Ascending(r) /\ ToSet(r) = {m \in ToSet(ms) : Readable(m)}
  BY ReadableIs
<1>2. Window \in Nat
  BY HistoryAssumption
<1> HIDE DEF r
<1>3. i \in 0 .. Len(r) /\ Latest(r, Window) = After(r, i)
  BY <1>1, <1>2, LatestIs
<1> HIDE DEF i
<1>4. After(r, i) \in Seq(Messages)
  BY <1>1, <1>3, AfterIs
<1>5. Ascending(After(r, i)) /\ ToSet(After(r, i)) = {m \in ToSet(r) : i = 0 \/ m.id > r[i].id}
  BY <1>1, <1>3, AfterSet
<1>6. InWindow(ms) = After(r, i)
  BY <1>3 DEF InWindow, r
<1>7. ASSUME NEW m \in ToSet(ms), Readable(m), m \notin ToSet(After(r, i)), NEW x \in ToSet(After(r, i))
      PROVE  m.id < x.id
  <2>1. m \in ToSet(r) /\ x \in ToSet(r) /\ i # 0 /\ ~(m.id > r[i].id) /\ x.id > r[i].id
    BY <1>1, <1>5, <1>7
  <2>2. m \in Messages /\ x \in Messages /\ r[i] \in Messages
    <3>1. i \in 1 .. Len(r)
      BY <1>1, <1>3, <2>1, LenProperties
    <3>2. DOMAIN r = 1 .. Len(r) /\ \A k \in 1 .. Len(r) : r[k] \in Messages
      BY <1>1, LenProperties, ElementOfSeq
    <3>3. QED
      BY <2>1, <3>1, <3>2 DEF ToSet
  <2>3. m.id \in Nat /\ x.id \in Nat /\ r[i].id \in Nat
    BY <2>2 DEF Messages
  <2>4. QED
    BY <2>1, <2>3
<1>8. QED
  BY <1>1, <1>4, <1>5, <1>6, <1>7

\* A new message pushes others out of the window, and none in.
LEMMA WindowAppend ==
  ASSUME NEW ms \in Seq(Messages), NEW x \in Messages
  PROVE  LET w == InWindow(Append(ms, x)) IN
         /\ ToSet(w) \subseteq ToSet(InWindow(ms)) \cup {x}
         /\ ~Readable(x) => w = InWindow(ms)
         /\ Readable(x) => w # <<>> /\ Last(w) = x
<1> DEFINE r == ReadableOf(ms)  q == Append(r, x)
<1>1. r \in Seq(Messages) /\ Window \in Nat \ {0}
  BY ReadableIs, HistoryAssumption
<1>2. ReadableOf(Append(ms, x)) = IF Readable(x) THEN q ELSE r
  BY ReadableAppend
<1>3. CASE ~Readable(x)
  BY <1>2, <1>3 DEF InWindow
<1>4. CASE Readable(x)
  <2> HIDE DEF r
  <2>1. PICK m \in Nat : m = Len(r)
    BY <1>1, LenProperties
  <2>2. q \in Seq(Messages) /\ q # <<>> /\ Len(q) = m + 1 /\ q[m + 1] = x /\ \A i \in 1 .. m : q[i] = r[i]
    BY <1>1, <2>1, AppendProperties
  <2> HIDE DEF q
  <2>3. /\ ToSet(Latest(q, Window)) = {q[p] : p \in Early(q, Window) + 1 .. m + 1}
        /\ Latest(q, Window) # <<>> /\ Last(Latest(q, Window)) = q[m + 1]
    BY <1>1, <2>2, LatestSet
  <2>4. ToSet(Latest(r, Window)) = {r[p] : p \in Early(r, Window) + 1 .. m}
    BY <1>1, <2>1, LatestSet
  <2>5. Early(r, Window) <= Early(q, Window) /\ Early(r, Window) \in Nat /\ Early(q, Window) \in Nat
    BY <1>1, <2>1, <2>2 DEF Early
  <2>6. ASSUME NEW p \in Early(q, Window) + 1 .. m + 1 PROVE q[p] = x \/ q[p] \in ToSet(Latest(r, Window))
    <3>1. p = m + 1 \/ (p \in 1 .. m /\ p \in Early(r, Window) + 1 .. m)
      BY <2>1, <2>5
    <3>2. QED
      BY <2>2, <2>4, <3>1
  <2>7. InWindow(Append(ms, x)) = Latest(q, Window) /\ InWindow(ms) = Latest(r, Window)
    BY <1>2, <1>4 DEF InWindow, r
  <2>8. QED
    BY <1>4, <2>2, <2>3, <2>6, <2>7
<1>5. QED
  BY <1>3, <1>4

\* Cutting off the oldest messages brings none into the window.
LEMMA WindowSuffix ==
  ASSUME NEW ms \in Seq(Messages), NEW i \in 0 .. Len(ms)
  PROVE  ToSet(InWindow(After(ms, i))) \subseteq ToSet(InWindow(ms))
<1> DEFINE r == ReadableOf(ms)  v == ReadableOf(After(ms, i))
<1>1. r \in Seq(Messages) /\ v \in Seq(Messages) /\ Window \in Nat
  BY AfterIs, ReadableIs, HistoryAssumption
<1>2. PICK u \in Seq(Messages) : r = u \o v
  BY ReadableSuffix
<1>3. InWindow(After(ms, i)) = Latest(v, Window) /\ InWindow(ms) = Latest(r, Window)
  BY DEF InWindow
<1> HIDE DEF r, v
<1>4. PICK a \in Nat, b \in Nat : a = Len(u) /\ b = Len(v)
  BY <1>1, LenProperties
<1>5. Len(r) = a + b /\ \A p \in 1 .. a + b : r[p] = IF p <= a THEN u[p] ELSE v[p - a]
  BY <1>1, <1>2, <1>4, ConcatProperties
<1>6. /\ ToSet(Latest(v, Window)) = {v[p] : p \in Early(v, Window) + 1 .. b}
      /\ ToSet(Latest(r, Window)) = {r[p] : p \in Early(r, Window) + 1 .. a + b}
  <2>1. ToSet(Latest(v, Window)) = {v[p] : p \in Early(v, Window) + 1 .. Len(v)}
    BY <1>1, LatestSet
  <2>2. ToSet(Latest(r, Window)) = {r[p] : p \in Early(r, Window) + 1 .. Len(r)}
    BY <1>1, LatestSet
  <2>3. QED
    BY <1>4, <1>5, <2>1, <2>2, Zenon
<1>7. ASSUME NEW p \in Early(v, Window) + 1 .. b PROVE v[p] \in ToSet(Latest(r, Window))
  <2>1. /\ Early(v, Window) \in Nat /\ p \in 1 .. b
        /\ a + p \in Early(r, Window) + 1 .. a + b
        /\ a + p \in 1 .. a + b /\ ~(a + p <= a) /\ (a + p) - a = p
    BY <1>1, <1>4, <1>5 DEF Early
  <2>2. r[a + p] = v[p]
    BY <1>5, <2>1
  <2>3. QED
    BY <1>6, <2>1, <2>2
<1>8. QED
  BY <1>3, <1>6, <1>7

-----------------------------------------------------------------------------
(* Sizes.                                                                  *)
\* A sequence has finitely many elements.
LEMMA ToSetFinite == ASSUME NEW S, NEW s \in Seq(S) PROVE IsFiniteSet(ToSet(s)) /\ ToSet(s) \subseteq S
<1>1. PICK n \in Nat : n = Len(s) /\ DOMAIN s = 1 .. n /\ \A i \in 1 .. n : s[i] \in S
  BY LenProperties, ElementOfSeq
<1>2. ToSet(s) = {s[i] : i \in 1 .. n}
  BY <1>1 DEF ToSet
<1>3. IsFiniteSet(1 .. n)
  BY FS_Interval
<1> DEFINE f == [i \in 1 .. n |-> s[i]]
<1>4. f \in Surjection(1 .. n, ToSet(s))
  BY <1>2 DEF Surjection
<1>5. IsFiniteSet(ToSet(s))
  BY <1>3, <1>4, FS_Surjection
<1>6. QED
  BY <1>1, <1>2, <1>5

\* The size of a set of messages is a number.
LEMMA SizeNat == ASSUME NEW S \in SUBSET Messages, IsFiniteSet(S) PROVE SizeOf(S) \in Nat
<1> DEFINE f == [m \in S |-> m.size]
<1>1. \A m \in S : f[m] \in Nat
  BY DEF Messages
<1> HIDE DEF f
<1>2. SumFunctionOnSet(f, S) \in Nat
  BY <1>1, SumNat
<1>3. QED
  BY <1>2 DEF SizeOf, f

\* Fewer messages are no larger.
LEMMA SizeLess ==
  ASSUME NEW S \in SUBSET Messages, IsFiniteSet(S), NEW T \in SUBSET S
  PROVE  SizeOf(T) <= SizeOf(S) /\ SizeOf(T) \in Nat /\ SizeOf(S) \in Nat
<1> DEFINE f == [m \in S |-> m.size]  g == [m \in T |-> m.size]
<1>1. \A m \in S : f[m] \in Nat
  BY DEF Messages
<1>2. \A m \in T : f[m] \in Nat /\ f[m] = g[m]
  BY DEF Messages
<1>3. IsFiniteSet(T)
  BY FS_Subset
<1> HIDE DEF f, g
<1>4. SumFunctionOnSet(f, T) <= SumFunctionOnSet(f, S)
  BY <1>1, SumLess
<1>5. SumFunctionOnSet(f, T) = SumFunctionOnSet(g, T)
  BY <1>2, <1>3, SumSame
<1>6. SizeOf(T) \in Nat /\ SizeOf(S) \in Nat
  BY <1>3, SizeNat
<1>7. QED
  BY <1>4, <1>5, <1>6 DEF SizeOf, f, g

\* A new message adds its size.
LEMMA SizeAdd ==
  ASSUME NEW S \in SUBSET Messages, IsFiniteSet(S), NEW x \in Messages, x \notin S
  PROVE  SizeOf(S \cup {x}) = x.size + SizeOf(S) /\ SizeOf(S) \in Nat /\ x.size \in Nat
<1> DEFINE f == [m \in S \cup {x} |-> m.size]  g == [m \in S |-> m.size]
<1>1. \A m \in S \cup {x} : f[m] \in Nat /\ f[m] = m.size
  BY DEF Messages
<1>2. \A m \in S : f[m] \in Nat /\ f[m] = g[m]
  BY DEF Messages
<1> HIDE DEF f, g
<1>3. SumFunctionOnSet(f, S \cup {x}) = f[x] + SumFunctionOnSet(f, S)
  BY <1>1, SumAdd
<1>4. SumFunctionOnSet(f, S) = SumFunctionOnSet(g, S)
  BY <1>2, SumSame
<1>5. SizeOf(S) \in Nat /\ x.size \in Nat /\ f[x] = x.size
  BY <1>1, SizeNat
<1>6. QED
  BY <1>3, <1>4, <1>5 DEF SizeOf, f, g

\* Nothing has no size, and one message its own.
LEMMA SizeOfOne == SizeOf({}) = 0 /\ \A x \in Messages : SizeOf({x}) = x.size
<1>1. SizeOf({}) = 0
  BY SumEmpty DEF SizeOf
<1>2. ASSUME NEW x \in Messages PROVE SizeOf({x}) = x.size
  <2>1. /\ {} \in SUBSET Messages /\ IsFiniteSet({}) /\ x \notin {} /\ {} \cup {x} = {x}
    BY FS_EmptySet
  <2>2. SizeOf({} \cup {x}) = x.size + SizeOf({}) /\ x.size \in Nat
    BY <2>1, SizeAdd
  <2>3. QED
    BY <1>1, <2>1, <2>2
<1>3. QED
  BY <1>1, <1>2

\* The total of a sequence of messages, and of what is left of it.
LEMMA TotalIs ==
  ASSUME NEW ms \in Seq(Messages)
  PROVE  /\ Total(ms) \in Nat /\ (ms = <<>> => Total(ms) = 0)
         /\ Len(ms) <= 1 => Total(ms) <= Target
<1>1. IsFiniteSet(ToSet(ms)) /\ ToSet(ms) \subseteq Messages
  BY ToSetFinite
<1>2. Total(ms) \in Nat
  BY <1>1, SizeNat DEF Total
<1>3. ASSUME ms = <<>> PROVE Total(ms) = 0
  <2>1. ToSet(<<>>) = {}
    BY DEF ToSet
  <2>2. QED
    BY <1>3, <2>1, SizeOfOne DEF Total
<1>4. ASSUME Len(ms) <= 1 PROVE Total(ms) <= Target
  <2>1. Target \in Nat
    BY HistoryAssumption
  <2>2. CASE ms = <<>>
    BY <1>3, <2>1, <2>2
  <2>3. CASE ms # <<>>
    <3>1. Len(ms) = 1 /\ DOMAIN ms = {1} /\ ms[1] \in Messages
      <4>1. PICK n \in Nat : n = Len(ms) /\ n # 0
        BY <2>3, EmptySeq
      <4>2. Len(ms) = 1
        BY <1>4, <4>1
      <4>3. QED
        BY <4>2, LenProperties, ElementOfSeq
    <3>2. ToSet(ms) = {ms[1]}
      BY <3>1 DEF ToSet
    <3>3. Total(ms) = ms[1].size
      BY <3>1, <3>2, SizeOfOne DEF Total
    <3>4. QED
      BY <3>1, <3>3, <2>1 DEF Messages
  <2>4. QED
    BY <2>2, <2>3
<1>5. QED
  BY <1>2, <1>3, <1>4

-----------------------------------------------------------------------------
(* What a compaction does.                                                 *)
\* The boundary it cuts at: the first that leaves no more than the target, or
\* the newest message alone.
LEMMA CutAtIs ==
  ASSUME NEW ms \in Seq(Messages), NEW from \in 0 .. Len(ms)
  PROVE  LET at == CutAt(ms, from) IN
         /\ at \in from .. Len(ms)
         /\ Total(After(ms, at)) <= Target
         /\ from <= Len(ms) - 1 => at <= Len(ms) - 1
         /\ Total(After(ms, from)) > Target => at # from
<1> DEFINE Good(i) == i >= Len(ms) - 1 \/ Total(After(ms, i)) <= Target
           First(i) == /\ Good(i)
                       /\ \A j \in from .. i - 1 : j < Len(ms) - 1 /\ Total(After(ms, j)) > Target
           at == CHOOSE i \in from .. Len(ms) : First(i)
           K == {i \in from .. Len(ms) : Good(i)}
<1>1. PICK m \in Nat : m = Len(ms)
  BY LenProperties
<1>2. Target \in Nat /\ \A i \in 0 .. m : Total(After(ms, i)) \in Nat
  BY <1>1, AfterIs, TotalIs, HistoryAssumption
<1>3. K \in SUBSET Nat /\ K # {}
  <2>1. m \in from .. m /\ m >= m - 1
    BY <1>1
  <2>2. m \in K
    BY <1>1, <2>1
  <2>3. QED
    BY <1>1, <2>2
<1>4. PICK i \in K : \A k \in K : i <= k
  BY <1>3, LeastNat
<1>5. i \in from .. m /\ First(i)
  <2>1. i \in from .. m /\ Good(i)
    BY <1>1, <1>4
  <2>2. ASSUME NEW j \in from .. i - 1 PROVE j < Len(ms) - 1 /\ Total(After(ms, j)) > Target
    <3>1. j \in from .. m /\ j \in 0 .. m /\ ~(i <= j)
      BY <1>1, <2>1
    <3>2. ~Good(j)
      BY <1>1, <1>4, <3>1
    <3>3. QED
      BY <1>1, <1>2, <3>1, <3>2
  <2>3. QED
    BY <2>1, <2>2
<1> HIDE DEF First
<1>6. at \in from .. Len(ms) /\ First(at)
  BY <1>1, <1>5
<1> HIDE DEF at
<1>7. at \in from .. m /\ Good(at) /\ \A j \in from .. at - 1 : j < m - 1 /\ Total(After(ms, j)) > Target
  BY <1>1, <1>6 DEF First
<1>8. Total(After(ms, at)) <= Target
  <2>1. CASE at >= m - 1
    <3>1. After(ms, at) \in Seq(Messages) /\ Len(After(ms, at)) = m - at
      BY <1>1, <1>7, AfterIs
    <3>2. Len(After(ms, at)) <= 1
      BY <1>1, <1>7, <2>1, <3>1
    <3>3. QED
      BY <3>1, <3>2, TotalIs
  <2>2. QED
    BY <1>1, <1>7, <2>1
<1>9. ASSUME from <= m - 1 PROVE at <= m - 1
  <2>1. SUFFICES ASSUME at > m - 1 PROVE FALSE
    BY <1>1, <1>7
  <2>2. m - 1 \in from .. at - 1
    BY <1>1, <1>7, <1>9, <2>1
  <2>3. m - 1 < m - 1
    BY <1>7, <2>2
  <2>4. QED
    BY <1>1, <2>3
<1>10. CutAt(ms, from) = at
  BY DEF CutAt, at, First
<1>11. ASSUME Total(After(ms, from)) > Target PROVE at # from
  BY <1>1, <1>2, <1>8, <1>11
<1>12. QED
  BY <1>1, <1>7, <1>8, <1>9, <1>10, <1>11

\* The ids of messages, in their order.
LEMMA IdsAre ==
  ASSUME NEW ms \in Seq(Messages)
  PROVE  /\ Ids(ms) \in Seq(Nat) /\ Len(Ids(ms)) = Len(ms)
         /\ \A i \in 1 .. Len(ms) : Ids(ms)[i] = ms[i].id
         /\ ToSet(Ids(ms)) = {m.id : m \in ToSet(ms)}
         /\ Ascending(ms) => Rising(Ids(ms))
<1> DEFINE d == Ids(ms)
<1>1. PICK n \in Nat : n = Len(ms) /\ DOMAIN ms = 1 .. n /\ \A i \in 1 .. n : ms[i] \in Messages
  BY LenProperties, ElementOfSeq
<1>2. d = [i \in 1 .. n |-> ms[i].id]
  BY <1>1 DEF Ids
<1> HIDE DEF d
<1>3. \A i \in 1 .. n : d[i] = ms[i].id /\ d[i] \in Nat
  BY <1>1, <1>2 DEF Messages
<1>4. d \in [1 .. n -> Nat]
  BY <1>2, <1>3
<1>5. d \in Seq(Nat) /\ Len(d) = n /\ DOMAIN d = 1 .. n
  BY <1>4
<1>6. ToSet(d) = {d[i] : i \in 1 .. n} /\ ToSet(ms) = {ms[i] : i \in 1 .. n}
  BY <1>1, <1>5 DEF ToSet
<1>7. ToSet(d) = {m.id : m \in ToSet(ms)}
  BY <1>3, <1>6
<1>8. Ascending(ms) => Rising(d)
  BY <1>1, <1>3, <1>5 DEF Ascending, Rising
<1>9. QED
  BY <1>1, <1>3, <1>5, <1>7, <1>8 DEF d

\* Two rising sequences, one above the other.
LEMMA RisingConcat ==
  ASSUME NEW a \in Seq(Nat), NEW b \in Seq(Nat)
  PROVE  /\ a \o b \in Seq(Nat) /\ Len(a \o b) = Len(a) + Len(b)
         /\ ToSet(a \o b) = ToSet(a) \cup ToSet(b)
         /\ \A i \in 1 .. Len(a) : (a \o b)[i] = a[i]
         /\ \A i \in 1 .. Len(b) : (a \o b)[Len(a) + i] = b[i]
         /\ (Rising(a) /\ Rising(b) /\ \A x \in ToSet(a), y \in ToSet(b) : x < y) => Rising(a \o b)
<1> DEFINE c == a \o b
<1>1. PICK m \in Nat, n \in Nat : m = Len(a) /\ n = Len(b) /\ DOMAIN a = 1 .. m /\ DOMAIN b = 1 .. n
  BY LenProperties
<1>2. /\ c \in Seq(Nat) /\ Len(c) = m + n
      /\ \A i \in 1 .. m + n : c[i] = IF i <= m THEN a[i] ELSE b[i - m]
  BY <1>1, ConcatProperties
<1>3. DOMAIN c = 1 .. m + n
  BY <1>2, LenProperties
<1> HIDE DEF c
<1>4. ToSet(a) = {a[i] : i \in 1 .. m} /\ ToSet(b) = {b[i] : i \in 1 .. n} /\ ToSet(c) = {c[i] : i \in 1 .. m + n}
  BY <1>1, <1>3 DEF ToSet
<1>5. \A i \in 1 .. m : i \in 1 .. m + n /\ c[i] = a[i]
  BY <1>2
<1>6. ASSUME NEW i \in 1 .. n PROVE m + i \in 1 .. m + n /\ c[m + i] = b[i]
  <2>1. m + i \in 1 .. m + n /\ ~(m + i <= m) /\ (m + i) - m = i
    OBVIOUS
  <2>2. QED
    BY <1>2, <2>1
<1>7. \A k \in 1 .. m + n : \/ k <= m /\ k \in 1 .. m /\ c[k] = a[k]
                            \/ k > m /\ k - m \in 1 .. n /\ c[k] = b[k - m]
  BY <1>2
<1>8. ToSet(c) = ToSet(a) \cup ToSet(b)
  <2>1. \A k \in 1 .. m + n : c[k] \in ToSet(a) \cup ToSet(b)
    BY <1>4, <1>7
  <2>2. \A i \in 1 .. m : a[i] \in ToSet(c)
    BY <1>4, <1>5
  <2>3. \A i \in 1 .. n : b[i] \in ToSet(c)
    BY <1>4, <1>6
  <2>4. QED
    BY <1>4, <2>1, <2>2, <2>3
<1>9. ASSUME Rising(a), Rising(b), \A x \in ToSet(a), y \in ToSet(b) : x < y,
             NEW i \in 1 .. m + n, NEW j \in 1 .. m + n, i < j
      PROVE  c[i] < c[j]
  <2>1. CASE j <= m
    <3>1. i \in 1 .. m /\ j \in 1 .. m
      BY <1>9, <2>1
    <3>2. QED
      BY <1>1, <1>5, <1>9, <3>1 DEF Rising
  <2>2. CASE i > m
    <3>1. i - m \in 1 .. n /\ j - m \in 1 .. n /\ i - m < j - m
      BY <1>9, <2>2
    <3>2. c[i] = b[i - m] /\ c[j] = b[j - m]
      BY <1>7, <1>9, <2>2
    <3>3. QED
      BY <1>1, <1>9, <3>1, <3>2 DEF Rising
  <2>3. CASE i <= m /\ j > m
    <3>1. i \in 1 .. m /\ j - m \in 1 .. n
      BY <2>3
    <3>2. c[i] = a[i] /\ c[j] = b[j - m]
      BY <1>7, <2>3
    <3>3. QED
      BY <1>4, <1>9, <3>1, <3>2
  <2>4. QED
    BY <2>1, <2>2, <2>3
<1>10. (Rising(a) /\ Rising(b) /\ \A x \in ToSet(a), y \in ToSet(b) : x < y) => Rising(c)
  BY <1>3, <1>9 DEF Rising
<1>11. QED
  BY <1>1, <1>2, <1>5, <1>6, <1>8, <1>10 DEF c

\* The latest of a rising sequence: what is left out is below them.
LEMMA RisingLatest ==
  ASSUME NEW s \in Seq(Nat), Rising(s), NEW n \in Nat \ {0}
  PROVE  LET w == Latest(s, n) IN
         /\ w \in Seq(Nat) /\ Len(w) <= n /\ Rising(w)
         /\ s # <<>> => w # <<>> /\ Last(w) = s[Len(s)]
         /\ \A x \in ToSet(s) : x \in ToSet(w) \/ (Len(w) >= n /\ x < w[1])
         /\ Len(s) >= n => Len(w) >= n /\ \A x \in Nat : x < s[1] => x < w[1]
<1> DEFINE w == Latest(s, n)  e == Early(s, n)
<1>1. PICK m \in Nat : m = Len(s) /\ DOMAIN s = 1 .. m
  BY LenProperties
<1>2. e \in 0 .. m /\ w = After(s, e) /\ Len(w) = (IF m > n THEN n ELSE m) /\ (e # 0 => m > n)
  BY <1>1, LatestIs DEF Early
<1>3. w \in Seq(Nat) /\ (s # <<>> => w # <<>> /\ Last(w) = s[m])
  BY <1>1, LatestSet
<1>4. Len(After(s, e)) = m - e /\ \A k \in 1 .. m - e : After(s, e)[k] = s[e + k]
  BY <1>1, <1>2, AfterIs
<1> HIDE DEF w, e
<1>5. Len(w) = m - e /\ DOMAIN w = 1 .. m - e /\ \A k \in 1 .. m - e : w[k] = s[e + k]
  BY <1>2, <1>3, <1>4, LenProperties
<1>6. \A i, j \in 1 .. m : i < j => s[i] < s[j]
  BY <1>1 DEF Rising
<1>7. Rising(w)
  <2>1. SUFFICES ASSUME NEW k \in 1 .. m - e, NEW l \in 1 .. m - e, k < l PROVE w[k] < w[l]
    BY <1>5 DEF Rising
  <2>2. e + k \in 1 .. m /\ e + l \in 1 .. m /\ e + k < e + l
    BY <1>2, <2>1
  <2>3. s[e + k] < s[e + l]
    BY <1>6, <2>2
  <2>4. QED
    BY <1>5, <2>3
<1>8. ASSUME NEW x \in ToSet(s) PROVE x \in ToSet(w) \/ (Len(w) >= n /\ x < w[1])
  <2>1. PICK i \in 1 .. m : x = s[i]
    BY <1>1 DEF ToSet
  <2>2. CASE i <= e
    <3>1. e # 0 /\ m > n /\ Len(w) = n /\ 1 \in 1 .. m - e /\ e + 1 \in 1 .. m /\ i < e + 1
      BY <1>1, <1>2, <1>5, <2>2
    <3>2. w[1] = s[e + 1] /\ s[i] < s[e + 1]
      BY <1>5, <1>6, <3>1
    <3>3. QED
      BY <2>1, <3>1, <3>2
  <2>3. CASE i > e
    <3>1. i - e \in 1 .. m - e /\ e + (i - e) = i
      BY <1>2, <2>3
    <3>2. w[i - e] = x /\ i - e \in DOMAIN w
      BY <1>5, <2>1, <3>1
    <3>3. QED
      BY <3>2 DEF ToSet
  <2>4. QED
    BY <1>2, <2>2, <2>3
<1>9. ASSUME m >= n PROVE Len(w) >= n /\ \A x \in Nat : x < s[1] => x < w[1]
  <2>1. Len(w) = n /\ 1 \in 1 .. m - e /\ e + 1 \in 1 .. m /\ 1 \in 1 .. m
    BY <1>2, <1>5, <1>9
  <2>2. w[1] = s[e + 1] /\ s[e + 1] \in Nat /\ s[1] \in Nat
    BY <1>1, <1>5, <2>1, ElementOfSeq
  <2>3. e # 0 => s[1] < s[e + 1]
    <3>1. e # 0 => 1 < e + 1
      BY <1>2
    <3>2. QED
      BY <1>6, <2>1, <3>1
  <2>4. QED
    BY <1>2, <2>1, <2>2, <2>3
<1>10. Len(w) <= n
  BY <1>2
<1>11. QED
  BY <1>1, <1>3, <1>7, <1>8, <1>9, <1>10 DEF w

(* The condensed block: the ids of what it keeps a line for, the newest of *)
(* them the boundary.                                                      *)
LinesUpTo(lines, b) ==
  /\ lines \in Seq(Nat) /\ Len(lines) <= BlockShare /\ Rising(lines)
  /\ b \in Nat /\ IF lines = <<>> THEN b = 0 ELSE Last(lines) = b
(* What is not newer than the boundary has a line, or was shed for others. *)
Covers(lines, b, S) ==
  \A m \in S : m.id <= b => m.id \in ToSet(lines) \/ (Len(lines) >= BlockShare /\ m.id < lines[1])
Beyond(S, b) == {m \in S : m.id > b}
(* The boundary is one of the messages, or older than all.                 *)
Placed(b, S) == (\E m \in S : m.id = b) \/ (\A m \in S : m.id > b)

\* Nothing in a block is newer than its boundary.
LEMMA LinesBelow ==
  ASSUME NEW lines, NEW b, LinesUpTo(lines, b)
  PROVE  \A x \in ToSet(lines) : x \in Nat /\ x <= b
<1>1. PICK n \in Nat : n = Len(lines) /\ DOMAIN lines = 1 .. n /\ (lines # <<>> => n # 0)
  BY LenProperties, EmptySeq DEF LinesUpTo
<1>2. SUFFICES ASSUME NEW i \in 1 .. n PROVE lines[i] \in Nat /\ lines[i] <= b
  BY <1>1 DEF ToSet
<1>3. lines # <<>> /\ b = lines[n] /\ n \in 1 .. n
  <2>1. lines # <<>>
    BY <1>1, <1>2
  <2>2. Last(lines) = lines[n]
    BY <1>1 DEF Last
  <2>3. QED
    BY <1>1, <2>1, <2>2 DEF LinesUpTo
<1>4. lines[i] \in Nat /\ lines[n] \in Nat
  BY <1>1, <1>2, <1>3, ElementOfSeq DEF LinesUpTo
<1>5. i < n => lines[i] < lines[n]
  BY <1>1, <1>3 DEF LinesUpTo, Rising
<1>6. QED
  BY <1>2, <1>3, <1>4, <1>5

\* The messages behind the boundary that is stored.
LEMMA CoveredIs ==
  ASSUME NEW ms \in Seq(Messages), Ascending(ms), NEW s, s.through \in Nat, Placed(s.through, ToSet(ms))
  PROVE  /\ Covered(ms, s) \in 0 .. Len(ms)
         /\ After(ms, Covered(ms, s)) \in Seq(Messages)
         /\ Ascending(After(ms, Covered(ms, s)))
         /\ ToSet(After(ms, Covered(ms, s))) = Beyond(ToSet(ms), s.through)
         /\ Covered(ms, s) # 0 => ms[Covered(ms, s)].id = s.through
         /\ Covered(ms, s) = 0 => Beyond(ToSet(ms), s.through) = ToSet(ms)
<1>1. PICK n \in Nat : n = Len(ms) /\ DOMAIN ms = 1 .. n /\ \A i \in 1 .. n : ms[i] \in Messages
  BY LenProperties, ElementOfSeq
<1>2. ToSet(ms) = {ms[i] : i \in 1 .. n}
  BY <1>1 DEF ToSet
<1>3. CASE \E i \in 1 .. n : ms[i].id = s.through
  <2> DEFINE c == CHOOSE i \in 1 .. n : ms[i].id = s.through
  <2>1. c \in 1 .. n /\ ms[c].id = s.through
    BY <1>3
  <2>2. Covered(ms, s) = c
    BY <1>1, <1>3 DEF Covered
  <2> HIDE DEF c
  <2>3. c \in 0 .. Len(ms) /\ c # 0
    BY <1>1, <2>1
  <2>4. /\ After(ms, c) \in Seq(Messages) /\ Ascending(After(ms, c))
        /\ ToSet(After(ms, c)) = {m \in ToSet(ms) : c = 0 \/ m.id > ms[c].id}
    BY <2>3, AfterIs, AfterSet
  <2>5. QED
    BY <2>1, <2>2, <2>3, <2>4 DEF Beyond
<1>4. CASE ~ \E i \in 1 .. n : ms[i].id = s.through
  <2>1. Covered(ms, s) = 0 /\ After(ms, 0) = ms
    BY <1>1, <1>4, AfterNone DEF Covered
  <2>2. \A m \in ToSet(ms) : m.id > s.through
    BY <1>2, <1>4 DEF Placed
  <2>3. QED
    BY <1>1, <2>1, <2>2 DEF Beyond
<1>5. QED
  BY <1>3, <1>4

(* What is right about a compaction c of the messages S under the block s. *)
Compacts(c, S, s) ==
  /\ LinesUpTo(c.lines, c.through)
  /\ c.rest \in Seq(Messages) /\ Ascending(c.rest) /\ ToSet(c.rest) = Beyond(S, c.through)
  /\ Len(c.lines) + Total(c.rest) <= Budget
  /\ Covers(s.lines, s.through, S) => Covers(c.lines, c.through, S)
  /\ c.moved \in BOOLEAN
  /\ ~c.moved => c.lines = s.lines /\ c.through = s.through
  /\ c.moved => /\ c.lines # <<>> /\ \E m \in S : m.id = c.through
                /\ Total(c.rest) <= Target
                /\ SizeOf(Beyond(S, s.through)) > Budget - BlockShare
\* A compaction keeps to the budget, moves the boundary for want of room only,
\* and leaves a line for what it condenses.
LEMMA CompactIs ==
  ASSUME NEW ms \in Seq(Messages), Ascending(ms), NEW s, LinesUpTo(s.lines, s.through),
         Placed(s.through, ToSet(ms))
  PROVE  Compacts(Compact(ms, s), ToSet(ms), s)
<1> DEFINE from == Covered(ms, s)  tail == After(ms, from)  S == ToSet(ms)  c == Compact(ms, s)
<1>1. /\ Budget \in Nat /\ BlockShare \in Nat \ {0} /\ Target \in Nat /\ BlockShare + Target < Budget
      /\ s.lines \in Seq(Nat) /\ Len(s.lines) \in Nat /\ Len(s.lines) <= BlockShare /\ Rising(s.lines)
      /\ s.through \in Nat
  BY HistoryAssumption, LenProperties DEF LinesUpTo
<1>2. /\ from \in 0 .. Len(ms) /\ tail \in Seq(Messages) /\ Ascending(tail)
      /\ ToSet(tail) = Beyond(S, s.through)
      /\ from # 0 => ms[from].id = s.through
      /\ from = 0 => Beyond(S, s.through) = S
  BY <1>1, CoveredIs
<1>3. Total(tail) \in Nat /\ Total(tail) = SizeOf(Beyond(S, s.through))
  BY <1>2, TotalIs DEF Total
<1>4. PICK n \in Nat : n = Len(ms) /\ DOMAIN ms = 1 .. n /\ \A i \in 1 .. n : ms[i] \in Messages
  BY LenProperties, ElementOfSeq
<1>5. S = {ms[i] : i \in 1 .. n}
  BY <1>4 DEF ToSet
<1> HIDE DEF from, S
<1>6. CASE Len(s.lines) + Total(tail) <= Budget
  <2>1. c = [lines |-> s.lines, rest |-> tail, through |-> s.through, moved |-> FALSE]
    BY <1>6 DEF Compact, from
  <2> HIDE DEF tail, c
  <2>2. c.lines = s.lines /\ c.rest = tail /\ c.through = s.through /\ c.moved = FALSE
    BY <2>1
  <2>3. QED
    BY <1>2, <1>6, <2>2 DEF Compacts, S, c
<1>7. CASE ~(Len(s.lines) + Total(tail) <= Budget)
  <2> DEFINE at == CutAt(ms, from)
             mid == SubSeq(ms, from + 1, at)
             all == s.lines \o Ids(mid)
             lines == Latest(all, BlockShare)
  <2>1. Total(tail) > Target /\ Total(tail) > Budget - BlockShare
    BY <1>1, <1>3, <1>7
  <2>2. at \in from .. n /\ Total(After(ms, at)) <= Target /\ at # from
    BY <1>2, <1>4, <2>1, CutAtIs
  <2>3. at \in 1 .. n /\ at \in 0 .. Len(ms) /\ at > from /\ at # 0
    BY <1>2, <1>4, <2>2
  <2>4. c = [lines |-> lines, rest |-> After(ms, at), moved |-> TRUE, through |-> ms[at].id]
    BY <1>7, <2>2, <2>3 DEF Compact, from
  <2> HIDE DEF c, at, tail
  <2>5. c.lines = lines /\ c.rest = After(ms, at) /\ c.moved = TRUE /\ c.through = ms[at].id
    BY <2>4
  <2>6. ms[at] \in S /\ ms[at].id \in Nat /\ s.through <= ms[at].id
    <3>1. ms[at] \in S /\ ms[at].id \in Nat
      BY <1>4, <1>5, <2>3 DEF Messages
    <3>2. from # 0 => ms[from].id < ms[at].id
      BY <1>2, <1>4, <2>3 DEF Ascending
    <3>3. from = 0 => ms[at].id > s.through
      BY <1>2, <3>1 DEF Beyond
    <3>4. QED
      BY <1>1, <1>2, <3>1, <3>2, <3>3
  <2>7. /\ After(ms, at) \in Seq(Messages) /\ Ascending(After(ms, at))
        /\ ToSet(After(ms, at)) = Beyond(S, ms[at].id)
    BY <2>3, AfterIs, AfterSet DEF Beyond, S
  <2>8. /\ mid \in Seq(Messages) /\ Len(mid) = at - from /\ \A k \in 1 .. at - from : mid[k] = ms[from + k]
    <3>1. /\ from + 1 \in Int /\ at \in Int /\ from + 1 <= at /\ at - (from + 1) + 1 = at - from
          /\ \A i \in from + 1 .. at : ms[i] \in Messages
          /\ \A k \in 1 .. at - from : from + 1 + k - 1 = from + k
      BY <1>2, <1>4, <2>3
    <3>2. /\ mid \in Seq(Messages) /\ Len(mid) = (IF from + 1 <= at THEN at - (from + 1) + 1 ELSE 0)
          /\ \A k \in 1 .. at - (from + 1) + 1 : mid[k] = ms[from + 1 + k - 1]
      BY <3>1, SubSeqProperties
    <3> HIDE DEF mid
    <3>3. QED
      BY <3>1, <3>2
  <2> HIDE DEF mid
  <2>9. DOMAIN mid = 1 .. at - from /\ \A k \in 1 .. at - from : from + k \in 1 .. n
    BY <1>2, <1>4, <2>3, <2>8, LenProperties
  <2>10. ToSet(mid) = {m \in Beyond(S, s.through) : m.id <= ms[at].id}
    <3>1. ToSet(mid) = {mid[k] : k \in 1 .. at - from}
      BY <2>9 DEF ToSet
    <3>2. ASSUME NEW k \in 1 .. at - from PROVE mid[k] \in Beyond(S, s.through) /\ mid[k].id <= ms[at].id
      <4>1. mid[k] = ms[from + k] /\ from + k \in 1 .. n /\ (from + k = at \/ from + k < at) /\ from < from + k
        BY <1>2, <1>4, <2>3, <2>8, <2>9
      <4>2. ms[from + k] \in S /\ ms[from + k].id \in Nat
        BY <1>4, <1>5, <4>1 DEF Messages
      <4>3. ms[from + k].id <= ms[at].id
        BY <1>4, <2>3, <2>6, <4>1, <4>2 DEF Ascending
      <4>4. ms[from + k].id > s.through
        <5>1. CASE from = 0
          BY <1>2, <4>2, <5>1 DEF Beyond
        <5>2. CASE from # 0
          <6>1. ms[from].id < ms[from + k].id
            BY <1>2, <1>4, <4>1, <5>2 DEF Ascending
          <6>2. QED
            BY <1>1, <1>2, <4>2, <5>2, <6>1
        <5>3. QED
          BY <5>1, <5>2
      <4>5. QED
        BY <4>1, <4>2, <4>3, <4>4 DEF Beyond
    <3>3. ASSUME NEW i \in 1 .. n, ms[i].id > s.through, ms[i].id <= ms[at].id PROVE ms[i] \in ToSet(mid)
      <4>1. ms[i].id \in Nat
        BY <1>4 DEF Messages
      <4>2. i > from
        <5>1. SUFFICES ASSUME i <= from PROVE FALSE
          BY <1>2, <1>4
        <5>2. from # 0 /\ from \in 1 .. n /\ (i = from \/ i < from)
          BY <1>2, <1>4, <5>1
        <5>3. i < from => ms[i].id < ms[from].id
          BY <1>4, <5>2 DEF Ascending
        <5>4. QED
          BY <1>1, <1>2, <3>3, <4>1, <5>2, <5>3
      <4>3. i <= at
        <5>1. SUFFICES ASSUME i > at PROVE FALSE
          BY <1>4, <2>3
        <5>2. ms[at].id < ms[i].id
          BY <1>4, <2>3, <5>1 DEF Ascending
        <5>3. QED
          BY <2>6, <3>3, <4>1, <5>2
      <4>4. i - from \in 1 .. at - from /\ from + (i - from) = i
        BY <1>2, <1>4, <2>3, <4>2, <4>3
      <4>5. mid[i - from] = ms[i]
        BY <2>8, <4>4
      <4>6. QED
        BY <3>1, <4>4, <4>5
    <3>4. QED
      BY <1>5, <3>1, <3>2, <3>3 DEF Beyond
  <2>11. Ascending(mid)
    <3>1. SUFFICES ASSUME NEW k \in 1 .. at - from, NEW l \in 1 .. at - from, k < l PROVE mid[k].id < mid[l].id
      BY <2>9 DEF Ascending
    <3>2. from + k \in 1 .. n /\ from + l \in 1 .. n /\ from + k < from + l
      BY <1>2, <2>9, <3>1
    <3>3. ms[from + k].id < ms[from + l].id
      BY <1>4, <3>2 DEF Ascending
    <3>4. QED
      BY <2>8, <3>3
  <2>12. /\ Ids(mid) \in Seq(Nat) /\ Len(Ids(mid)) = at - from /\ Rising(Ids(mid))
         /\ ToSet(Ids(mid)) = {m.id : m \in ToSet(mid)}
         /\ Ids(mid)[at - from] = ms[at].id
    <3>1. at - from \in 1 .. at - from /\ from + (at - from) = at
      BY <1>2, <1>4, <2>3
    <3>2. mid[at - from] = ms[at]
      BY <2>8, <3>1
    <3>3. /\ Ids(mid) \in Seq(Nat) /\ Len(Ids(mid)) = Len(mid)
          /\ \A i \in 1 .. Len(mid) : Ids(mid)[i] = mid[i].id
          /\ ToSet(Ids(mid)) = {m.id : m \in ToSet(mid)}
          /\ Rising(Ids(mid))
      BY <2>8, <2>11, IdsAre
    <3>4. QED
      BY <2>8, <3>1, <3>2, <3>3
  <2>13. \A x \in ToSet(s.lines), y \in ToSet(Ids(mid)) : x < y
    <3>1. SUFFICES ASSUME NEW x \in ToSet(s.lines), NEW m \in ToSet(mid) PROVE x < m.id
      BY <2>12
    <3>2. x \in Nat /\ x <= s.through
      BY LinesBelow
    <3>3. m \in Messages /\ m.id > s.through
      BY <1>4, <1>5, <2>10 DEF Beyond
    <3>4. m.id \in Nat
      BY <3>3 DEF Messages
    <3>5. QED
      BY <1>1, <3>2, <3>3, <3>4
  <2>14. /\ all \in Seq(Nat) /\ Len(all) = Len(s.lines) + (at - from) /\ Rising(all)
         /\ ToSet(all) = ToSet(s.lines) \cup ToSet(Ids(mid))
         /\ \A i \in 1 .. Len(s.lines) : all[i] = s.lines[i]
         /\ all[Len(s.lines) + (at - from)] = ms[at].id
    <3>1. at - from \in 1 .. at - from
      BY <1>2, <1>4, <2>3
    <3> DEFINE d == Ids(mid)
    <3>2. d \in Seq(Nat) /\ Len(d) = at - from /\ Rising(d) /\ d[at - from] = ms[at].id
      BY <2>12
    <3>3. \A x \in ToSet(s.lines), y \in ToSet(d) : x < y
      BY <2>13
    <3> HIDE DEF d
    <3>4. /\ s.lines \o d \in Seq(Nat) /\ Len(s.lines \o d) = Len(s.lines) + Len(d)
          /\ ToSet(s.lines \o d) = ToSet(s.lines) \cup ToSet(d)
          /\ \A i \in 1 .. Len(s.lines) : (s.lines \o d)[i] = s.lines[i]
          /\ \A i \in 1 .. Len(d) : (s.lines \o d)[Len(s.lines) + i] = d[i]
          /\ Rising(s.lines \o d)
      BY <1>1, <3>2, <3>3, RisingConcat
    <3>5. QED
      BY <3>1, <3>2, <3>4 DEF d
  <2> HIDE DEF all
  <2>15. Len(all) \in Nat /\ all # <<>>
    <3>1. Len(all) \in Nat /\ Len(all) # 0
      BY <1>1, <1>2, <1>4, <2>3, <2>14
    <3>2. QED
      BY <3>1, EmptySeq
  <2>16. /\ lines \in Seq(Nat) /\ Len(lines) <= BlockShare /\ Rising(lines)
         /\ lines # <<>> /\ Last(lines) = all[Len(all)]
         /\ \A x \in ToSet(all) : x \in ToSet(lines) \/ (Len(lines) >= BlockShare /\ x < lines[1])
         /\ Len(all) >= BlockShare => Len(lines) >= BlockShare /\ \A x \in Nat : x < all[1] => x < lines[1]
    BY <1>1, <2>14, <2>15, RisingLatest
  <2> HIDE DEF lines
  <2>17. LinesUpTo(lines, ms[at].id)
    BY <2>6, <2>14, <2>16 DEF LinesUpTo
  <2>18. ASSUME Covers(s.lines, s.through, S), NEW m \in S, m.id <= ms[at].id
         PROVE  m.id \in ToSet(lines) \/ (Len(lines) >= BlockShare /\ m.id < lines[1])
    <3>1. m.id \in Nat
      BY <1>4, <1>5 DEF Messages
    <3>2. CASE m.id > s.through
      <4>1. m \in ToSet(mid)
        BY <2>10, <2>18, <3>2 DEF Beyond
      <4>2. m.id \in ToSet(all)
        BY <2>12, <2>14, <4>1
      <4>3. QED
        BY <2>16, <4>2
    <3>3. CASE m.id \in ToSet(s.lines)
      BY <2>14, <2>16, <3>3
    <3>4. CASE m.id <= s.through /\ m.id \notin ToSet(s.lines)
      <4>1. Len(s.lines) >= BlockShare /\ m.id < s.lines[1]
        BY <2>18, <3>4 DEF Covers
      <4>2. 1 \in 1 .. Len(s.lines) /\ Len(all) >= BlockShare
        BY <1>1, <1>2, <1>4, <2>3, <2>14, <4>1
      <4>3. m.id < all[1]
        BY <2>14, <4>1, <4>2
      <4>4. QED
        BY <2>16, <3>1, <4>2, <4>3
    <3>5. QED
      BY <1>1, <3>1, <3>2, <3>3, <3>4
  <2>19. Len(lines) + Total(After(ms, at)) <= Budget
    <3>1. Total(After(ms, at)) \in Nat /\ Len(lines) \in Nat
      BY <2>7, <2>16, TotalIs, LenProperties
    <3>2. QED
      BY <1>1, <2>2, <2>16, <3>1
  <2>20. Covers(s.lines, s.through, S) => Covers(lines, ms[at].id, S)
    BY <2>18 DEF Covers
  <2>21. SizeOf(Beyond(S, s.through)) > Budget - BlockShare
    BY <1>3, <2>1
  <2>22. Compacts(c, S, s)
    BY <2>2, <2>5, <2>6, <2>7, <2>16, <2>17, <2>19, <2>20, <2>21 DEF Compacts
  <2>23. QED
    BY <2>22 DEF c, S
<1>8. QED
  BY <1>6, <1>7 DEF S

-----------------------------------------------------------------------------
(* What the owner reads.                                                   *)
NextFlat(g, s, i) == IF i = 1 THEN s[i] ELSE g[i - 1] \o s[i]
FlatUpTo(g, s, n) == g = [i \in 1 .. n |-> NextFlat(g, s, i)]

\* What FlattenSeq unfolds to.
LEMMA FlatUnfolds ==
  ASSUME NEW s, Len(s) # 0
  PROVE  FlattenSeq(s) = (CHOOSE g : FlatUpTo(g, s, Len(s)))[Len(s)]
  BY DEF FlattenSeq, FlatUpTo, NextFlat

\* Its prefixes exist.
LEMMA FlatExists == ASSUME NEW s, NEW m \in Nat PROVE \E g : FlatUpTo(g, s, m)
<1> DEFINE P(n) == \E g : FlatUpTo(g, s, n)
           I == {n \in Nat : P(n)}
<1>1. 0 \in I
  <2> DEFINE g == [i \in 1 .. 0 |-> <<>>]
  <2>1. FlatUpTo(g, s, 0)
    BY DEF FlatUpTo, NextFlat
  <2> HIDE DEF g
  <2>2. QED
    BY <2>1
<1>2. ASSUME NEW n \in I PROVE n + 1 \in I
  <2>1. PICK g : g = [i \in 1 .. n |-> NextFlat(g, s, i)]
    BY DEF FlatUpTo
  <2> DEFINE h == [i \in 1 .. n + 1 |-> NextFlat(g, s, i)]
  <2>2. ASSUME NEW i \in 1 .. n + 1 PROVE NextFlat(g, s, i) = NextFlat(h, s, i)
    <3>1. CASE i = 1
      BY <3>1 DEF NextFlat
    <3>2. CASE i # 1
      <4>1. i - 1 \in 1 .. n /\ i - 1 \in 1 .. n + 1
        BY <3>2
      <4>2. h[i - 1] = g[i - 1]
        BY <2>1, <4>1, Zenon
      <4> HIDE DEF h
      <4>3. QED
        BY <3>2, <4>2 DEF NextFlat
    <3>3. QED
      BY <3>1, <3>2
  <2>3. h = [i \in 1 .. n + 1 |-> NextFlat(h, s, i)]
    BY <2>2, Zenon
  <2> HIDE DEF h
  <2>4. P(n + 1)
    BY <2>3 DEF FlatUpTo
  <2>5. QED
    BY <2>4
<1> HIDE DEF P
<1>3. I \in SUBSET Nat
  OBVIOUS
<1>4. Nat \subseteq I
  <2> HIDE DEF I
  <2>1. QED
    BY <1>1, <1>2, <1>3, NatInd
<1>5. QED
  BY <1>4 DEF P

(* A table of the prefixes of a sequence of sequences, joined.             *)
Joins(g, s) == g[0] = <<>> /\ \A n \in 1 .. Len(s) : g[n] = g[n - 1] \o s[n]
\* The joined prefixes are sequences.
LEMMA JoinsSeq ==
  ASSUME NEW S, NEW s \in Seq(Seq(S)), NEW g, Joins(g, s), NEW n \in 0 .. Len(s)
  PROVE  g[n] \in Seq(S)
<1>1. Len(s) \in Nat
  BY LenProperties
<1> DEFINE I == {k \in Nat : k <= Len(s) => g[k] \in Seq(S)}
<1>2. 0 \in I
  <2>1. <<>> \in Seq(S)
    BY EmptySeq
  <2>2. QED
    BY <2>1 DEF Joins
<1>3. ASSUME NEW k \in I PROVE k + 1 \in I
  <2>1. SUFFICES ASSUME k + 1 <= Len(s) PROVE g[k + 1] \in Seq(S)
    OBVIOUS
  <2>2. k \in Nat /\ k <= Len(s) /\ g[k] \in Seq(S) /\ k + 1 \in 1 .. Len(s) /\ (k + 1) - 1 = k
    BY <1>1, <2>1
  <2>3. g[k + 1] = g[k] \o s[k + 1]
    BY <2>2 DEF Joins
  <2>4. s[k + 1] \in Seq(S)
    BY <2>2, ElementOfSeq
  <2>5. QED
    BY <2>2, <2>3, <2>4, ConcatProperties
<1>4. I \in SUBSET Nat
  OBVIOUS
<1> HIDE DEF I
<1>5. Nat \subseteq I
  BY <1>2, <1>3, <1>4, NatInd
<1>6. QED
  BY <1>1, <1>5 DEF I

Alike(s, t, n) ==
  /\ Len(s) \in Nat /\ Len(t) \in Nat /\ n <= Len(s) /\ n <= Len(t)
  /\ \A i \in 1 .. n : s[i] = t[i]
\* Prefixes that are the same join to the same.
LEMMA JoinsAgree ==
  ASSUME NEW s, NEW t, NEW g, NEW h, Joins(g, s), Joins(h, t), NEW n \in Nat, Alike(s, t, n)
  PROVE  g[n] = h[n]
<1> DEFINE I == {k \in Nat : k <= n => g[k] = h[k]}
<1>1. 0 \in I
  BY DEF Joins
<1>2. ASSUME NEW k \in I PROVE k + 1 \in I
  <2>1. SUFFICES ASSUME k + 1 <= n PROVE g[k + 1] = h[k + 1]
    OBVIOUS
  <2>2. /\ k \in Nat /\ g[k] = h[k] /\ k + 1 \in 1 .. n /\ (k + 1) - 1 = k
        /\ k + 1 \in 1 .. Len(s) /\ k + 1 \in 1 .. Len(t)
    BY <2>1 DEF Alike
  <2>3. g[k + 1] = g[k] \o s[k + 1] /\ h[k + 1] = h[k] \o t[k + 1]
    BY <2>2 DEF Joins
  <2>4. s[k + 1] = t[k + 1]
    BY <2>2 DEF Alike
  <2>5. QED
    BY <2>2, <2>3, <2>4
<1>3. I \in SUBSET Nat
  OBVIOUS
<1> HIDE DEF I
<1>4. Nat \subseteq I
  BY <1>1, <1>2, <1>3, NatInd
<1>5. QED
  BY <1>4 DEF I

\* There is a table that ends with what FlattenSeq says.
LEMMA FlatTable ==
  ASSUME NEW S, NEW s \in Seq(Seq(S))
  PROVE  \E g : Joins(g, s) /\ FlattenSeq(s) = g[Len(s)]
<1>1. PICK m \in Nat : m = Len(s) /\ (s # <<>> => m # 0)
  BY LenProperties, EmptySeq
<1>2. CASE m = 0
  <2> DEFINE g == [n \in 0 .. 0 |-> <<>>]
  <2>1. s = <<>> /\ FlattenSeq(s) = s
    BY <1>1, <1>2 DEF FlattenSeq
  <2>2. g[0] = <<>> /\ \A n \in 1 .. m : g[n] = g[n - 1] \o s[n]
    BY <1>2
  <2> HIDE DEF g
  <2>3. QED
    BY <1>1, <1>2, <2>1, <2>2 DEF Joins
<1>3. CASE m # 0
  <2> DEFINE f == CHOOSE g : FlatUpTo(g, s, m)
             h == [n \in 0 .. m |-> IF n = 0 THEN <<>> ELSE f[n]]
  <2>1. FlatUpTo(f, s, m)
    BY FlatExists
  <2>2. FlattenSeq(s) = f[m]
    BY <1>1, <1>3, FlatUnfolds
  <2> HIDE DEF f
  <2>3. \A n \in 1 .. m : f[n] = NextFlat(f, s, n)
    BY <2>1 DEF FlatUpTo
  <2>4. h[0] = <<>> /\ \A n \in 1 .. m : h[n] = f[n]
    OBVIOUS
  <2> HIDE DEF h
  <2>5. ASSUME NEW n \in 1 .. m PROVE h[n] = h[n - 1] \o s[n]
    <3>1. h[n] = IF n = 1 THEN s[n] ELSE f[n - 1] \o s[n]
      BY <2>3, <2>4 DEF NextFlat
    <3>2. CASE n = 1
      <4>1. s[n] \in Seq(S)
        BY <1>1, ElementOfSeq
      <4>2. <<>> \o s[n] = s[n]
        BY <4>1, ConcatEmptySeq
      <4>3. h[n - 1] = <<>> /\ h[n] = s[n]
        BY <2>4, <3>1, <3>2
      <4>4. QED
        BY <4>2, <4>3
    <3>3. CASE n # 1
      <4>1. n - 1 \in 1 .. m
        BY <3>3
      <4>2. QED
        BY <2>4, <3>1, <3>3, <4>1
    <3>4. QED
      BY <3>2, <3>3
  <2>6. Joins(h, s) /\ FlattenSeq(s) = h[m]
    <3>1. m \in 1 .. m
      BY <1>3
    <3>2. QED
      BY <1>1, <2>2, <2>4, <2>5, <3>1 DEF Joins
  <2>7. QED
    BY <1>1, <2>6
<1>4. QED
  BY <1>2, <1>3

\* What is joined is a sequence, and one more at its end goes to the end.
LEMMA FlatAppend ==
  ASSUME NEW S, NEW s \in Seq(Seq(S)), NEW x \in Seq(S)
  PROVE  FlattenSeq(s) \in Seq(S) /\ FlattenSeq(Append(s, x)) = FlattenSeq(s) \o x
<1> DEFINE t == Append(s, x)
<1>1. PICK m \in Nat : m = Len(s)
  BY LenProperties
<1>2. t \in Seq(Seq(S)) /\ Len(t) = m + 1 /\ t[m + 1] = x /\ \A i \in 1 .. m : t[i] = s[i]
  BY <1>1, AppendProperties
<1> HIDE DEF t
<1>3. PICK g : Joins(g, s) /\ FlattenSeq(s) = g[m]
  BY <1>1, FlatTable
<1>4. PICK h : Joins(h, t) /\ FlattenSeq(t) = h[m + 1]
  BY <1>2, FlatTable
<1>5. g[m] \in Seq(S)
  <2>1. m \in 0 .. Len(s)
    BY <1>1
  <2>2. QED
    BY <1>3, <2>1, JoinsSeq
<1>6. g[m] = h[m]
  <2>1. Alike(s, t, m)
    BY <1>1, <1>2 DEF Alike
  <2>2. QED
    BY <1>3, <1>4, <2>1, JoinsAgree
<1>7. h[m + 1] = h[m] \o x
  <2>1. m + 1 \in 1 .. m + 1 /\ (m + 1) - 1 = m
    OBVIOUS
  <2>2. QED
    BY <1>2, <1>4, <2>1 DEF Joins
<1>8. QED
  BY <1>3, <1>4, <1>5, <1>6, <1>7 DEF t

(* An element is joined last, or to what is joined last.                   *)
Joined(p, q, e, S) == p \in Seq(S) /\ q \in Seq(S) /\ e \in S
JoinedLater(p, q, e) == p \o (q \o <<e>>) = Append(p \o q, e)
\* It is the same.
LEMMA JoinLater ==
  ASSUME NEW S, NEW p, NEW q, NEW e, Joined(p, q, e, S)
  PROVE  JoinedLater(p, q, e)
<1>1. p \in Seq(S) /\ q \in Seq(S) /\ e \in S
  BY DEF Joined
<1>2. <<e>> \in Seq(S) /\ p \o q \in Seq(S)
  BY <1>1, ConcatProperties
<1>3. (p \o q) \o <<e>> = p \o (q \o <<e>>)
  BY <1>1, <1>2, ConcatAssociative
<1>4. Append(p \o q, e) = (p \o q) \o <<e>>
  BY <1>1, <1>2, AppendIsConcat
<1>5. QED
  BY <1>3, <1>4 DEF JoinedLater

\* An element that is added to the last goes to the end.
LEMMA FlatLast ==
  ASSUME NEW S, NEW s \in Seq(Seq(S)), s # <<>>, NEW e \in S
  PROVE  LET t == [s EXCEPT ![Len(s)] = Append(@, e)] IN
         FlattenSeq(t) = Append(FlattenSeq(s), e) /\ t \in Seq(Seq(S)) /\ Len(t) = Len(s)
<1> DEFINE x == Append(s[Len(s)], e)
           t == [s EXCEPT ![Len(s)] = x]
<1>1. PICK m \in Nat \ {0} : m = Len(s)
  BY EmptySeq
<1>2. s[m] \in Seq(S) /\ x \in Seq(S) /\ <<e>> \in Seq(S) /\ x = s[m] \o <<e>>
  <2>1. s[m] \in Seq(S)
    BY <1>1, ElementOfSeq
  <2>2. QED
    BY <1>1, <2>1, AppendProperties, AppendIsConcat
<1> HIDE DEF x
<1>3. t \in Seq(Seq(S)) /\ Len(t) = m /\ t[m] = x /\ \A i \in 1 .. m - 1 : t[i] = s[i]
  <2>1. Len(s) \in 1 .. Len(s)
    BY <1>1
  <2>2. /\ t \in Seq(Seq(S)) /\ Len(t) = Len(s)
        /\ \A j \in 1 .. Len(s) : t[j] = IF j = Len(s) THEN x ELSE s[j]
    BY <1>2, <2>1, ExceptSeq
  <2> HIDE DEF t
  <2>3. QED
    <3>1. Len(t) = m /\ t[m] = x
      BY <1>1, <2>1, <2>2
    <3>2. ASSUME NEW i \in 1 .. m - 1 PROVE t[i] = s[i]
      <4>1. i \in 1 .. Len(s) /\ i # Len(s)
        BY <1>1
      <4>2. QED
        BY <2>2, <4>1
    <3>3. QED
      BY <2>2, <3>1, <3>2
<1> HIDE DEF t
<1>4. PICK g : Joins(g, s) /\ FlattenSeq(s) = g[m]
  BY <1>1, FlatTable
<1>5. PICK h : Joins(h, t) /\ FlattenSeq(t) = h[m]
  BY <1>3, FlatTable
<1>6. m - 1 \in Nat /\ m \in 1 .. m /\ m - 1 \in 0 .. Len(s) /\ m - 1 <= Len(s) /\ m - 1 <= Len(t)
      /\ Len(s) \in Nat /\ Len(t) \in Nat
  BY <1>1, <1>3
<1>7. g[m - 1] \in Seq(S)
  BY <1>4, <1>6, JoinsSeq
<1>8. g[m - 1] = h[m - 1]
  <2>1. Alike(s, t, m - 1)
    BY <1>3, <1>6 DEF Alike
  <2>2. QED
    BY <1>4, <1>5, <1>6, <2>1, JoinsAgree
<1>9. g[m] = g[m - 1] \o s[m] /\ h[m] = h[m - 1] \o x
  BY <1>1, <1>3, <1>4, <1>5, <1>6 DEF Joins
<1>10. g[m - 1] \o x = Append(g[m - 1] \o s[m], e)
  <2>1. Joined(g[m - 1], s[m], e, S)
    BY <1>2, <1>7 DEF Joined
  <2>2. JoinedLater(g[m - 1], s[m], e)
    BY <2>1, JoinLater
  <2>3. QED
    BY <1>2, <2>2 DEF JoinedLater
<1>11. FlattenSeq(t) = Append(FlattenSeq(s), e)
  BY <1>4, <1>5, <1>8, <1>9, <1>10
<1>12. QED
  BY <1>1, <1>3, <1>11 DEF t, x

NoView == [merge |-> FALSE, shown |-> <<>>]
NextView(g, ms, i) == IF i = 0 THEN NoView ELSE ShowOne(g[i - 1], ms[i])
ViewUpTo(g, ms, n) == g = [i \in 0 .. n |-> NextView(g, ms, i)]

\* What Transcript unfolds to.
LEMMA TranscriptUnfolds == Transcript = (CHOOSE g : ViewUpTo(g, kept, Len(kept)))[Len(kept)].shown
  BY DEF Transcript, ViewUpTo, NextView, NoView

\* Its prefixes exist.
LEMMA ViewExists == ASSUME NEW ms, NEW m \in Nat PROVE \E g : ViewUpTo(g, ms, m)
<1> DEFINE P(n) == \E g : ViewUpTo(g, ms, n)
           I == {n \in Nat : P(n)}
<1>1. 0 \in I
  <2> DEFINE g == [i \in 0 .. 0 |-> NoView]
  <2>1. ViewUpTo(g, ms, 0)
    BY DEF ViewUpTo, NextView
  <2> HIDE DEF g
  <2>2. QED
    BY <2>1
<1>2. ASSUME NEW n \in I PROVE n + 1 \in I
  <2>1. PICK g : g = [i \in 0 .. n |-> NextView(g, ms, i)]
    BY DEF ViewUpTo
  <2> DEFINE h == [i \in 0 .. n + 1 |-> NextView(g, ms, i)]
  <2>2. ASSUME NEW i \in 0 .. n + 1 PROVE NextView(g, ms, i) = NextView(h, ms, i)
    <3>1. CASE i = 0
      BY <3>1 DEF NextView
    <3>2. CASE i # 0
      <4>1. i - 1 \in 0 .. n /\ i - 1 \in 0 .. n + 1
        BY <3>2
      <4>2. h[i - 1] = g[i - 1]
        BY <2>1, <4>1, Zenon
      <4> HIDE DEF h
      <4>3. QED
        BY <3>2, <4>2 DEF NextView
    <3>3. QED
      BY <3>1, <3>2
  <2>3. h = [i \in 0 .. n + 1 |-> NextView(h, ms, i)]
    BY <2>2, Zenon
  <2> HIDE DEF h
  <2>4. P(n + 1)
    BY <2>3 DEF ViewUpTo
  <2>5. QED
    BY <2>4
<1> HIDE DEF P
<1>3. I \in SUBSET Nat
  OBVIOUS
<1>4. Nat \subseteq I
  <2> HIDE DEF I
  <2>1. QED
    BY <1>1, <1>2, <1>3, NatInd
<1>5. QED
  BY <1>4 DEF P

(* Messages that are shown are of the first n, in their order.             *)
InOrder(flat, ms, n) ==
  /\ flat \in Seq(Messages) /\ Ascending(flat)
  /\ \A m \in ToSet(flat) : \E j \in 1 .. n : m = ms[j]
(* What is shown of the first n messages.                                  *)
Shows(v, ms, n) ==
  /\ v.merge \in BOOLEAN /\ (v.merge => n # 0 /\ Hidden(ms[n]))
  /\ v.shown \in Seq(Seq(Messages)) /\ \A e \in DOMAIN v.shown : v.shown[e] # <<>>
  /\ InOrder(FlattenSeq(v.shown), ms, n)
  /\ \A i \in 1 .. n : ~Hidden(ms[i]) =>
       ms[i] \in ToSet(FlattenSeq(v.shown)) \/ (i > 1 /\ Hidden(ms[i - 1]))
  /\ \A i \in 2 .. n : ms[i - 1].is = "question" /\ IsAnswer(ms[i]) =>
       \E e \in DOMAIN v.shown : v.shown[e][1] = ms[i]

\* A later message goes to the end.
LEMMA ShownLast ==
  ASSUME NEW ms \in Seq(Messages), Ascending(ms), NEW n \in Nat, n + 1 <= Len(ms),
         NEW flat, InOrder(flat, ms, n)
  PROVE  /\ InOrder(Append(flat, ms[n + 1]), ms, n + 1)
         /\ ToSet(Append(flat, ms[n + 1])) = ToSet(flat) \cup {ms[n + 1]}
         /\ Append(flat, ms[n + 1]) = flat \o <<ms[n + 1]>>
<1> DEFINE x == ms[n + 1]  q == Append(flat, x)
<1>1. n + 1 \in 1 .. Len(ms) /\ Len(ms) \in Nat /\ DOMAIN ms = 1 .. Len(ms) /\ x \in Messages
  <2>1. n + 1 \in 1 .. Len(ms) /\ Len(ms) \in Nat /\ DOMAIN ms = 1 .. Len(ms)
    BY LenProperties
  <2>2. QED
    BY <2>1, ElementOfSeq
<1>2. PICK k \in Nat : k = Len(flat) /\ DOMAIN flat = 1 .. k /\ flat \in Seq(Messages)
  BY LenProperties DEF InOrder
<1>3. q \in Seq(Messages) /\ Len(q) = k + 1 /\ q[k + 1] = x /\ \A i \in 1 .. k : q[i] = flat[i]
  BY <1>1, <1>2, AppendProperties
<1>4. DOMAIN q = 1 .. k + 1 /\ q = flat \o <<x>>
  BY <1>1, <1>2, <1>3, LenProperties, AppendIsConcat
<1> HIDE DEF q
<1>5. ToSet(flat) = {flat[i] : i \in 1 .. k} /\ ToSet(q) = {q[i] : i \in 1 .. k + 1}
  BY <1>2, <1>4 DEF ToSet
<1>6. ToSet(q) = ToSet(flat) \cup {x}
  BY <1>2, <1>3, <1>5
<1>7. ASSUME NEW m \in ToSet(flat) PROVE m.id < x.id
  <2>1. PICK j \in 1 .. n : m = ms[j]
    BY DEF InOrder
  <2>2. j \in 1 .. Len(ms) /\ j < n + 1
    BY <1>1
  <2>3. QED
    BY <1>1, <2>1, <2>2 DEF Ascending
<1>8. ASSUME NEW i \in 1 .. k + 1, NEW j \in 1 .. k + 1, i < j PROVE q[i].id < q[j].id
  <2>1. CASE j = k + 1
    <3>1. i \in 1 .. k
      BY <1>2, <1>8, <2>1
    <3>2. q[i] \in ToSet(flat)
      BY <1>3, <1>5, <3>1
    <3>3. QED
      BY <1>3, <1>7, <2>1, <3>2
  <2>2. CASE j # k + 1
    <3>1. i \in 1 .. k /\ j \in 1 .. k
      BY <1>2, <1>8, <2>2
    <3>2. QED
      BY <1>2, <1>3, <1>8, <3>1 DEF InOrder, Ascending
  <2>3. QED
    BY <2>1, <2>2
<1>9. Ascending(q)
  BY <1>4, <1>8 DEF Ascending
<1>10. ASSUME NEW m \in ToSet(q) PROVE \E j \in 1 .. n + 1 : m = ms[j]
  BY <1>6, <1>10 DEF InOrder
<1>11. InOrder(q, ms, n + 1)
  BY <1>3, <1>9, <1>10 DEF InOrder
<1>12. QED
  BY <1>4, <1>6, <1>11 DEF q

\* One more message is shown where it belongs, or follows one that is hidden.
LEMMA ShowsMore ==
  ASSUME NEW ms \in Seq(Messages), Ascending(ms), NEW n \in Nat, n + 1 <= Len(ms),
         NEW v, Shows(v, ms, n)
  PROVE  Shows(ShowOne(v, ms[n + 1]), ms, n + 1)
<1> DEFINE x == ms[n + 1]  s == v.shown  w == ShowOne(v, x)  flat == FlattenSeq(s)
<1>1. /\ s \in Seq(Seq(Messages)) /\ (\A e \in DOMAIN s : s[e] # <<>>) /\ InOrder(flat, ms, n)
      /\ \A i \in 1 .. n : ~Hidden(ms[i]) => ms[i] \in ToSet(flat) \/ (i > 1 /\ Hidden(ms[i - 1]))
      /\ \A i \in 2 .. n : ms[i - 1].is = "question" /\ IsAnswer(ms[i]) => \E e \in DOMAIN s : s[e][1] = ms[i]
  BY DEF Shows
<1>2. x \in Messages /\ n + 1 # 0 /\ (n + 1) - 1 = n /\ n \in 0 .. n
  <2>1. n + 1 \in 1 .. Len(ms)
    BY LenProperties
  <2>2. QED
    BY <2>1, ElementOfSeq
<1>3. /\ InOrder(Append(flat, x), ms, n + 1) /\ ToSet(Append(flat, x)) = ToSet(flat) \cup {x}
      /\ Append(flat, x) = flat \o <<x>>
  BY <1>1, ShownLast
<1>4. InOrder(flat, ms, n + 1)
  BY <1>1 DEF InOrder
<1> HIDE DEF flat
<1>5. (\A i \in 1 .. n + 1 : i \in 1 .. n \/ i = n + 1) /\ (\A i \in 2 .. n + 1 : i \in 2 .. n \/ i = n + 1)
  OBVIOUS
<1>6. CASE Hidden(x)
  <2>1. w.shown = s /\ w.merge \in BOOLEAN
    BY <1>6 DEF ShowOne, Shows
  <2>2. ~IsAnswer(x)
    BY <1>6 DEF Hidden, IsAnswer
  <2> HIDE DEF s, w
  <2>3. \A i \in 1 .. n + 1 : ~Hidden(ms[i]) => ms[i] \in ToSet(flat) \/ (i > 1 /\ Hidden(ms[i - 1]))
    BY <1>1, <1>5, <1>6
  <2>4. \A i \in 2 .. n + 1 : ms[i - 1].is = "question" /\ IsAnswer(ms[i]) => \E e \in DOMAIN s : s[e][1] = ms[i]
    BY <1>1, <1>5, <2>2
  <2>5. FlattenSeq(s) = flat
    BY DEF flat
  <2>6. Shows(w, ms, n + 1)
    BY <1>1, <1>2, <1>4, <1>6, <2>1, <2>3, <2>4, <2>5 DEF Shows
  <2>7. QED
    BY <2>6 DEF w
<1>7. CASE ~Hidden(x) /\ v.merge /\ IsAnswer(x)
  <2>1. n # 0 /\ n + 1 > 1 /\ Hidden(ms[n]) /\ ms[n].is # "question"
    BY <1>7 DEF Shows, Hidden
  <2>2. \A i \in 1 .. n + 1 : ~Hidden(ms[i]) => ms[i] \in ToSet(flat) \/ (i > 1 /\ Hidden(ms[i - 1]))
    BY <1>1, <1>2, <1>5, <2>1
  <2>3. \A i \in 2 .. n + 1 : ms[i - 1].is = "question" /\ IsAnswer(ms[i]) => \E e \in DOMAIN s : s[e][1] = ms[i]
    BY <1>1, <1>2, <1>5, <2>1
  <2>4. CASE s # <<>> /\ IsAnswer(Last(Last(s)))
    <3> DEFINE t == [s EXCEPT ![Len(s)] = Append(@, x)]
    <3>1. w.shown = t /\ w.merge = FALSE
      BY <1>7, <2>4 DEF ShowOne
    <3>2. FlattenSeq(t) = Append(flat, x) /\ t \in Seq(Seq(Messages)) /\ Len(t) = Len(s)
      BY <1>1, <1>2, <2>4, FlatLast DEF flat
    <3>3. PICK k \in Nat \ {0} : k = Len(s) /\ DOMAIN s = 1 .. k /\ DOMAIN t = 1 .. k
      BY <1>1, <2>4, <3>2, EmptySeq, LenProperties
    <3>4. ASSUME NEW e \in 1 .. k PROVE t[e] # <<>> /\ t[e][1] = s[e][1]
      <4>1. s[e] \in Seq(Messages) /\ s[e] # <<>>
        BY <1>1, <3>3, ElementOfSeq
      <4>2. CASE e # k
        <5>1. t[e] = s[e]
          BY <3>3, <4>2
        <5>2. QED
          BY <4>1, <5>1
      <4>3. CASE e = k
        <5>1. t[e] = Append(s[e], x)
          BY <3>3, <4>3
        <5>2. PICK l \in Nat \ {0} : l = Len(s[e])
          BY <4>1, EmptySeq
        <5>3. 1 \in 1 .. Len(s[e])
          BY <5>2
        <5> HIDE DEF t
        <5>4. Append(s[e], x) # <<>> /\ Append(s[e], x)[1] = s[e][1]
          BY <1>2, <4>1, <5>3, AppendProperties
        <5>5. QED
          BY <5>1, <5>4
      <4>4. QED
        BY <4>2, <4>3
    <3> HIDE DEF t, s, w
    <3>5. \A i \in 1 .. n + 1 : ~Hidden(ms[i]) => ms[i] \in ToSet(FlattenSeq(t)) \/ (i > 1 /\ Hidden(ms[i - 1]))
      BY <1>3, <2>2, <3>2
    <3>6. \A i \in 2 .. n + 1 : ms[i - 1].is = "question" /\ IsAnswer(ms[i]) => \E e \in DOMAIN t : t[e][1] = ms[i]
      BY <2>3, <3>3, <3>4
    <3>7. InOrder(FlattenSeq(t), ms, n + 1)
      BY <1>3, <3>2
    <3>8. Shows(w, ms, n + 1)
      BY <3>1, <3>2, <3>3, <3>4, <3>5, <3>6, <3>7 DEF Shows
    <3>9. QED
      BY <3>8 DEF w
  <2>5. CASE ~(s # <<>> /\ IsAnswer(Last(Last(s))))
    <3>1. w.shown = s /\ w.merge = FALSE
      BY <1>7, <2>5 DEF ShowOne
    <3>2. FlattenSeq(s) = flat
      BY DEF flat
    <3> HIDE DEF s, w
    <3>3. Shows(w, ms, n + 1)
      BY <1>1, <1>4, <2>2, <2>3, <3>1, <3>2 DEF Shows
    <3>4. QED
      BY <3>3 DEF w
  <2>6. QED
    BY <2>4, <2>5
<1>8. CASE ~Hidden(x) /\ ~(v.merge /\ IsAnswer(x))
  <2> DEFINE t == Append(s, <<x>>)
  <2>1. w.shown = t /\ w.merge = FALSE
    BY <1>8 DEF ShowOne
  <2>2. <<x>> \in Seq(Messages) /\ <<x>> # <<>> /\ <<x>>[1] = x
    BY <1>2
  <2>3. FlattenSeq(t) = Append(flat, x)
    BY <1>1, <1>3, <2>2, FlatAppend DEF flat
  <2>4. PICK k \in Nat : k = Len(s) /\ DOMAIN s = 1 .. k
    BY <1>1, LenProperties
  <2>5. /\ t \in Seq(Seq(Messages)) /\ Len(t) = k + 1 /\ t[k + 1] = <<x>> /\ \A e \in 1 .. k : t[e] = s[e]
    BY <1>1, <2>2, <2>4, AppendProperties
  <2>6. DOMAIN t = 1 .. k + 1
    BY <2>5, LenProperties
  <2> HIDE DEF t, s, w
  <2>7. \A i \in 1 .. n + 1 : ~Hidden(ms[i]) => ms[i] \in ToSet(FlattenSeq(t)) \/ (i > 1 /\ Hidden(ms[i - 1]))
    BY <1>1, <1>3, <1>5, <2>3
  <2>8. \A i \in 2 .. n + 1 : ms[i - 1].is = "question" /\ IsAnswer(ms[i]) => \E e \in DOMAIN t : t[e][1] = ms[i]
    <3>1. SUFFICES ASSUME NEW i \in 2 .. n + 1, ms[i - 1].is = "question", IsAnswer(ms[i])
                   PROVE  \E e \in 1 .. k + 1 : t[e][1] = ms[i]
      BY <2>6
    <3>2. CASE i = n + 1
      <4>1. k + 1 \in 1 .. k + 1 /\ t[k + 1][1] = ms[i]
        BY <2>2, <2>5, <3>2
      <4>2. QED
        BY <4>1
    <3>3. CASE i # n + 1
      <4>1. i \in 2 .. n
        BY <1>5, <3>3
      <4>2. PICK e \in 1 .. k : s[e][1] = ms[i]
        BY <1>1, <2>4, <3>1, <4>1
      <4>3. e \in 1 .. k + 1 /\ t[e][1] = ms[i]
        BY <2>5, <4>2
      <4>4. QED
        BY <4>3
    <3>4. QED
      BY <3>2, <3>3
  <2>9. InOrder(FlattenSeq(t), ms, n + 1)
    BY <1>3, <2>3
  <2>10. \A e \in DOMAIN t : t[e] # <<>>
    <3>1. \A e \in 1 .. k + 1 : e \in 1 .. k \/ e = k + 1
      OBVIOUS
    <3>2. QED
      BY <1>1, <2>2, <2>4, <2>5, <2>6, <3>1
  <2>11. Shows(w, ms, n + 1)
    BY <2>1, <2>5, <2>7, <2>8, <2>9, <2>10 DEF Shows
  <2>12. QED
    BY <2>11 DEF w
<1>9. QED
  BY <1>6, <1>7, <1>8

\* The owner reads every message, in its order and once.
LEMMA TranscriptIs == ASSUME kept \in Seq(Messages), Ascending(kept) PROVE TranscriptIsWhole
<1>1. PICK m \in Nat : m = Len(kept) /\ DOMAIN kept = 1 .. m
  BY LenProperties
<1> DEFINE c == CHOOSE g : ViewUpTo(g, kept, m)
<1>2. ViewUpTo(c, kept, m)
  BY ViewExists
<1>3. Transcript = c[m].shown
  BY <1>1, TranscriptUnfolds
<1> HIDE DEF c
<1>4. \A n \in 0 .. m : c[n] = NextView(c, kept, n)
  BY <1>2 DEF ViewUpTo
<1> DEFINE I == {n \in Nat : n <= m => Shows(c[n], kept, n)}
<1>5. 0 \in I
  <2>1. 0 \in 0 .. m
    OBVIOUS
  <2>2. c[0] = NoView
    BY <1>4, <2>1 DEF NextView
  <2>3. NoView.merge = FALSE /\ NoView.shown = <<>> /\ <<>> \in Seq(Seq(Messages)) /\ DOMAIN <<>> = {}
    BY DEF NoView
  <2>4. FlattenSeq(<<>>) = <<>> /\ <<>> \in Seq(Messages) /\ ToSet(<<>>) = {} /\ Ascending(<<>>)
    BY DEF FlattenSeq, ToSet, Ascending
  <2>5. InOrder(<<>>, kept, 0)
    BY <2>4 DEF InOrder
  <2>6. Shows(NoView, kept, 0)
    <3>1. PICK v : v = NoView
      OBVIOUS
    <3>2. v.merge = FALSE /\ v.shown = <<>> /\ FlattenSeq(v.shown) = <<>>
      BY <2>3, <2>4, <3>1
    <3>3. (\A i \in 1 .. 0 : FALSE) /\ (\A i \in 2 .. 0 : FALSE)
      OBVIOUS
    <3>4. v.shown \in Seq(Seq(Messages)) /\ (\A e \in DOMAIN v.shown : FALSE)
      BY <2>3, <3>2
    <3>5. InOrder(FlattenSeq(v.shown), kept, 0)
      BY <2>5, <3>2
    <3>6. Shows(v, kept, 0)
      BY <3>2, <3>3, <3>4, <3>5 DEF Shows
    <3>7. QED
      BY <3>1, <3>6
  <2>7. QED
    BY <2>2, <2>6
<1>6. ASSUME NEW n \in I PROVE n + 1 \in I
  <2>1. SUFFICES ASSUME n + 1 <= m PROVE Shows(c[n + 1], kept, n + 1)
    OBVIOUS
  <2>2. n \in Nat /\ Shows(c[n], kept, n) /\ n + 1 \in 0 .. m /\ n + 1 # 0 /\ (n + 1) - 1 = n
    BY <2>1
  <2>3. c[n + 1] = ShowOne(c[n], kept[n + 1])
    BY <1>4, <2>2 DEF NextView
  <2>4. QED
    BY <1>1, <2>1, <2>2, <2>3, ShowsMore
<1>7. I \in SUBSET Nat
  OBVIOUS
<1> HIDE DEF I
<1>8. Nat \subseteq I
  BY <1>5, <1>6, <1>7, NatInd
<1>9. Shows(c[m], kept, m)
  BY <1>8 DEF I
<1> DEFINE shown == FlattenSeq(Transcript)
<1>10. /\ Ascending(shown)
       /\ \A i \in 1 .. m : ~Hidden(kept[i]) => kept[i] \in ToSet(shown) \/ (i > 1 /\ Hidden(kept[i - 1]))
       /\ \A i \in 2 .. m : kept[i - 1].is = "question" /\ IsAnswer(kept[i]) =>
            \E e \in DOMAIN Transcript : Transcript[e][1] = kept[i]
  BY <1>3, <1>9 DEF Shows, InOrder
<1>11. \A x \in ToSet(shown) : \E j \in DOMAIN shown : shown[j] = x
  BY DEF ToSet
<1> HIDE DEF shown
<1>12. /\ \A i, j \in DOMAIN shown : i < j => shown[i].id < shown[j].id
       /\ \A i \in DOMAIN kept :
            ~Hidden(kept[i]) => (\E j \in DOMAIN shown : shown[j] = kept[i]) \/ (i > 1 /\ Hidden(kept[i - 1]))
  BY <1>1, <1>10, <1>11 DEF Ascending
<1>13. QED
  BY <1>1, <1>10, <1>12 DEF TranscriptIsWhole, shown

-----------------------------------------------------------------------------
(* The inductive invariant.                                                *)
(* The ids of what is kept are the latest ones, with no gap.               *)
Numbered(ms, n) == Len(ms) < n /\ \A i \in 1 .. Len(ms) : ms[i].id = n - 1 - Len(ms) + i
(* A block that stands for what is kept up to its boundary.                *)
Block(s, ms, n) ==
  /\ LinesUpTo(s.lines, s.through) /\ s.through < n
  /\ \A m \in ToSet(ms) : m.id = s.through => Readable(m)
  /\ Covers(s.lines, s.through, ToSet(InWindow(ms)))
Newer(ms, b) == {m \in ToSet(ms) : Readable(m) /\ m.id > b}
Answering == turn \in {"question", "continue"}
(* The context of a running turn, and what it stores at its end.           *)
Given ==
  /\ Block(given, kept, next)
  /\ given.moved \in BOOLEAN
  /\ given.moved => SizeOf(Newer(kept, given.through)) <= Target
  /\ ~given.moved => given.lines = summary.lines /\ given.through = summary.through
(* An answer follows the message that opened its turn, and is not the first. *)
Opened ==
  /\ turn # "none" => kept # <<>> /\ ~IsAnswer(Last(kept))
  /\ kept # <<>> /\ IsAnswer(Last(kept)) => Len(kept) <= MaxStored
  /\ kept # <<>> /\ MaxStored > 1 => ~IsAnswer(kept[1])
HistIInv ==
  /\ kept \in Seq(Messages) /\ next \in Nat \ {0} /\ grown \in Nat \cup {-1}
  /\ turn \in {"none", "question", "resume", "continue"}
  /\ Numbered(kept, next) /\ Opened
  /\ Block(summary, kept, next)
  /\ grown >= 0 => SizeOf(Newer(kept, summary.through)) <= Target + grown
  /\ Answering => Given
  /\ NothingIsLost /\ ContextFits /\ MovesInChunks

\* Ids ascend, and an id below the next is one that is kept or older than all.
LEMMA NumberedIs ==
  ASSUME NEW ms \in Seq(Messages), NEW n \in Nat, Numbered(ms, n)
  PROVE  /\ Ascending(ms)
         /\ \A m \in ToSet(ms) : m \in Messages /\ m.id \in Nat \ {0} /\ m.id < n
         /\ \A b \in Nat : b < n => Placed(b, ToSet(ms))
<1>1. PICK k \in Nat : k = Len(ms) /\ DOMAIN ms = 1 .. k
  BY LenProperties
<1>2. k < n /\ \A i \in 1 .. k : ms[i].id = n - 1 - k + i /\ ms[i] \in Messages /\ ms[i] \in ToSet(ms)
  BY <1>1, ElementOfSeq DEF Numbered, ToSet
<1>3. Ascending(ms)
  <2>1. SUFFICES ASSUME NEW i \in 1 .. k, NEW j \in 1 .. k, i < j PROVE ms[i].id < ms[j].id
    BY <1>1 DEF Ascending
  <2>2. QED
    BY <1>2, <2>1
<1>4. \A m \in ToSet(ms) : \E i \in 1 .. k : m = ms[i]
  BY <1>1 DEF ToSet
<1>5. ASSUME NEW m \in ToSet(ms) PROVE m \in Messages /\ m.id \in Nat \ {0} /\ m.id < n
  <2>1. PICK i \in 1 .. k : m = ms[i]
    BY <1>4
  <2>2. QED
    BY <1>2, <2>1
<1>6. ASSUME NEW b \in Nat, b < n PROVE Placed(b, ToSet(ms))
  <2>1. CASE b <= n - 1 - k
    <3>1. ASSUME NEW m \in ToSet(ms) PROVE m.id > b
      <4>1. PICK i \in 1 .. k : m = ms[i]
        BY <1>4
      <4>2. QED
        BY <1>2, <2>1, <4>1
    <3>2. QED
      BY <3>1 DEF Placed
  <2>2. CASE b > n - 1 - k
    <3>1. b - (n - 1 - k) \in 1 .. k
      BY <1>2, <1>6, <2>2
    <3>2. ms[b - (n - 1 - k)].id = b /\ ms[b - (n - 1 - k)] \in ToSet(ms)
      BY <1>2, <3>1
    <3>3. QED
      BY <3>2 DEF Placed
  <2>3. QED
    BY <2>1, <2>2
<1>7. QED
  BY <1>3, <1>5, <1>6

\* One more message is numbered, and so is what is left of them.
LEMMA NumberedMore ==
  ASSUME NEW ms \in Seq(Messages), NEW n \in Nat, Numbered(ms, n)
  PROVE  /\ \A x \in Messages : x.id = n => Append(ms, x) \in Seq(Messages) /\ Numbered(Append(ms, x), n + 1)
         /\ \A i \in 0 .. Len(ms) : After(ms, i) \in Seq(Messages) /\ Numbered(After(ms, i), n)
<1>1. PICK k \in Nat : k = Len(ms)
  BY LenProperties
<1>2. k < n /\ \A i \in 1 .. k : ms[i].id = n - 1 - k + i
  BY <1>1 DEF Numbered
<1>3. ASSUME NEW x \in Messages, x.id = n
      PROVE  Append(ms, x) \in Seq(Messages) /\ Numbered(Append(ms, x), n + 1)
  <2> DEFINE t == Append(ms, x)
  <2>1. t \in Seq(Messages) /\ Len(t) = k + 1 /\ t[k + 1] = x /\ \A i \in 1 .. k : t[i] = ms[i]
    BY <1>1, AppendProperties
  <2> HIDE DEF t
  <2>2. ASSUME NEW i \in 1 .. k + 1 PROVE t[i].id = (n + 1) - 1 - (k + 1) + i
    <3>1. CASE i = k + 1
      BY <1>3, <2>1, <3>1
    <3>2. CASE i # k + 1
      <4>1. i \in 1 .. k
        BY <3>2
      <4>2. QED
        BY <1>2, <2>1, <4>1
    <3>3. QED
      BY <3>1, <3>2
  <2>3. QED
    BY <1>2, <2>1, <2>2 DEF Numbered, t
<1>4. ASSUME NEW i \in 0 .. Len(ms) PROVE After(ms, i) \in Seq(Messages) /\ Numbered(After(ms, i), n)
  <2> DEFINE a == After(ms, i)
  <2>1. a \in Seq(Messages) /\ Len(a) = k - i /\ \A j \in 1 .. k - i : a[j] = ms[i + j]
    BY <1>1, AfterIs
  <2>2. i \in 0 .. k
    BY <1>1
  <2> HIDE DEF a
  <2>3. ASSUME NEW j \in 1 .. k - i PROVE a[j].id = n - 1 - (k - i) + j
    <3>1. i + j \in 1 .. k
      BY <2>2
    <3>2. a[j] = ms[i + j] /\ ms[i + j].id = n - 1 - k + (i + j)
      BY <1>2, <2>1, <3>1
    <3>3. QED
      BY <2>2, <3>2
  <2>4. QED
    BY <1>2, <2>1, <2>2, <2>3 DEF Numbered, a
<1>5. QED
  BY <1>3, <1>4
\* The elements with one more.
LEMMA AppendSet == ASSUME NEW S, NEW s \in Seq(S), NEW x \in S PROVE ToSet(Append(s, x)) = ToSet(s) \cup {x}
<1>1. PICK k \in Nat : k = Len(s) /\ DOMAIN s = 1 .. k
  BY LenProperties
<1> DEFINE t == Append(s, x)
<1>2. t \in Seq(S) /\ Len(t) = k + 1 /\ t[k + 1] = x /\ \A i \in 1 .. k : t[i] = s[i]
  BY <1>1, AppendProperties
<1> HIDE DEF t
<1>3. DOMAIN t = 1 .. k + 1
  BY <1>2, LenProperties
<1>4. \A y : (\E i \in 1 .. k + 1 : t[i] = y) <=> (\E i \in 1 .. k : s[i] = y) \/ y = x
  <2>1. ASSUME NEW y, NEW i \in 1 .. k + 1, t[i] = y PROVE (\E j \in 1 .. k : s[j] = y) \/ y = x
    <3>1. i = k + 1 \/ i \in 1 .. k
      OBVIOUS
    <3>2. QED
      BY <1>2, <2>1, <3>1
  <2>2. k + 1 \in 1 .. k + 1 /\ \A i \in 1 .. k : i \in 1 .. k + 1
    OBVIOUS
  <2>3. QED
    BY <1>2, <2>1, <2>2
<1>5. QED
  BY <1>1, <1>3, <1>4 DEF ToSet, t

\* A boundary that is a readable message, or older than all, is placed in the window.
LEMMA PlacedIs ==
  ASSUME NEW ms \in Seq(Messages), NEW n \in Nat, Numbered(ms, n), NEW s, Block(s, ms, n)
  PROVE  Placed(s.through, ToSet(InWindow(ms)))
<1> DEFINE b == s.through
           W == ToSet(InWindow(ms))
<1>1. b \in Nat /\ b < n /\ \A m \in ToSet(ms) : m.id = b => Readable(m)
  BY DEF Block, LinesUpTo
<1>2. /\ \A m \in W : m \in ToSet(ms) /\ Readable(m)
      /\ \A m \in ToSet(ms) : Readable(m) => m \in W \/ \A x \in W : m.id < x.id
  BY NumberedIs, WindowIs
<1>3. (\E m \in ToSet(ms) : m.id = b) \/ (\A m \in ToSet(ms) : m.id > b)
  BY <1>1, NumberedIs DEF Placed
<1>4. \A m \in W : m.id \in Nat
  BY <1>2, NumberedIs
<1> HIDE DEF b, W
<1>5. (\E m \in W : m.id = b) \/ (\A m \in W : m.id > b)
  BY <1>1, <1>2, <1>3, <1>4
<1>6. QED
  BY <1>5 DEF Placed, b, W

\* A block stands for what it stood for when a message is added and when old ones go.
LEMMA BlockMore ==
  ASSUME NEW ms \in Seq(Messages), NEW n \in Nat, Numbered(ms, n), NEW s, Block(s, ms, n)
  PROVE  /\ \A x \in Messages : x.id = n => Block(s, Append(ms, x), n + 1)
         /\ \A i \in 0 .. Len(ms) : Block(s, After(ms, i), n)
<1>1. /\ LinesUpTo(s.lines, s.through) /\ s.through \in Nat /\ s.through < n
      /\ \A m \in ToSet(ms) : m.id = s.through => Readable(m)
      /\ Covers(s.lines, s.through, ToSet(InWindow(ms)))
  BY DEF Block, LinesUpTo
<1>2. ASSUME NEW x \in Messages, x.id = n PROVE Block(s, Append(ms, x), n + 1)
  <2>1. ToSet(Append(ms, x)) = ToSet(ms) \cup {x}
    BY AppendSet
  <2>2. ToSet(InWindow(Append(ms, x))) \subseteq ToSet(InWindow(ms)) \cup {x}
    BY WindowAppend
  <2>3. Covers(s.lines, s.through, ToSet(InWindow(Append(ms, x))))
    BY <1>1, <1>2, <2>2 DEF Covers
  <2>4. s.through < n + 1 /\ \A m \in ToSet(Append(ms, x)) : m.id = s.through => Readable(m)
    BY <1>1, <1>2, <2>1
  <2>5. QED
    BY <1>1, <2>3, <2>4 DEF Block
<1>3. ASSUME NEW i \in 0 .. Len(ms) PROVE Block(s, After(ms, i), n)
  <2>1. ToSet(After(ms, i)) \subseteq ToSet(ms)
    BY NumberedIs, AfterSet
  <2>2. ToSet(InWindow(After(ms, i))) \subseteq ToSet(InWindow(ms))
    BY WindowSuffix
  <2>3. Covers(s.lines, s.through, ToSet(InWindow(After(ms, i))))
    BY <1>1, <2>2 DEF Covers
  <2>4. QED
    BY <1>1, <2>1, <2>3 DEF Block
<1>4. QED
  BY <1>2, <1>3

\* What is newer than a boundary grows by a message that is read, and never by trimming.
LEMMA NewerMore ==
  ASSUME NEW ms \in Seq(Messages), NEW n \in Nat, Numbered(ms, n), NEW b \in Nat, b < n
  PROVE  /\ SizeOf(Newer(ms, b)) \in Nat
         /\ \A x \in Messages : x.id = n =>
              SizeOf(Newer(Append(ms, x), b)) = SizeOf(Newer(ms, b)) + (IF Readable(x) THEN x.size ELSE 0)
         /\ \A i \in 0 .. Len(ms) : SizeOf(Newer(After(ms, i), b)) <= SizeOf(Newer(ms, b))
<1> DEFINE S == Newer(ms, b)
<1>1. S \in SUBSET Messages /\ IsFiniteSet(S)
  <2>1. IsFiniteSet(ToSet(ms)) /\ ToSet(ms) \subseteq Messages
    BY ToSetFinite
  <2>2. S \subseteq ToSet(ms)
    BY DEF Newer
  <2>3. QED
    BY <2>1, <2>2, FS_Subset
<1>2. SizeOf(S) \in Nat
  BY <1>1, SizeNat
<1>3. ASSUME NEW x \in Messages, x.id = n
      PROVE  SizeOf(Newer(Append(ms, x), b)) = SizeOf(S) + (IF Readable(x) THEN x.size ELSE 0)
  <2>1. ToSet(Append(ms, x)) = ToSet(ms) \cup {x}
    BY AppendSet
  <2>2. x \notin ToSet(ms) /\ x.id > b
    BY <1>3, NumberedIs
  <2>3. x.size \in Nat
    BY HistoryAssumption DEF Messages
  <2>4. CASE Readable(x)
    <3>1. Newer(Append(ms, x), b) = S \cup {x} /\ x \notin S
      BY <2>1, <2>2, <2>4 DEF Newer
    <3>2. SizeOf(S \cup {x}) = x.size + SizeOf(S)
      BY <1>1, <3>1, SizeAdd
    <3>3. QED
      BY <1>2, <2>3, <2>4, <3>1, <3>2
  <2>5. CASE ~Readable(x)
    <3>1. Newer(Append(ms, x), b) = S
      BY <2>1, <2>5 DEF Newer
    <3>2. QED
      BY <1>2, <2>5, <3>1
  <2>6. QED
    BY <2>4, <2>5
<1>4. ASSUME NEW i \in 0 .. Len(ms) PROVE SizeOf(Newer(After(ms, i), b)) <= SizeOf(S)
  <2>1. ToSet(After(ms, i)) \subseteq ToSet(ms)
    BY NumberedIs, AfterSet
  <2>2. Newer(After(ms, i), b) \subseteq S
    BY <2>1 DEF Newer
  <2>3. QED
    BY <1>1, <2>2, SizeLess
<1>5. QED
  BY <1>2, <1>3, <1>4

\* The window's messages beyond a boundary are newer than it; behind a message of
\* the window they are all that are.
LEMMA BeyondNewer ==
  ASSUME NEW ms \in Seq(Messages), NEW n \in Nat, Numbered(ms, n), NEW b \in Nat
  PROVE  LET W == ToSet(InWindow(ms)) IN
         /\ SizeOf(Beyond(W, b)) <= SizeOf(Newer(ms, b))
         /\ (\E m \in W : m.id = b) => Newer(ms, b) = Beyond(W, b)
<1> DEFINE W == ToSet(InWindow(ms))
<1>1. /\ \A m \in W : m \in ToSet(ms) /\ Readable(m)
      /\ \A m \in ToSet(ms) : Readable(m) => m \in W \/ \A x \in W : m.id < x.id
  BY NumberedIs, WindowIs
<1>2. \A m \in ToSet(ms) : m.id \in Nat
  BY NumberedIs
<1>3. Newer(ms, b) \in SUBSET Messages /\ IsFiniteSet(Newer(ms, b))
  <2>1. IsFiniteSet(ToSet(ms)) /\ ToSet(ms) \subseteq Messages
    BY ToSetFinite
  <2>2. Newer(ms, b) \subseteq ToSet(ms)
    BY DEF Newer
  <2>3. QED
    BY <2>1, <2>2, FS_Subset
<1> HIDE DEF W
<1>4. Beyond(W, b) \subseteq Newer(ms, b)
  BY <1>1 DEF Beyond, Newer
<1>5. SizeOf(Beyond(W, b)) <= SizeOf(Newer(ms, b))
  BY <1>3, <1>4, SizeLess
<1>6. ASSUME NEW m \in W, m.id = b PROVE Newer(ms, b) \subseteq Beyond(W, b)
  BY <1>1, <1>2, <1>6 DEF Beyond, Newer
<1>7. QED
  BY <1>4, <1>5, <1>6 DEF W
-----------------------------------------------------------------------------
(* The steps.                                                              *)
(* NothingIsLost, of any context.                                          *)
Tells(c, ms) ==
  LET context == c.lines \o Ids(c.rest)
      readable == InWindow(ms) IN
  /\ \A i, j \in DOMAIN context : i < j => context[i] < context[j]
  /\ readable # <<>> => Last(readable).id = Last(context)
  /\ \A i \in DOMAIN readable :
        \/ readable[i].id \in ToSet(context)
        \/ Len(c.lines) >= BlockShare /\ readable[i].id < c.lines[1]

\* The last of ascending messages has the greatest id.
LEMMA LastIs ==
  ASSUME NEW ms \in Seq(Messages), Ascending(ms), ms # <<>>
  PROVE  Last(ms) \in ToSet(ms) /\ \A m \in ToSet(ms) : m.id <= Last(ms).id
<1>1. PICK k \in Nat : k = Len(ms) /\ DOMAIN ms = 1 .. k
  BY LenProperties
<1>2. k # 0
  BY <1>1, EmptySeq
<1>3. k \in 1 .. k /\ ms[k] \in ToSet(ms) /\ Last(ms) = ms[k]
  BY <1>1, <1>2 DEF ToSet, Last
<1>4. ASSUME NEW m \in ToSet(ms) PROVE m.id <= ms[k].id
  <2>1. PICK i \in 1 .. k : m = ms[i]
    BY <1>1 DEF ToSet
  <2>2. ms[i] \in Messages /\ ms[k] \in Messages
    BY <1>1, <1>3, ElementOfSeq
  <2>3. ms[i].id \in Nat /\ ms[k].id \in Nat
    BY <2>2 DEF Messages
  <2>4. i < k => ms[i].id < ms[k].id
    BY <1>1, <1>3 DEF Ascending
  <2>5. QED
    BY <2>1, <2>3, <2>4
<1>5. QED
  BY <1>3, <1>4

\* A context of a block and of what is beyond its boundary loses nothing.
LEMMA TellsAll ==
  ASSUME NEW ms \in Seq(Messages), NEW n \in Nat, Numbered(ms, n), NEW c, Block(c, ms, n),
         c.rest \in Seq(Messages), Ascending(c.rest),
         ToSet(c.rest) = Beyond(ToSet(InWindow(ms)), c.through)
  PROVE  Tells(c, ms)
<1> DEFINE w == InWindow(ms)
           b == c.through
           a == c.lines
           r == Ids(c.rest)
           context == a \o r
<1>1. /\ a \in Seq(Nat) /\ Rising(a) /\ b \in Nat /\ IF a = <<>> THEN b = 0 ELSE Last(a) = b
      /\ Covers(a, b, ToSet(w))
  BY DEF Block, LinesUpTo
<1>2. /\ w \in Seq(Messages) /\ Ascending(w)
      /\ \A m \in ToSet(w) : m.id \in Nat \ {0}
  BY NumberedIs, WindowIs
<1>3. \A x \in ToSet(a) : x \in Nat /\ x <= b
  BY LinesBelow DEF Block
<1>4. /\ r \in Seq(Nat) /\ Len(r) = Len(c.rest) /\ \A i \in 1 .. Len(c.rest) : r[i] = c.rest[i].id
      /\ ToSet(r) = {m.id : m \in ToSet(c.rest)} /\ Rising(r)
  BY IdsAre
<1>5. \A x \in ToSet(r) : x > b
  BY <1>4 DEF Beyond
<1>6. \A x \in ToSet(a), y \in ToSet(r) : x < y
  <2>1. ASSUME NEW x \in ToSet(a), NEW y \in ToSet(r) PROVE x < y
    <3>1. x \in Nat /\ x <= b /\ y > b
      BY <1>3, <1>5
    <3>2. y \in Nat
      BY <1>2, <1>4 DEF Beyond
    <3>3. QED
      BY <1>1, <3>1, <3>2
  <2>2. QED
    BY <2>1
<1>7. /\ context \in Seq(Nat) /\ Len(context) = Len(a) + Len(r) /\ ToSet(context) = ToSet(a) \cup ToSet(r)
      /\ \A i \in 1 .. Len(a) : context[i] = a[i]
      /\ \A i \in 1 .. Len(r) : context[Len(a) + i] = r[i]
      /\ Rising(context)
  BY <1>1, <1>4, <1>6, RisingConcat
<1>8. Placed(b, ToSet(w))
  BY PlacedIs
<1>9. ToSet(c.rest) = {m \in ToSet(w) : m.id > b}
  BY DEF Beyond
<1> HIDE DEF w, b, a, r, context
<1>10. ASSUME w # <<>> PROVE Last(w).id = Last(context)
  <2> DEFINE l == Last(w)
  <2>1. l \in ToSet(w) /\ l.id \in Nat \ {0} /\ \A m \in ToSet(w) : m.id <= l.id
    BY <1>2, <1>10, LastIs
  <2> HIDE DEF l
  <2>2. PICK p \in Nat, q \in Nat : p = Len(a) /\ q = Len(r) /\ q = Len(c.rest)
    BY <1>1, <1>4, LenProperties
  <2>3. CASE c.rest # <<>>
    <3>1. q # 0
      BY <2>2, <2>3, EmptySeq
    <3>2. Last(context) = r[q]
      <4>1. Last(context) = context[p + q] /\ q \in 1 .. q
        BY <1>7, <2>2, <3>1 DEF Last
      <4>2. QED
        BY <1>7, <2>2, <4>1
    <3>3. r[q] = Last(c.rest).id
      BY <1>4, <2>2, <3>1 DEF Last
    <3>4. Last(c.rest) \in ToSet(c.rest) /\ \A m \in ToSet(c.rest) : m.id <= Last(c.rest).id
      BY <2>3, LastIs
    <3>5. PICK z : z = Last(c.rest)
      OBVIOUS
    <3>6. z \in ToSet(w) /\ z.id > b /\ z.id \in Nat /\ z.id <= l.id
      BY <1>2, <1>9, <2>1, <3>4, <3>5
    <3>7. l.id > b
      BY <1>1, <2>1, <3>6
    <3>8. l.id <= z.id
      BY <1>9, <2>1, <3>4, <3>5, <3>7
    <3>9. QED
      BY <2>1, <3>2, <3>3, <3>5, <3>6, <3>8 DEF l
  <2>4. CASE c.rest = <<>>
    <3>1. ToSet(c.rest) = {}
      BY <2>4 DEF ToSet
    <3>2. l.id <= b
      BY <1>1, <1>9, <2>1, <3>1
    <3>3. l.id = b
      BY <1>1, <1>8, <2>1, <3>2 DEF Placed
    <3>4. a # <<>> /\ Last(a) = b
      BY <1>1, <2>1, <3>3
    <3>5. p # 0 /\ q = 0
      BY <1>1, <2>2, <2>4, <3>4, EmptySeq
    <3>6. Last(context) = context[p] /\ p \in 1 .. p /\ Last(a) = a[p]
      BY <1>7, <2>2, <3>5 DEF Last
    <3>7. Last(context) = b
      BY <1>7, <2>2, <3>4, <3>6
    <3>8. QED
      BY <3>3, <3>7 DEF l
  <2>5. QED
    BY <2>3, <2>4
<1>11. ASSUME NEW m \in ToSet(w)
       PROVE  m.id \in ToSet(context) \/ (Len(a) >= BlockShare /\ m.id < a[1])
  <2>1. m.id \in Nat
    BY <1>2
  <2>2. CASE m.id <= b
    BY <1>1, <1>7, <2>2 DEF Covers
  <2>3. CASE m.id > b
    BY <1>4, <1>7, <1>9, <2>3
  <2>4. QED
    BY <1>1, <2>1, <2>2, <2>3
<1>12. \A i \in DOMAIN w : w[i] \in ToSet(w)
  BY DEF ToSet
<1>13. QED
  BY <1>7, <1>10, <1>11, <1>12 DEF Tells, Rising, w, a, r, context
\* What a message that is begun condenses from.
LEMMA BlockEmpty ==
  ASSUME NEW ms \in Seq(Messages), NEW n \in Nat \ {0}, Numbered(ms, n) PROVE Block(Empty, ms, n)
<1>1. Empty.lines = <<>> /\ Empty.through = 0 /\ <<>> \in Seq(Nat) /\ Len(<<>>) = 0 /\ DOMAIN <<>> = {}
  BY DEF Empty
<1>2. BlockShare \in Nat
  BY HistoryAssumption
<1>3. Rising(<<>>)
  BY <1>1 DEF Rising
<1>4. LinesUpTo(Empty.lines, Empty.through)
  BY <1>1, <1>2, <1>3 DEF LinesUpTo
<1>5. \A m \in ToSet(ms) : m.id \in Nat \ {0}
  BY NumberedIs
<1>6. \A m \in ToSet(InWindow(ms)) : m \in ToSet(ms)
  BY NumberedIs, WindowIs
<1>7. \A m \in ToSet(InWindow(ms)) : ~(m.id <= 0)
  BY <1>5, <1>6
<1>8. \A m \in ToSet(ms) : m.id # 0
  BY <1>5
<1>9. QED
  BY <1>1, <1>4, <1>7, <1>8 DEF Block, Covers

\* What a compaction of the window leaves is a block for what is kept, and a
\* boundary that moved had more behind it than fits.
LEMMA BlockCompacted ==
  ASSUME NEW ms \in Seq(Messages), NEW n \in Nat, Numbered(ms, n), NEW s, Block(s, ms, n)
  PROVE  LET c == Compact(InWindow(ms), s) IN
         /\ Block(c, ms, n) /\ c.moved \in BOOLEAN
         /\ c.rest \in Seq(Messages) /\ Ascending(c.rest)
         /\ ToSet(c.rest) = Beyond(ToSet(InWindow(ms)), c.through)
         /\ Len(c.lines) + Total(c.rest) <= Budget
         /\ ~c.moved => c.lines = s.lines /\ c.through = s.through
         /\ c.moved => /\ SizeOf(Newer(ms, c.through)) <= Target
                       /\ SizeOf(Newer(ms, s.through)) > Budget - BlockShare
<1> DEFINE w == InWindow(ms)
           c == Compact(w, s)
<1>1. /\ w \in Seq(Messages) /\ Ascending(w) /\ \A m \in ToSet(w) : m \in ToSet(ms) /\ Readable(m)
      /\ \A m \in ToSet(ms) : m.id \in Nat /\ m.id < n
      /\ Ascending(ms)
  BY NumberedIs, WindowIs
<1>2. /\ LinesUpTo(s.lines, s.through) /\ s.through < n /\ s.through \in Nat
      /\ \A m \in ToSet(ms) : m.id = s.through => Readable(m)
      /\ Covers(s.lines, s.through, ToSet(w))
  BY DEF Block, LinesUpTo
<1>3. Placed(s.through, ToSet(w))
  BY PlacedIs
<1>4. Compacts(c, ToSet(w), s)
  BY <1>1, <1>2, <1>3, CompactIs
<1>5. /\ SizeOf(Beyond(ToSet(w), s.through)) <= SizeOf(Newer(ms, s.through))
      /\ \A b \in Nat : (\E m \in ToSet(w) : m.id = b) => Newer(ms, b) = Beyond(ToSet(w), b)
  BY <1>2, BeyondNewer
<1>6. SizeOf(Newer(ms, s.through)) \in Nat /\ SizeOf(Beyond(ToSet(w), s.through)) \in Nat
  <2>1. Beyond(ToSet(w), s.through) \subseteq ToSet(w) /\ IsFiniteSet(ToSet(w)) /\ ToSet(w) \subseteq Messages
    BY <1>1, ToSetFinite DEF Beyond
  <2>2. Beyond(ToSet(w), s.through) \in SUBSET Messages /\ IsFiniteSet(Beyond(ToSet(w), s.through))
    BY <2>1, FS_Subset
  <2>3. QED
    BY <1>2, <2>2, NewerMore, SizeNat
<1> HIDE DEF w, c
<1>7. \A x, y \in ToSet(ms) : x.id = y.id => x = y
  <2>1. PICK k \in Nat : k = Len(ms) /\ DOMAIN ms = 1 .. k
    BY LenProperties
  <2>2. ASSUME NEW x \in ToSet(ms), NEW y \in ToSet(ms), x.id = y.id PROVE x = y
    <3>1. PICK i \in 1 .. k, j \in 1 .. k : x = ms[i] /\ y = ms[j]
      BY <2>1 DEF ToSet
    <3>2. (i < j => ms[i].id < ms[j].id) /\ (j < i => ms[j].id < ms[i].id)
      BY <1>1, <2>1 DEF Ascending
    <3>3. x.id \in Nat /\ y.id \in Nat
      BY <1>1
    <3>4. QED
      BY <2>2, <3>1, <3>2, <3>3
  <2>3. QED
    BY <2>2
<1>8. c.through \in Nat /\ c.through < n /\ \A m \in ToSet(ms) : m.id = c.through => Readable(m)
  <2>1. CASE c.moved
    <3>1. PICK m \in ToSet(w) : m.id = c.through
      BY <1>4, <2>1 DEF Compacts
    <3>2. m \in ToSet(ms) /\ Readable(m)
      BY <1>1
    <3>3. QED
      BY <1>1, <1>7, <3>1, <3>2
  <2>2. CASE ~c.moved
    BY <1>2, <1>4, <2>2 DEF Compacts
  <2>3. QED
    BY <2>1, <2>2
<1>9. Block(c, ms, n)
  BY <1>2, <1>4, <1>8 DEF Block, Compacts, w
<1>10. ASSUME c.moved
       PROVE  SizeOf(Newer(ms, c.through)) <= Target /\ SizeOf(Newer(ms, s.through)) > Budget - BlockShare
  <2>1. Newer(ms, c.through) = Beyond(ToSet(w), c.through)
    BY <1>4, <1>5, <1>8, <1>10 DEF Compacts
  <2>2. SizeOf(Newer(ms, c.through)) = Total(c.rest) /\ Total(c.rest) <= Target
    BY <1>4, <1>10, <2>1 DEF Compacts, Total
  <2>3. SizeOf(Beyond(ToSet(w), s.through)) > Budget - BlockShare
    BY <1>4, <1>10 DEF Compacts
  <2>4. Budget \in Nat /\ BlockShare \in Nat
    BY HistoryAssumption
  <2>5. QED
    BY <1>5, <1>6, <2>2, <2>3, <2>4
<1>11. QED
  BY <1>4, <1>9, <1>10 DEF Compacts, w, c

\* What is left behind the last start of a turn.
LEMMA TrimmedIs ==
  ASSUME NEW ms \in Seq(Messages), ms # <<>>, ~IsAnswer(Last(ms)), MaxStored > 1 => ~IsAnswer(ms[1]),
         NEW x \in Messages
  PROVE  LET t == Trimmed(Append(ms, x)) IN
         /\ \E i \in 0 .. Len(ms) + 1 : t = After(Append(ms, x), i)
         /\ t # <<>> /\ Len(t) <= MaxStored
         /\ MaxStored > 1 => ~IsAnswer(t[1])
<1> DEFINE s == Append(ms, x)
<1>1. PICK k \in Nat : k = Len(ms)
  BY LenProperties
<1>2. k # 0 /\ MaxStored \in Nat \ {0} /\ Last(ms) = ms[k]
  BY <1>1, EmptySeq, HistoryAssumption DEF Last
<1>3. s \in Seq(Messages) /\ Len(s) = k + 1 /\ s[k + 1] = x /\ \A i \in 1 .. k : s[i] = ms[i]
  BY <1>1, AppendProperties
<1>4. ~IsAnswer(s[k]) /\ (MaxStored > 1 => ~IsAnswer(s[1]))
  BY <1>2, <1>3
<1> HIDE DEF s
<1> DEFINE excess == Len(s) - MaxStored
           Starts(i) == i = Len(s) - 1 \/ ~IsAnswer(s[i + 1])
           First(i) == Starts(i) /\ \A j \in excess .. i - 1 : ~Starts(j)
           first == CHOOSE i \in excess .. Len(s) - 1 : First(i)
<1>5. Trimmed(s) = IF excess <= 0 THEN s ELSE After(s, first)
  BY DEF Trimmed
<1> HIDE DEF first
<1>6. CASE excess <= 0
  <2>1. Trimmed(s) = After(s, 0) /\ Trimmed(s) = s
    BY <1>3, <1>5, <1>6, AfterNone
  <2>2. s # <<>> /\ Len(s) <= MaxStored
    BY <1>2, <1>3, <1>6, EmptySeq
  <2>3. 0 \in 0 .. k + 1
    OBVIOUS
  <2>4. QED
    BY <1>1, <1>4, <2>1, <2>2, <2>3 DEF s
<1>7. CASE excess > 0
  <2>1. excess \in 1 .. k /\ Len(s) - 1 = k /\ excess = k + 1 - MaxStored
    BY <1>2, <1>3, <1>7
  <2>2. \E i \in excess .. Len(s) - 1 : First(i)
    <3> DEFINE K == {i \in excess .. Len(s) - 1 : Starts(i)}
    <3>1. k \in K /\ K \subseteq Nat
      BY <2>1
    <3>2. PICK i \in K : \A j \in K : i <= j
      BY <3>1, LeastNat
    <3>3. \A j \in excess .. i - 1 : j \notin K /\ j \in excess .. Len(s) - 1
      BY <2>1, <3>2
    <3>4. QED
      BY <3>2, <3>3
  <2>3. first \in excess .. Len(s) - 1 /\ First(first)
    BY <2>2 DEF first
  <2>4. PICK f \in Nat, v \in Nat : f = first /\ v = excess
    BY <2>1, <2>3
  <2>5. /\ v = k + 1 - MaxStored /\ v >= 1 /\ v <= f /\ f <= k
        /\ f = k \/ ~IsAnswer(s[f + 1])
        /\ \A j \in v .. f - 1 : ~(j = k \/ ~IsAnswer(s[j + 1]))
    BY <2>1, <2>3, <2>4
  <2>6. Trimmed(s) = After(s, f)
    BY <1>5, <1>7, <2>4
  <2> HIDE DEF excess, Starts
  <2>7. /\ f \in 0 .. k + 1 /\ Len(After(s, f)) = k + 1 - f
        /\ After(s, f)[1] = s[f + 1]
    <3>1. f \in 0 .. k + 1 /\ f \in 0 .. Len(s) /\ 1 \in 1 .. k + 1 - f
      BY <1>3, <2>5
    <3>2. /\ Len(After(s, f)) = Len(s) - f
          /\ \A i \in 1 .. Len(s) - f : After(s, f)[i] = s[f + i]
      BY <1>3, <3>1, AfterIs
    <3>3. QED
      BY <1>3, <3>1, <3>2
  <2>8. Len(After(s, f)) <= MaxStored /\ Len(After(s, f)) # 0
    BY <1>2, <2>5, <2>7
  <2>9. ASSUME MaxStored > 1 PROVE ~IsAnswer(s[f + 1])
    <3>1. k - 1 \in v .. k /\ (k - 1) + 1 = k /\ k - 1 # k
      BY <1>2, <2>5, <2>9
    <3>2. k - 1 \notin v .. f - 1
      BY <1>4, <2>5, <3>1
    <3>3. f # k
      BY <1>2, <3>1, <3>2
    <3>4. QED
      BY <2>5, <3>3
  <2>10. QED
    BY <1>1, <2>6, <2>7, <2>8, <2>9, EmptySeq DEF s
<1>8. QED
  BY <1>2, <1>6, <1>7
\* Init establishes the invariant.
LEMMA HistInitial == HistoryInit => HistIInv
<1>1. SUFFICES ASSUME HistoryInit PROVE HistIInv
  OBVIOUS
<1>2. /\ kept = <<>> /\ summary = Empty /\ turn = "none" /\ given = Nothing /\ next = 1 /\ grown = -1
      /\ <<>> \in Seq(Messages) /\ Len(<<>>) = 0
  BY <1>1 DEF HistoryInit
<1>3. Numbered(kept, next)
  BY <1>2 DEF Numbered
<1>4. Block(summary, kept, next)
  <2>1. kept \in Seq(Messages) /\ next \in Nat \ {0} /\ Numbered(kept, next)
    BY <1>2, <1>3
  <2>2. Block(Empty, kept, next)
    BY <2>1, BlockEmpty
  <2>3. QED
    BY <1>2, <2>2
<1>5. ContextFits
  <2>1. given.lines = <<>> /\ given.rest = <<>>
    BY <1>2 DEF Nothing
  <2>2. Total(given.rest) = 0 /\ Len(given.lines) = 0 /\ Budget \in Nat
    BY <1>2, <2>1, TotalIs, HistoryAssumption
  <2>3. QED
    BY <2>2 DEF ContextFits
<1>6. Opened /\ NothingIsLost /\ MovesInChunks /\ ~Answering
  BY <1>2 DEF Opened, NothingIsLost, MovesInChunks, Answering
<1>7. QED
  BY <1>2, <1>3, <1>4, <1>5, <1>6 DEF HistIInv

\* A message that begins a turn: the window is condensed if it does not fit.
LEMMA BeginKeeps ==
  ASSUME HistIInv, NEW what \in {"question", "resume", "continue"}, NEW size \in 1 .. Target, Begin(what, size)
  PROVE  HistIInv'
<1> DEFINE m == Message(what, size)
           ks == Append(kept, m)
           s == IF what = "resume" THEN Empty ELSE summary
           c == Compact(InWindow(ks), s)
<1>1. /\ kept \in Seq(Messages) /\ next \in Nat \ {0} /\ grown \in Nat \cup {-1} /\ turn = "none"
      /\ Numbered(kept, next) /\ Opened /\ Block(summary, kept, next)
      /\ grown >= 0 => SizeOf(Newer(kept, summary.through)) <= Target + grown
  BY DEF HistIInv, Begin
<1>2. /\ kept' = ks /\ next' = next + 1 /\ turn' = what /\ given' = c /\ summary' = summary
      /\ grown' = IF grown >= 0 /\ Readable(m) THEN grown + size ELSE grown
  BY DEF Begin
<1>3. m \in Messages /\ m.id = next /\ m.size = size /\ m.is = what
  BY <1>1 DEF Message, Messages
<1> HIDE DEF m
<1>4. ks \in Seq(Messages) /\ Numbered(ks, next + 1) /\ next + 1 \in Nat \ {0}
  BY <1>1, <1>3, NumberedMore
<1>5. Block(summary, ks, next + 1) /\ Block(s, ks, next + 1)
  <2>1. Block(summary, ks, next + 1)
    BY <1>1, <1>3, BlockMore
  <2>2. Block(Empty, ks, next + 1)
    BY <1>4, BlockEmpty
  <2>3. QED
    BY <2>1, <2>2
<1>6. size \in Nat /\ Target \in Nat /\ Budget \in Nat /\ BlockShare \in Nat
  BY HistoryAssumption
<1>7. summary.through \in Nat /\ summary.through < next
  BY <1>1 DEF Block, LinesUpTo
<1>8. /\ grown' \in Nat \cup {-1}
      /\ SizeOf(Newer(ks, summary.through)) \in Nat
      /\ grown' >= 0 => SizeOf(Newer(ks, summary.through)) <= Target + grown'
  <2>1. /\ SizeOf(Newer(kept, summary.through)) \in Nat
        /\ SizeOf(Newer(ks, summary.through)) =
             SizeOf(Newer(kept, summary.through)) + (IF Readable(m) THEN m.size ELSE 0)
    BY <1>1, <1>3, <1>7, NewerMore
  <2>2. PICK a \in Nat : a = SizeOf(Newer(kept, summary.through))
    BY <2>1
  <2>3. CASE Readable(m)
    <3>1. SizeOf(Newer(ks, summary.through)) = a + size /\ grown' = IF grown >= 0 THEN grown + size ELSE grown
      BY <1>2, <1>3, <2>1, <2>2, <2>3
    <3>2. QED
      BY <1>1, <1>6, <2>2, <3>1
  <2>4. CASE ~Readable(m)
    <3>1. SizeOf(Newer(ks, summary.through)) = a /\ grown' = grown
      BY <1>2, <2>1, <2>2, <2>4
    <3>2. QED
      BY <1>1, <1>6, <2>2, <3>1
  <2>5. QED
    BY <2>3, <2>4
<1>9. /\ Block(c, ks, next + 1) /\ c.moved \in BOOLEAN
      /\ c.rest \in Seq(Messages) /\ Ascending(c.rest)
      /\ ToSet(c.rest) = Beyond(ToSet(InWindow(ks)), c.through)
      /\ Len(c.lines) + Total(c.rest) <= Budget
      /\ ~c.moved => c.lines = s.lines /\ c.through = s.through
      /\ c.moved => /\ SizeOf(Newer(ks, c.through)) <= Target
                    /\ SizeOf(Newer(ks, s.through)) > Budget - BlockShare
  BY <1>4, <1>5, BlockCompacted
<1>10. Tells(c, ks)
  BY <1>4, <1>9, TellsAll
<1> HIDE DEF c, s
<1>11. Opened'
  <2>1. ks # <<>> /\ Last(ks) = m /\ ~IsAnswer(m) /\ ks[1] = IF kept = <<>> THEN m ELSE kept[1]
    <3>1. PICK k \in Nat : k = Len(kept)
      BY <1>1, LenProperties
    <3>2. Len(ks) = k + 1 /\ ks[k + 1] = m /\ \A i \in 1 .. k : ks[i] = kept[i]
      BY <1>1, <1>3, <3>1, AppendProperties
    <3>3. ks # <<>> /\ Last(ks) = m
      BY <1>4, <3>2, EmptySeq DEF Last
    <3>4. kept = <<>> <=> k = 0
      BY <1>1, <3>1, EmptySeq
    <3>5. ~IsAnswer(m)
      BY <1>3 DEF IsAnswer
    <3>6. k # 0 => 1 \in 1 .. k
      OBVIOUS
    <3>7. QED
      BY <3>2, <3>3, <3>4, <3>5, <3>6
  <2>2. QED
    BY <1>1, <1>2, <2>1 DEF Opened
<1>12. Answering' => s = summary
  BY <1>2 DEF Answering, s
<1>13. Answering' => Given'
  BY <1>2, <1>9, <1>12 DEF Given
<1>14. NothingIsLost'
  BY <1>2, <1>10 DEF NothingIsLost, Tells, Context
<1>15. ContextFits'
  BY <1>2, <1>9 DEF ContextFits
<1>16. MovesInChunks'
  <2>1. SUFFICES ASSUME turn' \in {"question", "continue"}, given'.moved, grown' >= 0
                 PROVE  grown' > Budget - BlockShare - Target
    BY DEF MovesInChunks
  <2>2. SizeOf(Newer(ks, summary.through)) > Budget - BlockShare
    BY <1>2, <1>9, <1>12, <2>1 DEF Answering
  <2>3. QED
    BY <1>6, <1>8, <2>1, <2>2
<1>17. QED
  <2>1. kept' \in Seq(Messages) /\ next' \in Nat \ {0} /\ Numbered(kept', next') /\ Block(summary', kept', next')
    BY <1>2, <1>4, <1>5
  <2>2. turn' \in {"none", "question", "resume", "continue"}
    BY <1>2
  <2>3. grown' >= 0 => SizeOf(Newer(kept', summary'.through)) <= Target + grown'
    BY <1>2, <1>8
  <2>4. QED
    BY <1>8, <1>11, <1>13, <1>14, <1>15, <1>16, <2>1, <2>2, <2>3 DEF HistIInv

\* No turn runs: there is no context.
LEMMA NoContext ==
  ASSUME turn' = "none", given' = Nothing PROVE (NothingIsLost /\ ContextFits /\ MovesInChunks /\ ~Answering)'
<1>1. given'.lines = <<>> /\ given'.rest = <<>> /\ <<>> \in Seq(Messages) /\ Len(<<>>) = 0
  BY DEF Nothing
<1>2. Total(<<>>) = 0 /\ Budget \in Nat
  BY <1>1, TotalIs, HistoryAssumption
<1>3. ContextFits'
  BY <1>1, <1>2 DEF ContextFits
<1>4. QED
  BY <1>3 DEF NothingIsLost, MovesInChunks, Answering

\* The turn's last message: the oldest go, and the boundary it condensed up to is stored.
LEMMA EndKeeps ==
  ASSUME HistIInv, NEW what \in {"answer", "broken"}, NEW size \in 1 .. Target, End(what, size)
  PROVE  HistIInv'
<1> DEFINE m == Message(what, size)
           ks == Append(kept, m)
           t == Trimmed(ks)
           stores == turn # "resume" /\ given.lines # <<>>
           before == IF stores /\ given.moved THEN 0 ELSE grown
<1>1. /\ kept \in Seq(Messages) /\ next \in Nat \ {0} /\ grown \in Nat \cup {-1}
      /\ turn \in {"question", "resume", "continue"}
      /\ Numbered(kept, next) /\ Opened /\ Block(summary, kept, next)
      /\ grown >= 0 => SizeOf(Newer(kept, summary.through)) <= Target + grown
      /\ Answering => Given
  BY DEF HistIInv, End
<1>2. /\ kept' = t /\ next' = next + 1 /\ turn' = "none" /\ given' = Nothing
      /\ summary' = IF stores THEN [lines |-> given.lines, through |-> given.through] ELSE summary
      /\ grown' = IF before >= 0 /\ Readable(m) THEN before + size ELSE before
  BY DEF End
<1>3. m \in Messages /\ m.id = next /\ m.size = size
  BY <1>1 DEF Message, Messages
<1>4. size \in Nat /\ Target \in Nat
  BY HistoryAssumption
<1>5. stores => Given
  BY <1>1 DEF Answering
<1>6. before \in Nat \cup {-1}
  BY <1>1
<1>7. /\ Block(summary', kept, next)
      /\ before >= 0 => SizeOf(Newer(kept, summary'.through)) <= Target + before
  <2>1. CASE stores
    <3>1. summary'.lines = given.lines /\ summary'.through = given.through
      BY <1>2, <2>1
    <3>2. Block(summary', kept, next)
      BY <1>5, <2>1, <3>1 DEF Given, Block
    <3>3. PICK z : z = SizeOf(Newer(kept, summary'.through))
      OBVIOUS
    <3>4. CASE given.moved
      <4>1. z <= Target /\ before = 0
        BY <1>5, <2>1, <3>1, <3>3, <3>4 DEF Given
      <4>2. QED
        BY <1>4, <3>2, <3>3, <4>1
    <3>5. CASE ~given.moved
      <4>1. z = SizeOf(Newer(kept, summary.through)) /\ before = grown
        BY <1>5, <2>1, <3>1, <3>3, <3>5 DEF Given
      <4>2. QED
        BY <1>1, <3>2, <3>3, <4>1
    <3>6. QED
      BY <3>4, <3>5
  <2>2. CASE ~stores
    BY <1>1, <1>2, <2>2
  <2>3. QED
    BY <2>1, <2>2
<1> HIDE DEF m, before, stores
<1>8. summary'.through \in Nat /\ summary'.through < next /\ summary'.through < next + 1
  BY <1>1, <1>7 DEF Block, LinesUpTo
<1>9. ks \in Seq(Messages) /\ Numbered(ks, next + 1) /\ next + 1 \in Nat \ {0} /\ Len(ks) = Len(kept) + 1
  BY <1>1, <1>3, NumberedMore, AppendProperties
<1>10. /\ \E i \in 0 .. Len(kept) + 1 : t = After(ks, i)
       /\ t # <<>> /\ Len(t) <= MaxStored
       /\ MaxStored > 1 => ~IsAnswer(t[1])
  <2>1. kept # <<>> /\ ~IsAnswer(Last(kept)) /\ (MaxStored > 1 => ~IsAnswer(kept[1]))
    BY <1>1 DEF Opened
  <2>2. QED
    BY <1>1, <1>3, <2>1, TrimmedIs
<1>11. PICK i \in 0 .. Len(ks) : t = After(ks, i)
  BY <1>9, <1>10
<1>12. t \in Seq(Messages) /\ Numbered(t, next + 1) /\ Block(summary', t, next + 1)
  <2>1. Block(summary', ks, next + 1)
    BY <1>1, <1>3, <1>7, BlockMore
  <2>2. QED
    BY <1>9, <1>11, <2>1, NumberedMore, BlockMore
<1>13. /\ grown' \in Nat \cup {-1}
       /\ grown' >= 0 => SizeOf(Newer(t, summary'.through)) <= Target + grown'
  <2> DEFINE b == summary'.through
  <2>1. /\ SizeOf(Newer(kept, b)) \in Nat
        /\ SizeOf(Newer(ks, b)) = SizeOf(Newer(kept, b)) + (IF Readable(m) THEN m.size ELSE 0)
    BY <1>1, <1>3, <1>8, NewerMore
  <2>2. SizeOf(Newer(t, b)) \in Nat /\ SizeOf(Newer(t, b)) <= SizeOf(Newer(ks, b))
    BY <1>8, <1>9, <1>11, <1>12, NewerMore
  <2>3. PICK a \in Nat, d \in Nat : a = SizeOf(Newer(kept, b)) /\ d = SizeOf(Newer(t, b))
    BY <2>1, <2>2
  <2>4. PICK e \in Nat \cup {-1} : e = before
    BY <1>6
  <2>5. e >= 0 => a <= Target + e
    BY <1>7, <2>3, <2>4
  <2>6. CASE Readable(m)
    <3>1. d <= a + size /\ grown' = IF e >= 0 THEN e + size ELSE e
      BY <1>2, <1>3, <2>1, <2>2, <2>3, <2>4, <2>6
    <3>2. QED
      BY <1>4, <2>3, <2>5, <3>1
  <2>7. CASE ~Readable(m)
    <3>1. d <= a /\ grown' = e
      BY <1>2, <2>1, <2>2, <2>3, <2>4, <2>7
    <3>2. QED
      BY <1>4, <2>3, <2>5, <3>1
  <2>8. QED
    BY <2>6, <2>7
<1>14. Opened'
  BY <1>2, <1>10 DEF Opened
<1>15. (NothingIsLost /\ ContextFits /\ MovesInChunks /\ ~Answering)'
  BY <1>2, NoContext
<1>16. QED
  <2>1. kept' \in Seq(Messages) /\ next' \in Nat \ {0} /\ Numbered(kept', next') /\ Block(summary', kept', next')
    BY <1>2, <1>9, <1>12
  <2>2. grown' >= 0 => SizeOf(Newer(kept', summary'.through)) <= Target + grown'
    BY <1>2, <1>13
  <2>3. QED
    BY <1>2, <1>13, <1>14, <1>15, <2>1, <2>2 DEF HistIInv

\* A turn that fails leaves what is kept as it was.
LEMMA FailKeeps == ASSUME HistIInv, Fail PROVE HistIInv'
<1>1. turn' = "none" /\ given' = Nothing /\ UNCHANGED <<kept, summary, next, grown>>
  BY DEF Fail
<1>2. (NothingIsLost /\ ContextFits /\ MovesInChunks /\ ~Answering)'
  BY <1>1, NoContext
<1>3. Opened'
  BY <1>1 DEF HistIInv, Opened
<1>4. QED
  BY <1>1, <1>2, <1>3 DEF HistIInv, Numbered, Block

(* What every step keeps: the ids of what is kept have no gap, the stored  *)
(* boundary is a message that is read and its block stands for all the     *)
(* window holds up to it, what was said since it moved is no more than the *)
(* target and what was counted, and the context of a running turn is such  *)
(* a block too and all of the window beyond it.                            *)
THEOREM HistoryInductive == HistorySpec => []HistIInv
<1>1. ASSUME HistIInv, [HistoryNext]_historyVars PROVE HistIInv'
  <2>1. CASE HistoryNext
    <3>1. \A size \in Sizes \cup {1} : size \in 1 .. Target
      BY HistoryAssumption
    <3>2. CASE \E size \in Sizes : Begin("question", size)
      BY <1>1, <3>1, <3>2, BeginKeeps
    <3>3. CASE \E size \in Sizes : End("answer", size)
      BY <1>1, <3>1, <3>3, EndKeeps
    <3>4. CASE \E what \in {"resume", "continue"} : Begin(what, 1)
      BY <1>1, <3>1, <3>4, BeginKeeps
    <3>5. CASE End("broken", 1)
      BY <1>1, <3>1, <3>5, EndKeeps
    <3>6. CASE Fail
      BY <1>1, <3>6, FailKeeps
    <3>7. QED
      BY <2>1, <3>2, <3>3, <3>4, <3>5, <3>6 DEF HistoryNext
  <2>2. CASE UNCHANGED historyVars
    BY <1>1, <2>2 DEF historyVars, HistIInv, Opened, Block, Given, Answering, Numbered,
       NothingIsLost, ContextFits, MovesInChunks, Context
  <2>3. QED
    BY <1>1, <2>1, <2>2
<1>2. QED
  BY <1>1, HistInitial, PTL DEF HistorySpec

(* What a turn's model is given loses nothing the window holds but what a  *)
(* full block shed for newer ones, fits the budget, and moves its boundary *)
(* only after as much was said as lies between target and budget; what is  *)
(* kept starts with a turn; and its owner reads every message once and in  *)
(* order (_compact_history, _llm_context_with_summary, _trim_messages and  *)
(* _collapse_ephemeral_continuations of chat_graph.py).                    *)
THEOREM HistoryCorrect == HistorySpec => []HistoryInv
<1>1. HistIInv => HistoryInv
  <2>1. SUFFICES ASSUME HistIInv PROVE HistoryInv
    OBVIOUS
  <2>2. kept \in Seq(Messages) /\ next \in Nat /\ Numbered(kept, next)
    BY <2>1 DEF HistIInv
  <2>3. TranscriptIsWhole
    BY <2>2, NumberedIs, TranscriptIs
  <2>4. KeptStartsWithTurn
    BY <2>1 DEF HistIInv, Opened, KeptStartsWithTurn
  <2>5. QED
    BY <2>1, <2>3, <2>4 DEF HistIInv, HistoryInv
<1>2. QED
  BY <1>1, HistoryInductive, PTL

-----------------------------------------------------------------------------
(* AgentLoop.                                                              *)
-----------------------------------------------------------------------------
(* AgentLoop.                                                              *)
\* Induction over sequences.
LEMMA SeqInd ==
  ASSUME NEW S, NEW I \in SUBSET Seq(S), <<>> \in I, \A s \in I : \A x \in S : Append(s, x) \in I
  PROVE  Seq(S) \subseteq I
<1> DEFINE N == {n \in Nat : \A s \in Seq(S) : Len(s) = n => s \in I}
<1>1. 0 \in N
  BY EmptySeq
<1>2. ASSUME NEW n \in N PROVE n + 1 \in N
  <2>1. ASSUME NEW s \in Seq(S), Len(s) = n + 1 PROVE s \in I
    <3>1. s # <<>>
      BY <1>2, <2>1, EmptySeq
    <3>2. PICK f \in Seq(S), x \in S : s = Append(f, x)
      BY <3>1, SequenceEmptyOrAppend
    <3>3. Len(s) = Len(f) + 1 /\ Len(f) \in Nat
      BY <3>2, AppendProperties, LenProperties
    <3>4. f \in I
      BY <1>2, <2>1, <3>3
    <3>5. QED
      BY <3>2, <3>4
  <2>2. QED
    BY <1>2, <2>1
<1>3. N \in SUBSET Nat
  OBVIOUS
<1> HIDE DEF N
<1>4. Nat \subseteq N
  BY <1>1, <1>2, <1>3, NatInd
<1>5. QED
  BY <1>4, LenProperties DEF N

\* Elements of what is joined, and of what is left of a sequence.
LEMMA ConcatSet ==
  ASSUME NEW S, NEW a \in Seq(S), NEW b \in Seq(S)
  PROVE  /\ a \o b \in Seq(S) /\ ToSet(a \o b) = ToSet(a) \cup ToSet(b)
<1>1. PICK m \in Nat, n \in Nat : m = Len(a) /\ n = Len(b) /\ DOMAIN a = 1 .. m /\ DOMAIN b = 1 .. n
  BY LenProperties
<1> DEFINE c == a \o b
<1>2. c \in Seq(S) /\ Len(c) = m + n /\ \A i \in 1 .. m + n : c[i] = IF i <= m THEN a[i] ELSE b[i - m]
  BY <1>1, ConcatProperties
<1> HIDE DEF c
<1>3. DOMAIN c = 1 .. m + n
  BY <1>2, LenProperties
<1>4. ASSUME NEW i \in 1 .. m + n PROVE (\E j \in 1 .. m : c[i] = a[j]) \/ (\E j \in 1 .. n : c[i] = b[j])
  <2>1. i \in 1 .. m \/ (i - m \in 1 .. n /\ ~(i <= m))
    OBVIOUS
  <2>2. QED
    BY <1>2, <2>1
<1>5. \A j \in 1 .. m : \E i \in 1 .. m + n : c[i] = a[j]
  BY <1>2
<1>6. ASSUME NEW j \in 1 .. n PROVE \E i \in 1 .. m + n : c[i] = b[j]
  <2>1. m + j \in 1 .. m + n /\ ~(m + j <= m) /\ (m + j) - m = j
    OBVIOUS
  <2>2. c[m + j] = b[j]
    BY <1>2, <2>1
  <2>3. QED
    BY <2>1, <2>2
<1>7. \A x : x \in ToSet(c) <=> x \in ToSet(a) \/ x \in ToSet(b)
  <2>1. \A x : /\ x \in ToSet(c) <=> \E i \in 1 .. m + n : x = c[i]
               /\ x \in ToSet(a) <=> \E i \in 1 .. m : x = a[i]
               /\ x \in ToSet(b) <=> \E i \in 1 .. n : x = b[i]
    BY <1>1, <1>3 DEF ToSet
  <2>2. \A x \in ToSet(c) : x \in ToSet(a) \/ x \in ToSet(b)
    BY <1>4, <2>1, Zenon
  <2>3. \A x \in ToSet(a) : x \in ToSet(c)
    BY <1>5, <2>1, Zenon
  <2>4. \A x \in ToSet(b) : x \in ToSet(c)
    BY <1>6, <2>1, Zenon
  <2>5. QED
    BY <2>2, <2>3, <2>4, Zenon
<1>8. QED
  BY <1>2, <1>7 DEF c

\* A sequence of sequences is joined part by part.
LEMMA FlatConcat ==
  ASSUME NEW S, NEW s \in Seq(Seq(S))
  PROVE  \A t \in Seq(Seq(S)) : FlattenSeq(t) \in Seq(S) /\ FlattenSeq(s \o t) = FlattenSeq(s) \o FlattenSeq(t)
<1> DEFINE I == {t \in Seq(Seq(S)) :
                   FlattenSeq(t) \in Seq(S) /\ FlattenSeq(s \o t) = FlattenSeq(s) \o FlattenSeq(t)}
<1>1. PICK T : T = Seq(S)
  OBVIOUS
<1>2. s \in Seq(T)
  BY <1>1
<1>3. \A t \in Seq(T), x \in T :
        FlattenSeq(t) \in Seq(S) /\ FlattenSeq(Append(t, x)) = FlattenSeq(t) \o x
  BY <1>1, FlatAppend
<1>4. FlattenSeq(<<>>) = <<>> /\ <<>> \in Seq(T) /\ <<>> \in Seq(S)
  BY EmptySeq DEF FlattenSeq
<1>5. FlattenSeq(s) \in Seq(S)
  <2>1. FlattenSeq(s) \in Seq(S) \/ s = <<>>
    BY <1>1, FlatAppend, SequenceEmptyOrAppend, EmptySeq
  <2>2. QED
    BY <1>4, <2>1
<1>6. <<>> \in I
  <2>1. s \o <<>> = s /\ FlattenSeq(s) \o <<>> = FlattenSeq(s)
    BY <1>2, <1>5, ConcatEmptySeq
  <2>2. QED
    BY <1>1, <1>4, <2>1
<1>7. ASSUME NEW t \in I, NEW x \in T PROVE Append(t, x) \in I
  <2>1. t \in Seq(T) /\ FlattenSeq(t) \in Seq(S) /\ FlattenSeq(s \o t) = FlattenSeq(s) \o FlattenSeq(t)
    BY <1>1
  <2>2. s \o t \in Seq(T) /\ Append(t, x) \in Seq(T) /\ Append(t, x) = t \o <<x>> /\ <<x>> \in Seq(T)
    BY <1>2, <2>1, ConcatProperties, AppendProperties, AppendIsConcat
  <2>3. s \o Append(t, x) = Append(s \o t, x)
    <3>1. (s \o t) \o <<x>> = s \o (t \o <<x>>)
      <4> DEFINE z == <<x>>
      <4>1. s \in Seq(T) /\ t \in Seq(T) /\ z \in Seq(T)
        BY <1>2, <2>1, <2>2
      <4> HIDE DEF z, I
      <4>2. (s \o t) \o z = s \o (t \o z)
        BY <4>1, ConcatAssociative
      <4>3. QED
        BY <4>2 DEF z
    <3>2. Append(s \o t, x) = (s \o t) \o <<x>>
      BY <2>2, AppendIsConcat
    <3>3. QED
      BY <2>2, <3>1, <3>2
  <2>4. FlattenSeq(s \o Append(t, x)) = (FlattenSeq(s) \o FlattenSeq(t)) \o x
    BY <1>3, <2>1, <2>2, <2>3
  <2>5. FlattenSeq(Append(t, x)) = FlattenSeq(t) \o x /\ FlattenSeq(Append(t, x)) \in Seq(S) /\ x \in Seq(S)
    BY <1>1, <1>3, <2>1, <2>2
  <2>6. (FlattenSeq(s) \o FlattenSeq(t)) \o x = FlattenSeq(s) \o (FlattenSeq(t) \o x)
    BY <1>5, <2>1, <2>5, ConcatAssociative
  <2>7. QED
    BY <1>1, <2>2, <2>4, <2>5, <2>6
<1>8. I \in SUBSET Seq(T)
  BY <1>1
<1> HIDE DEF I
<1>9. Seq(T) \subseteq I
  BY <1>4, <1>6, <1>7, <1>8, SeqInd
<1>10. QED
  BY <1>1, <1>9 DEF I

\* Its elements are those of its parts.
LEMMA FlatSet ==
  ASSUME NEW S
  PROVE  \A s \in Seq(Seq(S)) : \A x : x \in ToSet(FlattenSeq(s)) <=> \E p \in ToSet(s) : x \in ToSet(p)
<1> DEFINE I == {s \in Seq(Seq(S)) : \A x : x \in ToSet(FlattenSeq(s)) <=> \E p \in ToSet(s) : x \in ToSet(p)}
<1>1. PICK T : T = Seq(S)
  OBVIOUS
<1>2. \A t \in Seq(T), y \in T :
        FlattenSeq(t) \in Seq(S) /\ FlattenSeq(Append(t, y)) = FlattenSeq(t) \o y
  BY <1>1, FlatAppend
<1>3. <<>> \in I
  <2>1. FlattenSeq(<<>>) = <<>> /\ ToSet(<<>>) = {} /\ <<>> \in Seq(T)
    BY EmptySeq DEF FlattenSeq, ToSet
  <2>2. QED
    BY <1>1, <2>1
<1>4. ASSUME NEW t \in I, NEW y \in T PROVE Append(t, y) \in I
  <2>1. t \in Seq(T) /\ \A x : x \in ToSet(FlattenSeq(t)) <=> \E p \in ToSet(t) : x \in ToSet(p)
    BY <1>1
  <2>2. Append(t, y) \in Seq(T) /\ ToSet(Append(t, y)) = ToSet(t) \cup {y}
    BY <2>1, AppendProperties, AppendSet
  <2>3. FlattenSeq(Append(t, y)) = FlattenSeq(t) \o y /\ FlattenSeq(t) \in Seq(S) /\ y \in Seq(S)
    BY <1>1, <1>2, <2>1
  <2>4. ToSet(FlattenSeq(Append(t, y))) = ToSet(FlattenSeq(t)) \cup ToSet(y)
    BY <2>3, ConcatSet
  <2>5. QED
    BY <1>1, <2>1, <2>2, <2>4
<1>5. I \in SUBSET Seq(T)
  BY <1>1
<1> HIDE DEF I
<1>6. Seq(T) \subseteq I
  BY <1>3, <1>4, <1>5, SeqInd
<1>7. QED
  BY <1>1, <1>6 DEF I

\* One part is itself.
LEMMA FlatOne == ASSUME NEW S, NEW x \in Seq(S) PROVE FlattenSeq(<<x>>) = x
<1>1. PICK T : T = Seq(S)
  OBVIOUS
<1>2. <<>> \in Seq(T) /\ x \in T /\ FlattenSeq(<<>>) = <<>>
  BY <1>1, EmptySeq DEF FlattenSeq
<1>3. Append(<<>>, x) = <<x>>
  BY <1>2
<1>4. FlattenSeq(Append(<<>>, x)) = FlattenSeq(<<>>) \o x
  BY <1>1, <1>2, FlatAppend
<1>5. <<>> \o x = x
  BY ConcatEmptySeq
<1>6. QED
  BY <1>2, <1>3, <1>4, <1>5
(* The calls a reply makes, the lines of a condensed message, the messages. *)
Calls == [n : Nat \ {0}, i : Nat \ {0}, key : Callable]
Lines == Calls \cup {Note}
LoopMessages ==
  {m \in [role : {"human", "ai", "tool"}, calls : Seq(Lines),
          is : {"question", "memory", "old", "continue", "digest", "said", "result"}] :
     /\ m.role # "human" => m.calls \in Seq(Calls)
     /\ m.is = "digest" => m.role = "human"}
(* The lines a condensed message of all of them would have.                *)
Flat(ms) == FlattenSeq([i \in DOMAIN ms |-> LinesOf(ms[i])])
Before(c, d) == c.n < d.n \/ (c.n = d.n /\ c.i < d.i)
(* Lines of calls that ran, in their order, and with one all the later ones. *)
Recalls(f, ran) ==
  /\ f \in Seq(Lines)
  /\ \A a, b \in DOMAIN f : a < b /\ f[a] # Note /\ f[b] # Note => Before(f[a], f[b])
  /\ \A c \in ToSet(f) : c = Note \/ c \in ToSet(ran)
  /\ \A c \in ToSet(f), d \in ToSet(ran) : c # Note /\ Before(c, d) => d \in ToSet(f)
(* A context that may be sent.                                             *)
Sendable(ms, ran) ==
  /\ ms \in Seq(LoopMessages) /\ Paired(ms) /\ Recalls(Flat(ms), ran)
  /\ LineRoom(ms) => ToSet(ran) \subseteq ToSet(Flat(ms))
(* The calls that ran: in their order, each in one reply only, none later.  *)
OldestFirst(ran) == \A i, j \in DOMAIN ran : i < j => Before(ran[i], ran[j])
RanOnce(ran) == \A i, j \in DOMAIN ran : ran[i].key = ran[j].key => ran[i].n = ran[j].n
NotBeyond(ran, n) == \A i \in DOMAIN ran : ran[i].n <= n
(* The newest exchange is the last one.                                    *)
EndsWith(ms, ran) ==
  ran # <<>> => \E i \in DOMAIN ms :
    /\ ms[i].role = "ai" /\ ms[i].calls # <<>> /\ Last(ms[i].calls) = Last(ran)
    /\ \A j \in DOMAIN ms : j > i => ms[j].role # "ai"
FirstAsked(ms) == older = 0 => ms # <<>> /\ ms[1] = Human("question")
(* Text is sent piece by piece.                                            *)
Words == {"prose", "markup fallback", "repeat fallback", "empty fallback", "work fallback", "blocked", "cut notice"}
Pieces == Words \X Nat
(* The calls that ran, and what is sent of them.                           *)
RecordedSoFar ==
  /\ told \in Seq(Calls) /\ OldestFirst(told) /\ NotBeyond(told, asks) /\ RanOnce(told)
  /\ Sendable(ctx, told) /\ EndsWith(ctx, told) /\ FirstAsked(ctx)
(* Every call of the model ran an action or took a retry.                  *)
AskedSoFar ==
  /\ actions \in Nat /\ asks \in Nat /\ loops \in Nat
  /\ used \subseteq {"markup", "stall", "empty", "repeat"}
  /\ actions <= MaxActions /\ loops <= MaxContinuations
  /\ point = "ask" => actions < MaxActions /\ asks <= actions + Cardinality(used)
  /\ point = "synthesis" => asks <= MaxActions + 4
  /\ point \in {"extend", "done", "failed"} => asks <= MaxActions + 6 + loops
(* What streamed was sent last, and nothing else of it after an action.    *)
ShownSoFar ==
  /\ {streamed, answer, wire} \subseteq Seq(Pieces) /\ since \in Nat
  /\ point \in {"ask", "synthesis", "extend"} =>
        \E w \in Seq(Pieces) : wire = w \o streamed /\ (acted => Len(w) <= since)
  /\ point \in {"ask", "synthesis"} /\ acted => Len(wire) = since
  /\ point = "extend" => answer # <<>> /\ answer = streamed
AgentIInv ==
  /\ point \in {"ask", "synthesis", "extend", "done", "failed"} /\ acted \in BOOLEAN
  /\ RecordedSoFar /\ AskedSoFar /\ ShownSoFar /\ StoredIsShown

\* The lines of one message.
LEMMA LinesAre ==
  ASSUME NEW m \in LoopMessages
  PROVE  /\ LinesOf(m) \in Seq(Lines)
         /\ LinesOf(m) = IF m.is = "digest" THEN m.calls
                         ELSE IF m.role # "ai" THEN <<>> ELSE IF m.calls = <<>> THEN <<Note>> ELSE m.calls
<1>1. m.calls \in Seq(Lines) /\ Note \in Lines
  BY DEF LoopMessages, Lines
<1>2. <<Note>> \in Seq(Lines) /\ <<>> \in Seq(Lines)
  BY <1>1
<1>3. QED
  BY <1>1, <1>2 DEF LinesOf

LinesSeq(ms) == [i \in DOMAIN ms |-> LinesOf(ms[i])]

\* A list of lines for each of them.
LEMMA LinesSeqIs ==
  ASSUME NEW ms \in Seq(LoopMessages)
  PROVE  /\ LinesSeq(ms) \in Seq(Seq(Lines)) /\ Len(LinesSeq(ms)) = Len(ms)
         /\ \A i \in 1 .. Len(ms) : LinesSeq(ms)[i] = LinesOf(ms[i])
<1>1. PICK n \in Nat : n = Len(ms) /\ DOMAIN ms = 1 .. n
  BY LenProperties
<1>2. PICK T : T = Seq(Lines)
  OBVIOUS
<1>3. \A i \in 1 .. n : LinesOf(ms[i]) \in T
  BY <1>1, <1>2, ElementOfSeq, LinesAre
<1> DEFINE f == LinesSeq(ms)
<1>4. f = [i \in 1 .. n |-> LinesOf(ms[i])]
  BY <1>1 DEF LinesSeq
<1> HIDE DEF f
<1>5. f \in [1 .. n -> T]
  BY <1>3, <1>4
<1>6. f \in Seq(T) /\ Len(f) = n
  BY <1>5
<1>7. QED
  BY <1>1, <1>2, <1>4, <1>6 DEF f

\* The lines of messages put together.
LEMMA FlatIs ==
  ASSUME NEW a \in Seq(LoopMessages), NEW b \in Seq(LoopMessages)
  PROVE  /\ Flat(a) \in Seq(Lines) /\ Flat(b) \in Seq(Lines) /\ Flat(a \o b) = Flat(a) \o Flat(b)
         /\ a \o b \in Seq(LoopMessages)
<1>1. PICK T : T = Seq(Lines)
  OBVIOUS
<1> DEFINE p == LinesSeq(a)  q == LinesSeq(b)  r == LinesSeq(a \o b)
<1>2. PICK m \in Nat, n \in Nat : m = Len(a) /\ n = Len(b)
  BY LenProperties
<1>3. /\ a \o b \in Seq(LoopMessages) /\ Len(a \o b) = m + n
      /\ \A i \in 1 .. m + n : (a \o b)[i] = IF i <= m THEN a[i] ELSE b[i - m]
  BY <1>2, ConcatProperties
<1>4. /\ p \in Seq(T) /\ Len(p) = m /\ \A i \in 1 .. m : p[i] = LinesOf(a[i])
      /\ q \in Seq(T) /\ Len(q) = n /\ \A i \in 1 .. n : q[i] = LinesOf(b[i])
      /\ r \in Seq(T) /\ Len(r) = m + n /\ \A i \in 1 .. m + n : r[i] = LinesOf((a \o b)[i])
  BY <1>1, <1>2, <1>3, LinesSeqIs
<1>5. Flat(a) = FlattenSeq(p) /\ Flat(b) = FlattenSeq(q) /\ Flat(a \o b) = FlattenSeq(r)
  BY DEF Flat, LinesSeq
<1> HIDE DEF p, q, r
<1>6. p \o q \in Seq(T) /\ Len(p \o q) = m + n
      /\ \A i \in 1 .. m + n : (p \o q)[i] = IF i <= m THEN p[i] ELSE q[i - m]
  BY <1>4, ConcatProperties
<1>7. ASSUME NEW i \in 1 .. m + n PROVE r[i] = (p \o q)[i]
  <2>1. CASE i <= m
    <3>1. i \in 1 .. m
      BY <2>1
    <3>2. QED
      BY <1>3, <1>4, <1>6, <2>1, <3>1
  <2>2. CASE ~(i <= m)
    <3>1. i - m \in 1 .. n
      BY <2>2
    <3>2. QED
      BY <1>3, <1>4, <1>6, <2>2, <3>1
  <2>3. QED
    BY <2>1, <2>2
<1>8. r = p \o q
  BY <1>4, <1>6, <1>7, SeqEqual
<1>9. FlattenSeq(p) \in Seq(Lines) /\ FlattenSeq(q) \in Seq(Lines) /\ FlattenSeq(p \o q) = FlattenSeq(p) \o FlattenSeq(q)
  <2>1. p \in Seq(Seq(Lines)) /\ q \in Seq(Seq(Lines))
    BY <1>1, <1>4
  <2>2. <<>> \in Seq(Seq(Lines))
    BY EmptySeq
  <2>3. QED
    BY <2>1, <2>2, FlatConcat
<1>10. QED
  BY <1>3, <1>5, <1>8, <1>9

\* The lines of one message, and of none.
LEMMA FlatFew ==
  /\ Flat(<<>>) = <<>>
  /\ \A m \in LoopMessages : Flat(<<m>>) = LinesOf(m) /\ <<m>> \in Seq(LoopMessages)
<1>1. Flat(<<>>) = <<>>
  <2>1. [i \in DOMAIN <<>> |-> LinesOf(<<>>[i])] = <<>>
    OBVIOUS
  <2>2. QED
    BY <2>1 DEF Flat, FlattenSeq
<1>2. ASSUME NEW m \in LoopMessages PROVE Flat(<<m>>) = LinesOf(m) /\ <<m>> \in Seq(LoopMessages)
  <2>1. [i \in DOMAIN <<m>> |-> LinesOf(<<m>>[i])] = <<LinesOf(m)>>
    OBVIOUS
  <2>2. Flat(<<m>>) = FlattenSeq(<<LinesOf(m)>>)
    BY <2>1 DEF Flat
  <2>3. QED
    BY <2>2, LinesAre, FlatOne
<1>3. QED
  BY <1>1, <1>2

\* A line is one of a message.
LEMMA FlatLines ==
  ASSUME NEW ms \in Seq(LoopMessages)
  PROVE  \A c : c \in ToSet(Flat(ms)) <=> \E i \in DOMAIN ms : c \in ToSet(LinesOf(ms[i]))
<1> DEFINE f == LinesSeq(ms)
<1>1. /\ f \in Seq(Seq(Lines)) /\ Flat(ms) = FlattenSeq(f)
      /\ f = [i \in DOMAIN ms |-> LinesOf(ms[i])]
  BY LinesSeqIs DEF Flat, LinesSeq
<1> HIDE DEF f
<1>2. \A c : c \in ToSet(Flat(ms)) <=> \E p \in ToSet(f) : c \in ToSet(p)
  BY <1>1, FlatSet
<1>3. DOMAIN f = DOMAIN ms /\ \A i \in DOMAIN ms : f[i] = LinesOf(ms[i])
  BY <1>1
<1>4. \A p : p \in ToSet(f) <=> \E i \in DOMAIN ms : p = LinesOf(ms[i])
  <2>1. \A p : p \in ToSet(f) <=> \E i \in DOMAIN f : p = f[i]
    BY DEF ToSet
  <2>2. QED
    BY <1>3, <2>1
<1>5. QED
  BY <1>2, <1>4, Zenon

Upto(s, i) == SubSeq(s, 1, i)

\* A sequence is what comes first and what is left.
LEMMA UptoIs ==
  ASSUME NEW S, NEW s \in Seq(S), NEW i \in 0 .. Len(s)
  PROVE  /\ Upto(s, i) \in Seq(S) /\ Len(Upto(s, i)) = i
         /\ \A k \in 1 .. i : Upto(s, i)[k] = s[k]
<1>1. PICK m \in Nat : m = Len(s)
  BY LenProperties
<1>2. \A k \in 1 .. m : s[k] \in S
  BY <1>1, ElementOfSeq
<1>3. i \in Int /\ i \in Nat /\ i <= m /\ 1 \in Int /\ \A k \in 1 .. i : s[k] \in S
  BY <1>1, <1>2
<1> DEFINE u == SubSeq(s, 1, i)
<1>4. /\ u \in Seq(S) /\ Len(u) = IF 1 <= i THEN i - 1 + 1 ELSE 0
      /\ \A k \in 1 .. i - 1 + 1 : u[k] = s[1 + k - 1]
  BY <1>3, SubSeqProperties
<1> HIDE DEF u
<1>5. i - 1 + 1 = i /\ \A k \in 1 .. i : 1 + k - 1 = k
  BY <1>3
<1>6. Len(u) = i
  BY <1>3, <1>4
<1>7. \A k \in 1 .. i : u[k] = s[k]
  BY <1>4, <1>5
<1>8. QED
  BY <1>4, <1>6, <1>7 DEF u, Upto

\* A sequence is its first elements and the others.
LEMMA SplitAt ==
  ASSUME NEW S, NEW s \in Seq(S), NEW i \in 0 .. Len(s)
  PROVE  s = Upto(s, i) \o After(s, i)
<1>1. PICK m \in Nat : m = Len(s)
  BY LenProperties
<1>2. 1 \in 1 .. m + 1 /\ i \in 1 - 1 .. m /\ m \in i .. m
  BY <1>1
<1>3. SubSeq(s, 1, i) \o SubSeq(s, i + 1, m) = SubSeq(s, 1, m)
  BY <1>1, <1>2, ConcatAdjacentSubSeq
<1>4. SubSeq(s, 1, m) = s
  BY <1>1, SubSeqFull
<1>5. QED
  BY <1>1, <1>3, <1>4 DEF After, Upto

\* The lines of a message are among those of all.
LEMMA LinesFit ==
  ASSUME NEW ms \in Seq(LoopMessages), NEW i \in 1 .. Len(ms)
  PROVE  Len(LinesOf(ms[i])) <= Len(Flat(ms)) /\ Len(LinesOf(ms[i])) \in Nat /\ Len(Flat(ms)) \in Nat
<1>1. PICK n \in Nat : n = Len(ms)
  BY LenProperties
<1> DEFINE a == Upto(ms, i)  b == After(ms, i)  c == Upto(a, i - 1)  d == After(a, i - 1)
<1>2. i \in 0 .. Len(ms) /\ i \in 1 .. n /\ i - 1 \in 0 .. i
  BY <1>1
<1>3. /\ a \in Seq(LoopMessages) /\ Len(a) = i /\ a[i] = ms[i]
      /\ b \in Seq(LoopMessages) /\ ms = a \o b
  <2>1. a \in Seq(LoopMessages) /\ Len(a) = i /\ \A k \in 1 .. i : a[k] = ms[k]
    BY <1>2, UptoIs
  <2>2. b \in Seq(LoopMessages)
    BY <1>2, AfterIs
  <2>3. i \in 1 .. i
    BY <1>2
  <2>4. ms = a \o b
    BY <1>2, SplitAt
  <2>5. QED
    BY <2>1, <2>2, <2>3, <2>4
<1>4. /\ c \in Seq(LoopMessages) /\ d \in Seq(LoopMessages) /\ a = c \o d
      /\ Len(d) = 1 /\ d[1] = ms[i]
  <2>1. i - 1 \in 0 .. Len(a)
    BY <1>2, <1>3
  <2>2. /\ c \in Seq(LoopMessages) /\ d \in Seq(LoopMessages) /\ a = c \o d
    BY <1>3, <2>1, UptoIs, AfterIs, SplitAt
  <2>3. Len(d) = Len(a) - (i - 1) /\ \A k \in 1 .. Len(a) - (i - 1) : d[k] = a[(i - 1) + k]
    BY <1>3, <2>1, AfterIs
  <2>4. 1 \in 1 .. Len(a) - (i - 1) /\ (i - 1) + 1 = i /\ Len(a) - (i - 1) = 1
    BY <1>2, <1>3
  <2>5. QED
    BY <1>3, <2>2, <2>3, <2>4
<1> HIDE DEF a, b, c, d
<1>5. ms[i] \in LoopMessages
  BY ElementOfSeq
<1>6. d = <<ms[i]>>
  <2>1. <<ms[i]>> \in Seq(LoopMessages) /\ Len(<<ms[i]>>) = 1 /\ <<ms[i]>>[1] = ms[i]
    BY <1>5
  <2>2. \A k \in 1 .. 1 : k = 1
    OBVIOUS
  <2>3. QED
    BY <1>4, <2>1, <2>2, SeqEqual
<1>7. Flat(ms) = (Flat(c) \o LinesOf(ms[i])) \o Flat(b) /\ Flat(c) \in Seq(Lines) /\ Flat(b) \in Seq(Lines)
  <2>1. Flat(ms) = Flat(a) \o Flat(b) /\ Flat(a) = Flat(c) \o Flat(d)
    BY <1>3, <1>4, FlatIs
  <2>2. Flat(d) = LinesOf(ms[i])
    BY <1>5, <1>6, FlatFew
  <2>3. QED
    BY <1>3, <1>4, <2>1, <2>2, FlatIs
<1>8. LinesOf(ms[i]) \in Seq(Lines)
  BY <1>5, LinesAre
<1>9. PICK x \in Seq(Lines), y \in Seq(Lines), z \in Seq(Lines) :
        x = Flat(c) /\ y = LinesOf(ms[i]) /\ z = Flat(b) /\ Flat(ms) = (x \o y) \o z
  BY <1>7, <1>8
<1>10. x \o y \in Seq(Lines) /\ Len(x \o y) = Len(x) + Len(y) /\ Len((x \o y) \o z) = Len(x \o y) + Len(z)
  BY ConcatProperties
<1>11. Len(x) \in Nat /\ Len(y) \in Nat /\ Len(z) \in Nat
  BY LenProperties
<1>12. QED
  BY <1>9, <1>10, <1>11

\* A note is no call.
LEMMA NoteIsNone == Note \notin Calls /\ \A c, d \in Calls : c.n \in Nat /\ c.i \in Nat /\ ~(Before(c, d) /\ Before(d, c))
<1>1. Note.n = 0
  BY DEF Note
<1>2. \A c \in Calls : c.n \in Nat \ {0} /\ c.i \in Nat \ {0}
  BY DEF Calls
<1>3. Note \notin Calls
  BY <1>1, <1>2
<1>4. ASSUME NEW c \in Calls, NEW d \in Calls PROVE c.n \in Nat /\ c.i \in Nat /\ ~(Before(c, d) /\ Before(d, c))
  BY <1>2 DEF Before
<1>5. QED
  BY <1>3, <1>4

\* What is left when the oldest lines are shed recalls the newest calls still.
LEMMA RecallsLess ==
  ASSUME NEW ran \in Seq(Calls), NEW f, Recalls(f, ran), NEW k \in 0 .. Len(f)
  PROVE  Recalls(After(f, k), ran)
<1> DEFINE g == After(f, k)
<1>1. PICK m \in Nat : m = Len(f) /\ DOMAIN f = 1 .. m
  BY LenProperties DEF Recalls
<1>2. f \in Seq(Lines)
  BY DEF Recalls
<1>3. g \in Seq(Lines) /\ Len(g) = m - k /\ \A j \in 1 .. m - k : g[j] = f[k + j]
  BY <1>1, <1>2, AfterIs
<1> HIDE DEF g
<1>4. DOMAIN g = 1 .. m - k /\ k \in 0 .. m
  BY <1>1, <1>3, LenProperties
<1>5. \A j \in 1 .. m - k : k + j \in 1 .. m
  BY <1>4
<1>6. \A c \in ToSet(g) : \E j \in 1 .. m - k : c = f[k + j]
  <2>1. \A c \in ToSet(g) : \E j \in 1 .. m - k : c = g[j]
    BY <1>4 DEF ToSet
  <2>2. QED
    BY <1>3, <2>1
<1>7. \A j \in 1 .. m : f[j] \in ToSet(f)
  BY <1>1 DEF ToSet
<1>8. \A c \in ToSet(ran) : c \in Calls
  BY ToSetFinite
<1>9. ASSUME NEW a \in 1 .. m - k, NEW b \in 1 .. m - k, a < b, g[a] # Note, g[b] # Note
      PROVE  Before(g[a], g[b])
  <2>1. k + a \in DOMAIN f /\ k + b \in DOMAIN f /\ k + a < k + b
    BY <1>1, <1>4, <1>5, <1>9
  <2>2. g[a] = f[k + a] /\ g[b] = f[k + b]
    BY <1>3
  <2>3. QED
    BY <1>9, <2>1, <2>2 DEF Recalls
<1>10. \A c \in ToSet(g) : c \in ToSet(f)
  BY <1>5, <1>6, <1>7
<1>11. ASSUME NEW c \in ToSet(g), NEW d \in ToSet(ran), c # Note, Before(c, d) PROVE d \in ToSet(g)
  <2>1. c \in ToSet(f) /\ d \in ToSet(f) /\ c \in Calls /\ d \in Calls /\ d # Note
    BY <1>8, <1>10, <1>11, NoteIsNone DEF Recalls
  <2>2. PICK b \in 1 .. m : d = f[b]
    BY <1>1, <2>1 DEF ToSet
  <2>3. PICK j \in 1 .. m - k : c = f[k + j]
    BY <1>6
  <2>4. CASE b <= k
    <3>1. b < k + j /\ k + j \in 1 .. m
      BY <1>4, <1>5, <2>4
    <3>2. Before(f[b], f[k + j])
      BY <1>1, <1>11, <2>1, <2>2, <2>3, <3>1 DEF Recalls
    <3>3. QED
      BY <1>11, <2>1, <2>2, <2>3, <3>2, NoteIsNone
  <2>5. CASE b > k
    <3>1. b - k \in 1 .. m - k /\ k + (b - k) = b
      BY <1>4, <2>5
    <3>2. g[b - k] = d
      BY <1>3, <2>2, <3>1
    <3>3. QED
      BY <1>4, <3>1, <3>2 DEF ToSet
  <2>6. QED
    BY <1>4, <2>4, <2>5
<1>12. \A c \in ToSet(g) : c = Note \/ c \in ToSet(ran)
  BY <1>10 DEF Recalls
<1>13. QED
  BY <1>3, <1>4, <1>9, <1>11, <1>12 DEF Recalls, g
Shed(f) == Early(f, MaxLines)

\* The condensed message has the newest of the lines, and is full when it sheds.
LEMMA CondensedIs ==
  ASSUME NEW x \in Seq(LoopMessages)
  PROVE  /\ Condensed(x) = IF Flat(x) = <<>> THEN <<>> ELSE <<Digest(After(Flat(x), Shed(Flat(x))))>>
         /\ Condensed(x) \in Seq(LoopMessages)
         /\ Shed(Flat(x)) \in 0 .. Len(Flat(x))
         /\ Flat(Condensed(x)) = After(Flat(x), Shed(Flat(x)))
         /\ Flat(x) # <<>> => Digest(After(Flat(x), Shed(Flat(x)))) \in LoopMessages
         /\ Len(Flat(x)) >= MaxLines => Flat(x) # <<>> /\ Len(After(Flat(x), Shed(Flat(x)))) = MaxLines
<1> DEFINE f == Flat(x)  q == Shed(f)  g == After(f, q)
<1>1. f \in Seq(Lines)
  <2>1. <<>> \in Seq(LoopMessages)
    BY EmptySeq
  <2>2. QED
    BY <2>1, FlatIs
<1>2. PICK n \in Nat : n = Len(f)
  BY <1>1, LenProperties
<1>3. MaxLines \in Nat /\ MaxLines > 0
  BY WindowAssumption
<1>4. q = (IF n > MaxLines THEN n - MaxLines ELSE 0) /\ q \in 0 .. n /\ (n >= MaxLines => n - q = MaxLines)
  BY <1>2, <1>3 DEF Shed, Early
<1>5. g \in Seq(Lines) /\ Len(g) = n - q
  BY <1>1, <1>2, <1>4, AfterIs
<1>6. Newest(f) = g
  <2>1. (IF n > MaxLines THEN n - MaxLines + 1 ELSE 1) = q + 1
    BY <1>3, <1>4
  <2>2. Newest(f) = SubSeq(f, IF n > MaxLines THEN n - MaxLines + 1 ELSE 1, n)
    BY <1>2 DEF Newest
  <2>3. g = SubSeq(f, q + 1, n)
    BY <1>2 DEF After
  <2>4. QED
    BY <2>1, <2>2, <2>3
<1>7. Condensed(x) = IF f = <<>> THEN <<>> ELSE <<Digest(g)>>
  BY <1>6 DEF Condensed, Flat
<1> HIDE DEF g, f, q
<1>8. Digest(g) \in LoopMessages
  BY <1>5 DEF Digest, LoopMessages
<1>9. Condensed(x) \in Seq(LoopMessages) /\ Flat(Condensed(x)) = g
  <2>1. CASE f = <<>>
    <3>1. n = 0
      BY <1>2, <2>1
    <3>2. q = 0 /\ Len(g) = 0
      BY <1>4, <1>5, <3>1
    <3>3. g = <<>>
      BY <1>5, <3>2, EmptySeq
    <3>4. QED
      BY <1>7, <2>1, <3>3, FlatFew, EmptySeq
  <2>2. CASE f # <<>>
    <3>1. Flat(<<Digest(g)>>) = LinesOf(Digest(g)) /\ <<Digest(g)>> \in Seq(LoopMessages)
      BY <1>8, FlatFew
    <3>2. LinesOf(Digest(g)) = g
      BY DEF LinesOf, Digest
    <3>3. QED
      BY <1>7, <2>2, <3>1, <3>2
  <2>3. QED
    BY <2>1, <2>2
<1>10. n >= MaxLines => f # <<>> /\ Len(g) = MaxLines
  <2>1. f = <<>> => n = 0
    BY <1>2
  <2>2. QED
    BY <1>3, <1>4, <1>5, <2>1
<1>11. QED
  BY <1>2, <1>4, <1>7, <1>8, <1>9, <1>10 DEF f, g, q

\* Whether a message list is what a trim leaves of another.
TrimLeaves(t, ms, h, k) ==
  /\ h = KeptHead(ms) /\ h \in {0, 1} /\ k \in h .. Len(ms) /\ Len(ms) > 4
  /\ t = (Upto(ms, h) \o Condensed(After(Upto(ms, k), h))) \o After(ms, k)
  /\ k = h \/ k = Len(ms) \/ ms[k + 1].role # "tool"
  /\ \A j \in CutPoints(ms, h) : Assistants(After(ms, j)) <= 1 => k <= j

\* A trim leaves the messages, or the head, a condensed message and the newest,
\* and stops before it cuts off the last assistant message.
LEMMA TrimIs ==
  ASSUME NEW ms \in Seq(LoopMessages), NEW c
  PROVE  Trim(ms, c) = ms \/ \E h \in {0, 1}, k \in Nat : TrimLeaves(Trim(ms, c), ms, h, k)
<1>1. PICK n \in Nat : n = Len(ms)
  BY LenProperties
<1>2. CASE Len(ms) <= 4 \/ Size(ms) <= c
  BY <1>2 DEF Trim
<1>3. CASE ~(Len(ms) <= 4 \/ Size(ms) <= c)
  <2> DEFINE head == KeptHead(ms)
             Enough(i) == \/ i = Len(ms) \/ Assistants(SubSeq(ms, i + 1, Len(ms))) <= 1
                          \/ Size(SubSeq(ms, 1, head)) + Size(SubSeq(ms, i + 1, Len(ms))) <= c - DigestWeight
             Fits(i) == Enough(i) /\ \A j \in CutPoints(ms, head) : Enough(j) => i <= j
             k == CHOOSE i \in CutPoints(ms, head) : Fits(i)
  <2>1. Trim(ms, c) = (SubSeq(ms, 1, head) \o Condensed(SubSeq(ms, head + 1, k))) \o SubSeq(ms, k + 1, Len(ms))
    BY <1>3 DEF Trim
  <2>2. head \in {0, 1}
    BY DEF KeptHead
  <2>3. \A j : Assistants(After(ms, j)) <= 1 => Enough(j)
    BY DEF After
  <2>4. Enough(n)
    BY <1>1
  <2> HIDE DEF head, Enough
  <2>5. n > 4
    BY <1>1, <1>3
  <2>6. n \in CutPoints(ms, head) /\ CutPoints(ms, head) \subseteq head .. n
    BY <1>1, <2>2, <2>5 DEF CutPoints
  <2>7. \E i \in CutPoints(ms, head) : Fits(i)
    <3> DEFINE E == {i \in CutPoints(ms, head) : Enough(i)}
    <3>1. E \in SUBSET Nat /\ E # {}
      BY <2>2, <2>4, <2>6
    <3> HIDE DEF E
    <3>2. PICK i \in E : \A j \in E : i <= j
      BY <3>1, LeastNat
    <3>3. QED
      BY <3>2 DEF E
  <2>8. k \in CutPoints(ms, head) /\ Fits(k)
    BY <2>7
  <2> HIDE DEF k
  <2>9. k \in head .. n /\ (k = head \/ k = n \/ ms[k + 1].role # "tool")
    BY <1>1, <2>6, <2>8 DEF CutPoints
  <2>10. SubSeq(ms, head + 1, k) = After(Upto(ms, k), head)
    <3>1. k \in 0 .. Len(ms)
      BY <1>1, <2>2, <2>9
    <3>2. Upto(ms, k) \in Seq(LoopMessages) /\ Len(Upto(ms, k)) = k /\ \A j \in 1 .. k : Upto(ms, k)[j] = ms[j]
      BY <3>1, UptoIs
    <3>3. head \in 0 .. Len(Upto(ms, k))
      BY <2>2, <2>9, <3>1, <3>2
    <3> DEFINE a == After(Upto(ms, k), head)  b == SubSeq(ms, head + 1, k)
    <3>4. a \in Seq(LoopMessages) /\ Len(a) = k - head /\ \A j \in 1 .. k - head : a[j] = Upto(ms, k)[head + j]
      BY <3>2, <3>3, AfterIs
    <3>5. \A j \in head + 1 .. k : ms[j] \in LoopMessages
      BY <2>2, <3>1, ElementOfSeq
    <3>6. head + 1 \in Int /\ k \in Int
      BY <2>2, <3>1
    <3>7. /\ b \in Seq(LoopMessages) /\ Len(b) = IF head + 1 <= k THEN k - (head + 1) + 1 ELSE 0
          /\ \A j \in 1 .. k - (head + 1) + 1 : b[j] = ms[head + 1 + j - 1]
      BY <3>5, <3>6, SubSeqProperties
    <3> HIDE DEF a, b
    <3>8. k - (head + 1) + 1 = k - head /\ \A j \in 1 .. k - head : head + 1 + j - 1 = head + j /\ head + j \in 1 .. k
      BY <2>2, <3>1
    <3>9. Len(b) = k - head
      BY <2>2, <2>9, <3>1, <3>7
    <3>10. \A j \in 1 .. k - head : b[j] = ms[head + j]
      BY <3>7, <3>8
    <3>11. \A j \in 1 .. k - head : b[j] = a[j]
      BY <3>2, <3>4, <3>8, <3>10
    <3>12. a = b
      BY <3>4, <3>7, <3>9, <3>11, SeqEqual
    <3>13. QED
      BY <3>12 DEF a, b
  <2>11. \A j \in CutPoints(ms, head) : Assistants(After(ms, j)) <= 1 => k <= j
    BY <2>3, <2>8
  <2>12. Trim(ms, c) = (Upto(ms, head) \o Condensed(After(Upto(ms, k), head))) \o After(ms, k)
    BY <2>1, <2>10 DEF Upto, After
  <2>13. k \in Nat
    BY <2>2, <2>9
  <2>14. TrimLeaves(Trim(ms, c), ms, head, k)
    BY <1>1, <2>2, <2>5, <2>9, <2>11, <2>12 DEF TrimLeaves, head
  <2>15. QED
    BY <2>2, <2>13, <2>14
<1>4. QED
  BY <1>2, <1>3

\* A well formed list begins with no result.
LEMMA PairedFirst ==
  ASSUME NEW ms \in Seq(LoopMessages), Paired(ms), ms # <<>>
  PROVE  ms[1].role # "tool" /\ (ms[1].role = "human" /\ Len(ms) > 1 => ms[2].role # "tool")
<1>1. PICK n \in Nat : n = Len(ms) /\ DOMAIN ms = 1 .. n
  BY LenProperties
<1>2. n # 0
  BY <1>1, EmptySeq
<1>3. 1 \in DOMAIN ms /\ ~(1 > 1)
  BY <1>1, <1>2
<1>4. ms[1].role # "tool"
  BY <1>3 DEF Paired
<1>5. ASSUME ms[1].role = "human", Len(ms) > 1 PROVE ms[2].role # "tool"
  <2>1. 2 \in DOMAIN ms /\ 2 - 1 = 1
    BY <1>1, <1>5
  <2>2. QED
    BY <1>5, <2>1 DEF Paired
<1>6. QED
  BY <1>4, <1>5

\* It stays well formed when human messages stand for its beginning, as long as
\* what is left begins with no result.
LEMMA PairedShift ==
  ASSUME NEW ms \in Seq(LoopMessages), NEW t \in Seq(LoopMessages), NEW e \in Nat, NEW k \in 0 .. Len(ms),
         Paired(ms), Len(t) = e + (Len(ms) - k),
         \A i \in 1 .. e : t[i].role = "human",
         \A j \in 1 .. Len(ms) - k : t[e + j] = ms[k + j],
         k < Len(ms) => ms[k + 1].role # "tool"
  PROVE  Paired(t)
<1>1. PICK n \in Nat : n = Len(ms) /\ DOMAIN ms = 1 .. n
  BY LenProperties
<1>2. k \in Nat /\ k <= n /\ Len(t) = e + (n - k) /\ DOMAIN t = 1 .. e + (n - k)
  BY <1>1, LenProperties
<1>3. \A j \in 1 .. n - k : t[e + j] = ms[k + j]
  BY <1>1
<1>4. ASSUME NEW i \in DOMAIN t, t[i].role = "tool" PROVE i > 1 /\ t[i - 1].role # "human"
  <2>1. ~(i \in 1 .. e)
    BY <1>4
  <2>2. PICK j \in 1 .. n - k : i = e + j
    <3>1. i - e \in 1 .. n - k /\ i = e + (i - e)
      BY <1>2, <2>1
    <3>2. QED
      BY <3>1
  <2>3. ms[k + j].role = "tool"
    BY <1>3, <1>4, <2>2
  <2>4. j # 1
    <3>1. j = 1 => k < n
      BY <1>2
    <3>2. QED
      BY <1>1, <2>3, <3>1
  <2>5. j - 1 \in 1 .. n - k /\ k + j \in 1 .. n /\ (k + j) - 1 = k + (j - 1) /\ i - 1 = e + (j - 1) /\ i > 1
    BY <1>2, <2>2, <2>4
  <2>6. ms[k + (j - 1)].role # "human"
    BY <1>1, <2>3, <2>5 DEF Paired
  <2>7. t[e + (j - 1)] = ms[k + (j - 1)]
    BY <1>3, <2>5
  <2>8. QED
    BY <2>5, <2>6, <2>7
<1>5. ASSUME NEW i \in DOMAIN t, t[i].role = "ai"
      PROVE  LET q == Len(t[i].calls) IN
             /\ i + q <= Len(t)
             /\ \A j \in 1 .. q : t[i + j] = Result(t[i].calls[j])
             /\ i + q < Len(t) => t[i + q + 1].role # "tool"
  <2>1. ~(i \in 1 .. e)
    BY <1>5
  <2>2. PICK j \in 1 .. n - k : i = e + j
    <3>1. i - e \in 1 .. n - k /\ i = e + (i - e)
      BY <1>2, <2>1
    <3>2. QED
      BY <3>1
  <2>3. t[i] = ms[k + j] /\ ms[k + j].role = "ai" /\ k + j \in 1 .. n
    BY <1>2, <1>3, <1>5, <2>2
  <2>4. PICK q \in Nat : q = Len(ms[k + j].calls)
    <3>1. ms[k + j] \in LoopMessages
      BY <1>1, <2>3, ElementOfSeq
    <3>2. ms[k + j].calls \in Seq(Lines)
      BY <3>1 DEF LoopMessages
    <3>3. QED
      BY <3>2, LenProperties
  <2>5. /\ (k + j) + q <= n
        /\ \A l \in 1 .. q : ms[(k + j) + l] = Result(ms[k + j].calls[l])
        /\ (k + j) + q < n => ms[(k + j) + q + 1].role # "tool"
    BY <1>1, <2>3, <2>4 DEF Paired
  <2>6. i + q <= Len(t)
    BY <1>2, <2>2, <2>5
  <2>7. ASSUME NEW l \in 1 .. q PROVE t[i + l] = Result(t[i].calls[l])
    <3>1. j + l \in 1 .. n - k /\ i + l = e + (j + l) /\ (k + j) + l = k + (j + l)
      <4>1. k \in Int /\ n \in Int /\ e \in Int
        BY <1>2
      <4>2. (k + j) + q <= n
        BY <2>5
      <4>3. QED
        BY <2>2, <4>1, <4>2
    <3>2. t[e + (j + l)] = ms[k + (j + l)]
      BY <1>3, <3>1
    <3>3. QED
      BY <2>3, <2>5, <3>1, <3>2
  <2>8. ASSUME i + q < Len(t) PROVE t[i + q + 1].role # "tool"
    <3>1. /\ (j + q) + 1 \in 1 .. n - k /\ i + q + 1 = e + ((j + q) + 1)
          /\ (k + j) + q + 1 = k + ((j + q) + 1) /\ (k + j) + q < n
      BY <1>2, <2>2, <2>5, <2>8
    <3>2. t[e + ((j + q) + 1)] = ms[k + ((j + q) + 1)]
      BY <1>3, <3>1
    <3>3. QED
      BY <2>5, <3>1, <3>2
  <2>9. QED
    BY <2>3, <2>4, <2>6, <2>7, <2>8
<1>6. QED
  BY <1>4, <1>5 DEF Paired

\* Two well formed lists, put together.
LEMMA PairedConcat ==
  ASSUME NEW a \in Seq(LoopMessages), NEW b \in Seq(LoopMessages), Paired(a), Paired(b)
  PROVE  Paired(a \o b)
<1>1. PICK m \in Nat, n \in Nat : m = Len(a) /\ n = Len(b) /\ DOMAIN a = 1 .. m /\ DOMAIN b = 1 .. n
  BY LenProperties
<1> DEFINE c == a \o b
<1>2. c \in Seq(LoopMessages) /\ Len(c) = m + n /\ \A i \in 1 .. m + n : c[i] = IF i <= m THEN a[i] ELSE b[i - m]
  BY <1>1, ConcatProperties
<1> HIDE DEF c
<1>3. DOMAIN c = 1 .. m + n
  BY <1>2, LenProperties
<1>4. \A i \in 1 .. m : c[i] = a[i]
  BY <1>2
<1>5. ASSUME NEW j \in 1 .. n PROVE c[m + j] = b[j]
  <2>1. m + j \in 1 .. m + n /\ ~(m + j <= m) /\ (m + j) - m = j
    OBVIOUS
  <2>2. QED
    BY <1>2, <2>1
<1>6. \A i \in 1 .. m + n : i \in 1 .. m \/ \E j \in 1 .. n : i = m + j
  <2>1. ASSUME NEW i \in 1 .. m + n, ~(i \in 1 .. m) PROVE \E j \in 1 .. n : i = m + j
    <3>1. i - m \in 1 .. n /\ i = m + (i - m)
      BY <2>1
    <3>2. QED
      BY <3>1
  <2>2. QED
    BY <2>1
<1>7. n > 0 => b[1].role # "tool"
  <2>1. n > 0 => 1 \in DOMAIN b /\ ~(1 > 1)
    BY <1>1
  <2>2. QED
    BY <2>1 DEF Paired
<1>8. ASSUME NEW i \in 1 .. m + n, c[i].role = "tool" PROVE i > 1 /\ c[i - 1].role # "human"
  <2>1. CASE i \in 1 .. m
    <3>1. a[i].role = "tool"
      BY <1>4, <1>8, <2>1
    <3>2. i > 1 /\ a[i - 1].role # "human"
      BY <1>1, <2>1, <3>1 DEF Paired
    <3>3. i - 1 \in 1 .. m
      BY <2>1, <3>2
    <3>4. QED
      BY <1>4, <3>2, <3>3
  <2>2. ASSUME NEW j \in 1 .. n, i = m + j PROVE i > 1 /\ c[i - 1].role # "human"
    <3>1. b[j].role = "tool"
      BY <1>5, <1>8, <2>2
    <3>2. j > 1 /\ b[j - 1].role # "human"
      BY <1>1, <3>1 DEF Paired
    <3>3. j - 1 \in 1 .. n /\ i - 1 = m + (j - 1) /\ i > 1
      BY <2>2, <3>2
    <3>4. QED
      BY <1>5, <3>2, <3>3
  <2>3. QED
    BY <1>6, <2>1, <2>2
<1>9. ASSUME NEW i \in 1 .. m + n, c[i].role = "ai"
      PROVE  LET q == Len(c[i].calls) IN
             /\ i + q <= m + n
             /\ \A j \in 1 .. q : c[i + j] = Result(c[i].calls[j])
             /\ i + q < m + n => c[i + q + 1].role # "tool"
  <2>1. PICK q \in Nat : q = Len(c[i].calls)
    <3>1. c[i] \in LoopMessages
      BY <1>2, ElementOfSeq
    <3>2. c[i].calls \in Seq(Lines)
      BY <3>1 DEF LoopMessages
    <3>3. QED
      BY <3>2, LenProperties
  <2>2. CASE i \in 1 .. m
    <3>1. c[i] = a[i]
      BY <1>4, <2>2
    <3>2. /\ i + q <= m
          /\ \A j \in 1 .. q : a[i + j] = Result(a[i].calls[j])
          /\ i + q < m => a[i + q + 1].role # "tool"
      BY <1>1, <1>9, <2>1, <2>2, <3>1 DEF Paired
    <3>3. ASSUME NEW j \in 1 .. q PROVE c[i + j] = Result(c[i].calls[j])
      <4>1. i + j \in 1 .. m
        BY <2>2, <3>2
      <4>2. QED
        BY <1>4, <3>1, <3>2, <4>1
    <3>4. ASSUME i + q < m + n PROVE c[i + q + 1].role # "tool"
      <4>1. CASE i + q < m
        <5>1. i + q + 1 \in 1 .. m
          BY <2>2, <4>1
        <5>2. QED
          BY <1>4, <3>2, <4>1, <5>1
      <4>2. CASE i + q = m
        <5>1. i + q + 1 = m + 1 /\ n > 0 /\ 1 \in 1 .. n
          BY <3>4, <4>2
        <5>2. QED
          BY <1>5, <1>7, <5>1
      <4>3. QED
        BY <2>2, <3>2, <4>1, <4>2
    <3>5. i + q <= m + n
      BY <2>2, <3>2
    <3>6. QED
      BY <2>1, <3>3, <3>4, <3>5
  <2>3. ASSUME NEW l \in 1 .. n, i = m + l
        PROVE  /\ i + q <= m + n
               /\ \A j \in 1 .. q : c[i + j] = Result(c[i].calls[j])
               /\ i + q < m + n => c[i + q + 1].role # "tool"
    <3>1. c[i] = b[l]
      BY <1>5, <2>3
    <3>2. /\ l + q <= n
          /\ \A j \in 1 .. q : b[l + j] = Result(b[l].calls[j])
          /\ l + q < n => b[l + q + 1].role # "tool"
      BY <1>1, <1>9, <2>1, <3>1 DEF Paired
    <3>3. ASSUME NEW j \in 1 .. q PROVE c[i + j] = Result(c[i].calls[j])
      <4>1. l + j \in 1 .. n /\ i + j = m + (l + j)
        BY <2>3, <3>2
      <4>2. QED
        BY <1>5, <3>1, <3>2, <4>1
    <3>4. ASSUME i + q < m + n PROVE c[i + q + 1].role # "tool"
      <4>1. l + q < n /\ l + q + 1 \in 1 .. n /\ i + q + 1 = m + (l + q + 1)
        BY <2>3, <3>4
      <4>2. QED
        BY <1>5, <3>2, <4>1
    <3>5. i + q <= m + n
      BY <2>3, <3>2
    <3>6. QED
      BY <3>3, <3>4, <3>5
  <2>4. QED
    BY <1>6, <2>1, <2>2, <2>3
<1>10. QED
  BY <1>2, <1>3, <1>8, <1>9 DEF Paired, c

\* What is put together, with its lengths named.
LEMMA JoinIs ==
  ASSUME NEW S, NEW a \in Seq(S), NEW b \in Seq(S), NEW m \in Nat, NEW n \in Nat, m = Len(a), n = Len(b),
         NEW c, c = a \o b
  PROVE  c \in Seq(S) /\ Len(c) = m + n /\ \A i \in 1 .. m + n : c[i] = IF i <= m THEN a[i] ELSE b[i - m]
  BY ConcatProperties

\* The rest of what is joined begins in the first of the two.
LEMMA AfterConcat ==
  ASSUME NEW S, NEW f \in Seq(S), NEW g \in Seq(S), NEW q \in 0 .. Len(f)
  PROVE  After(f, q) \o g = After(f \o g, q) /\ q \in 0 .. Len(f \o g)
<1>1. PICK m \in Nat, n \in Nat, o \in Nat, p \in Nat : m = Len(f) /\ n = Len(g) /\ o = m + n /\ p = m - q
  BY LenProperties
<1> DEFINE c == f \o g  a == After(f, q)  b == After(c, q)  d == a \o g
<1>2. c \in Seq(S) /\ Len(c) = o /\ \A i \in 1 .. o : c[i] = IF i <= m THEN f[i] ELSE g[i - m]
  BY <1>1, ConcatProperties
<1>3. a \in Seq(S) /\ Len(a) = p /\ \A i \in 1 .. p : a[i] = f[q + i]
  BY <1>1, AfterIs
<1> HIDE DEF c, a
<1>4. q \in 0 .. Len(c)
  BY <1>1, <1>2
<1>5. b \in Seq(S) /\ Len(b) = o - q /\ \A i \in 1 .. o - q : b[i] = c[q + i]
  BY <1>2, <1>4, AfterIs
<1>6. d = a \o g
  OBVIOUS
<1> HIDE DEF d
<1>7. /\ d \in Seq(S) /\ Len(d) = p + n
      /\ \A i \in 1 .. p + n : d[i] = IF i <= p THEN a[i] ELSE g[i - p]
  <2>1. a \in Seq(S) /\ p = Len(a) /\ n = Len(g) /\ p \in Nat /\ n \in Nat
    BY <1>1, <1>3
  <2>2. QED
    BY <1>6, <2>1, JoinIs
<1> HIDE DEF b
<1>8. ASSUME NEW i \in 1 .. o - q PROVE d[i] = b[i]
  <2>1. q + i \in 1 .. o /\ i \in 1 .. p + n
    BY <1>1
  <2>2. CASE i <= p
    <3>1. q + i <= m /\ i \in 1 .. p
      BY <1>1, <2>2
    <3>2. QED
      BY <1>2, <1>3, <1>5, <1>7, <2>1, <2>2, <3>1
  <2>3. CASE ~(i <= p)
    <3>1. ~(q + i <= m) /\ (q + i) - m = i - p
      BY <1>1, <2>3
    <3>2. QED
      BY <1>2, <1>5, <1>7, <2>1, <2>3, <3>1
  <2>4. QED
    BY <2>2, <2>3
<1>9. Len(d) = o - q
  BY <1>1, <1>7
<1>10. d = b
  BY <1>5, <1>7, <1>8, <1>9, SeqEqual
<1>11. QED
  BY <1>4, <1>10 DEF a, b, c, d

\* The head has no lines.
LEMMA HeadLines ==
  ASSUME NEW ms \in Seq(LoopMessages), NEW h \in {0, 1}, h = KeptHead(ms), h <= Len(ms)
  PROVE  /\ Upto(ms, h) \in Seq(LoopMessages) /\ Flat(Upto(ms, h)) = <<>>
         /\ \A i \in 1 .. h : ms[i].role = "human" /\ ms[i].is # "digest"
<1>1. h \in 0 .. Len(ms) /\ h \in Nat
  BY LenProperties
<1> DEFINE u == Upto(ms, h)
<1>2. u \in Seq(LoopMessages) /\ Len(u) = h /\ \A i \in 1 .. h : u[i] = ms[i]
  BY <1>1, UptoIs
<1> HIDE DEF u
<1>3. \A i \in 1 .. h : ms[i].role = "human" /\ ms[i].is # "digest"
  <2>1. h = 1 => ms[1].role = "human" /\ ms[1].is # "digest"
    BY DEF KeptHead
  <2>2. \A i \in 1 .. h : h = 1 /\ i = 1
    BY <1>1
  <2>3. QED
    BY <2>1, <2>2
<1>4. Flat(u) = <<>>
  <2>1. CASE h = 0
    <3>1. u = <<>>
      BY <1>2, <2>1, EmptySeq
    <3>2. QED
      BY <3>1, FlatFew
  <2>2. CASE h = 1
    <3>1. ms[1] \in LoopMessages /\ ms[1].role = "human" /\ ms[1].is # "digest"
      BY <1>1, <1>3, <2>2, ElementOfSeq
    <3>2. LinesOf(ms[1]) = <<>>
      BY <3>1 DEF LinesOf
    <3>3. <<ms[1]>> \in Seq(LoopMessages) /\ Len(<<ms[1]>>) = 1 /\ <<ms[1]>>[1] = ms[1]
      BY <3>1
    <3>4. \A i \in 1 .. 1 : i = 1
      OBVIOUS
    <3>5. u = <<ms[1]>>
      BY <1>2, <2>2, <3>3, <3>4, SeqEqual
    <3>6. QED
      BY <3>1, <3>2, <3>5, FlatFew
  <2>3. QED
    BY <2>1, <2>2
<1>5. QED
  BY <1>2, <1>3, <1>4 DEF u

\* What a trim leaves, message by message and line by line.
Keeps(t, ms, h, e, k) ==
  /\ t \in Seq(LoopMessages) /\ h \in Nat /\ e \in Nat /\ h <= e /\ k \in 0 .. Len(ms) /\ h <= k
  /\ Len(t) = e + (Len(ms) - k)
  /\ \A i \in 1 .. e : t[i].role = "human"
  /\ \A i \in 1 .. h : t[i] = ms[i] /\ ms[i].role = "human"
  /\ \A j \in 1 .. Len(ms) - k : t[e + j] = ms[k + j]
  /\ k < Len(ms) => ms[k + 1].role # "tool"

\* What a trim leaves is paired.
LEMMA TrimMessages ==
  ASSUME NEW ms \in Seq(LoopMessages), NEW t, NEW h \in {0, 1}, NEW k \in Nat, Paired(ms), TrimLeaves(t, ms, h, k)
  PROVE  \E e \in Nat : Keeps(t, ms, h, e, k)
<1>1. PICK n \in Nat : n = Len(ms) /\ DOMAIN ms = 1 .. n
  BY LenProperties
<1>2. k \in h .. n /\ n > 4 /\ k \in 0 .. Len(ms) /\ h \in 0 .. Len(ms) /\ h \in Nat /\ k <= n
  BY <1>1 DEF TrimLeaves
<1> DEFINE a == Upto(ms, h)  u == Upto(ms, k)  x == After(u, h)  d == Condensed(x)  r == After(ms, k)
<1>3. a \in Seq(LoopMessages) /\ Len(a) = h /\ \A i \in 1 .. h : a[i] = ms[i]
  BY <1>2, UptoIs
<1>4. u \in Seq(LoopMessages) /\ Len(u) = k
  BY <1>2, UptoIs
<1>5. x \in Seq(LoopMessages)
  <2>1. h \in 0 .. Len(u)
    BY <1>2, <1>4
  <2>2. QED
    BY <1>4, <2>1, AfterIs
<1>6. r \in Seq(LoopMessages) /\ Len(r) = n - k /\ \A j \in 1 .. n - k : r[j] = ms[k + j]
  BY <1>1, <1>2, AfterIs
<1>7. t = (a \o d) \o r
  BY DEF TrimLeaves
<1>8. \A i \in 1 .. h : ms[i].role = "human"
  BY <1>1, <1>2, HeadLines DEF TrimLeaves
<1> HIDE DEF a, u, x, r
<1>9. d \in Seq(LoopMessages) /\ (d = <<>> \/ \E l : d = <<Digest(l)>>)
  BY <1>5, CondensedIs
<1> HIDE DEF d
<1>10. PICK z \in Nat : z = Len(d) /\ \A i \in 1 .. z : d[i].role = "human"
  <2>1. CASE d = <<>>
    <3>1. Len(d) = 0 /\ \A i \in 1 .. 0 : FALSE
      BY <2>1
    <3>2. QED
      BY <3>1
  <2>2. ASSUME NEW l, d = <<Digest(l)>> PROVE \E y \in Nat : y = Len(d) /\ \A i \in 1 .. y : d[i].role = "human"
    <3>1. Len(d) = 1 /\ d[1] = Digest(l) /\ \A i \in 1 .. 1 : i = 1
      BY <2>2
    <3>2. Digest(l).role = "human"
      BY DEF Digest
    <3>3. QED
      BY <3>1, <3>2
  <2>3. QED
    BY <1>9, <2>1, <2>2
<1> DEFINE p == a \o d
<1>11. p \in Seq(LoopMessages) /\ Len(p) = h + z /\ \A i \in 1 .. h + z : p[i] = IF i <= h THEN a[i] ELSE d[i - h]
  BY <1>3, <1>9, <1>10, ConcatProperties
<1>12. t = p \o r
  BY <1>7
<1> HIDE DEF p
<1>13. PICK e \in Nat, w \in Nat : e = h + z /\ w = n - k
  BY <1>2
<1>14. /\ t \in Seq(LoopMessages) /\ Len(t) = e + w
       /\ \A i \in 1 .. e + w : t[i] = IF i <= e THEN p[i] ELSE r[i - e]
  <2>1. p \in Seq(LoopMessages) /\ r \in Seq(LoopMessages) /\ e = Len(p) /\ w = Len(r) /\ e \in Nat /\ w \in Nat
    BY <1>6, <1>11, <1>13
  <2>2. QED
    BY <1>12, <2>1, JoinIs
<1>15. ASSUME NEW i \in 1 .. e PROVE t[i].role = "human" /\ (i <= h => t[i] = ms[i])
  <2>1. i \in 1 .. e + w /\ i <= e
    BY <1>2
  <2>2. t[i] = p[i]
    BY <1>14, <2>1
  <2>3. CASE i <= h
    <3>1. i \in 1 .. h
      BY <2>3
    <3>2. QED
      BY <1>3, <1>8, <1>11, <1>13, <2>2, <2>3, <3>1
  <2>4. CASE ~(i <= h)
    <3>1. i - h \in 1 .. z
      BY <1>2, <1>13, <2>4
    <3>2. QED
      BY <1>10, <1>11, <1>13, <2>2, <2>4, <3>1
  <2>5. QED
    BY <2>3, <2>4
<1>16. ASSUME NEW j \in 1 .. n - k PROVE t[e + j] = ms[k + j]
  <2>1. e + j \in 1 .. e + w /\ ~(e + j <= e) /\ (e + j) - e = j /\ j \in 1 .. w
    BY <1>2, <1>13
  <2>2. QED
    BY <1>6, <1>14, <2>1
<1>17. k < n => ms[k + 1].role # "tool"
  <2>1. ms # <<>>
    BY <1>1, <1>2, EmptySeq
  <2>2. ms[1].role # "tool" /\ (ms[1].role = "human" /\ Len(ms) > 1 => ms[2].role # "tool")
    BY <2>1, PairedFirst
  <2>3. h = 1 => ms[1].role = "human"
    BY <1>8
  <2>4. k = h => ms[k + 1].role # "tool"
    BY <1>1, <1>2, <2>2, <2>3
  <2>5. k = h \/ k = n \/ ms[k + 1].role # "tool"
    BY <1>1 DEF TrimLeaves
  <2>6. QED
    BY <2>4, <2>5
<1>18. \A i \in 1 .. h : i \in 1 .. e /\ i <= h
  BY <1>2, <1>13
<1>19. e \in Nat /\ h <= e /\ w = n - k
  BY <1>2, <1>13
<1>20. Keeps(t, ms, h, e, k)
  BY <1>1, <1>2, <1>8, <1>14, <1>15, <1>16, <1>17, <1>18, <1>19 DEF Keeps
<1>21. QED
  BY <1>19, <1>20
Roomy(m) == m.is = "digest" => Len(m.calls) < MaxLines

\* Room for a line is room in every message.
LEMMA LineRoomIs == ASSUME NEW ms PROVE LineRoom(ms) <=> \A m \in ToSet(ms) : Roomy(m)
  BY DEF LineRoom, ToSet, Roomy

\* A trim keeps the newest lines, and when it sheds one the condensed message is full.
LEMMA TrimLines ==
  ASSUME NEW ms \in Seq(LoopMessages), NEW t, NEW h \in {0, 1}, NEW k \in Nat, TrimLeaves(t, ms, h, k)
  PROVE  \E q \in 0 .. Len(Flat(ms)) : Flat(t) = After(Flat(ms), q) /\ (LineRoom(t) => q = 0 /\ LineRoom(ms))
<1>1. PICK n \in Nat : n = Len(ms) /\ DOMAIN ms = 1 .. n
  BY LenProperties
<1>2. h = KeptHead(ms) /\ k \in h .. n /\ n > 4 /\ k \in 0 .. Len(ms) /\ h \in 0 .. Len(ms) /\ h \in Nat /\ h <= n /\ h \in 0 .. k
  BY <1>1 DEF TrimLeaves
<1> DEFINE a == Upto(ms, h)  u == Upto(ms, k)  x == After(u, h)  d == Condensed(x)  r == After(ms, k)
           b == Upto(u, h)
<1>3. a \in Seq(LoopMessages) /\ Len(a) = h /\ \A i \in 1 .. h : a[i] = ms[i]
  BY <1>2, UptoIs
<1>4. u \in Seq(LoopMessages) /\ Len(u) = k /\ \A i \in 1 .. k : u[i] = ms[i]
  BY <1>2, UptoIs
<1>5. r \in Seq(LoopMessages) /\ ms = u \o r
  BY <1>2, AfterIs, SplitAt
<1>6. t = (a \o d) \o r
  BY DEF TrimLeaves
<1>7. Flat(a) = <<>> /\ \A i \in 1 .. h : ms[i].is # "digest"
  BY <1>1, <1>2, HeadLines
<1> HIDE DEF a, u, r
<1>8. x \in Seq(LoopMessages) /\ b \in Seq(LoopMessages) /\ Len(b) = h /\ u = b \o x /\ \A i \in 1 .. h : b[i] = u[i]
  <2>1. h \in 0 .. Len(u)
    BY <1>2, <1>4
  <2>2. u = b \o x
    BY <1>4, <2>1, SplitAt
  <2>3. x \in Seq(LoopMessages)
    BY <1>4, <2>1, AfterIs
  <2>4. b \in Seq(LoopMessages) /\ Len(b) = h /\ \A i \in 1 .. h : b[i] = u[i]
    BY <1>4, <2>1, UptoIs
  <2>5. QED
    BY <2>2, <2>3, <2>4
<1> HIDE DEF x, b
<1>9. a = b
  <2>1. \A i \in 1 .. h : i \in 1 .. k
    BY <1>2
  <2>2. \A i \in 1 .. h : a[i] = b[i]
    BY <1>3, <1>4, <1>8, <2>1
  <2>3. Len(a) = Len(b)
    BY <1>3, <1>8
  <2>4. QED
    BY <1>3, <1>8, <2>2, <2>3, SeqEqual
<1> DEFINE f == Flat(x)  q == Shed(f)  D == Digest(After(f, q))
<1>10. /\ d = IF f = <<>> THEN <<>> ELSE <<D>>
       /\ d \in Seq(LoopMessages) /\ q \in 0 .. Len(f) /\ Flat(d) = After(f, q)
       /\ Len(f) >= MaxLines => f # <<>> /\ Len(After(f, q)) = MaxLines
  BY <1>8, CondensedIs
<1>11. f \in Seq(Lines) /\ Flat(r) \in Seq(Lines) /\ Flat(a \o x) = Flat(a) \o f /\ Flat(u \o r) = Flat(u) \o Flat(r)
  BY <1>3, <1>4, <1>5, <1>8, FlatIs
<1>12. <<>> \o f = f
  BY <1>11, ConcatEmptySeq
<1>13. Flat(ms) = f \o Flat(r)
  BY <1>5, <1>7, <1>8, <1>9, <1>11, <1>12
<1>14. PICK l \in Nat : l = Len(f)
  BY <1>11, LenProperties
<1>15. MaxLines \in Nat
  BY WindowAssumption
<1>16. l <= MaxLines => q = 0
  BY <1>14, <1>15 DEF Shed, Early
<1> HIDE DEF f, d, q
<1>17. Flat(t) = After(f, q) \o Flat(r)
  <2>1. a \o d \in Seq(LoopMessages) /\ Flat(a \o d) = Flat(a) \o Flat(d) /\ Flat(d) \in Seq(Lines)
    BY <1>3, <1>10, FlatIs
  <2>2. Flat((a \o d) \o r) = Flat(a \o d) \o Flat(r)
    BY <1>5, <2>1, FlatIs
  <2>3. <<>> \o Flat(d) = Flat(d)
    BY <2>1, ConcatEmptySeq
  <2>4. QED
    BY <1>6, <1>7, <1>10, <2>1, <2>2, <2>3
<1>18. Flat(t) = After(Flat(ms), q) /\ q \in 0 .. Len(Flat(ms))
  BY <1>10, <1>11, <1>13, <1>17, AfterConcat
<1>19. ToSet(t) = (ToSet(a) \cup ToSet(d)) \cup ToSet(r) /\ ToSet(ms) = (ToSet(a) \cup ToSet(x)) \cup ToSet(r)
  <2>1. a \in Seq(LoopMessages) /\ d \in Seq(LoopMessages) /\ r \in Seq(LoopMessages)
    BY <1>3, <1>5, <1>10
  <2>2. a \o d \in Seq(LoopMessages) /\ ToSet(a \o d) = ToSet(a) \cup ToSet(d)
    BY <2>1, ConcatSet, Zenon
  <2> DEFINE p == a \o d
  <2>3. p \in Seq(LoopMessages) /\ t = p \o r
    BY <1>6, <2>2
  <2> HIDE DEF p
  <2>4. ToSet(p \o r) = ToSet(p) \cup ToSet(r)
    BY <2>1, <2>3, ConcatSet, Zenon
  <2>5. ToSet(a \o x) = ToSet(a) \cup ToSet(x)
    BY <1>3, <1>8, ConcatSet
  <2>6. ToSet(u \o r) = ToSet(u) \cup ToSet(r)
    BY <1>4, <1>5, ConcatSet
  <2>7. QED
    BY <1>5, <1>8, <1>9, <2>2, <2>4, <2>5, <2>6, <2>3 DEF p
<1>20. ASSUME LineRoom(t) PROVE q = 0 /\ LineRoom(ms)
  <2>1. ~(l >= MaxLines)
    <3>1. SUFFICES ASSUME l >= MaxLines PROVE FALSE
      OBVIOUS
    <3>2. d = <<D>> /\ D.is = "digest" /\ ~(Len(D.calls) < MaxLines)
      BY <1>10, <1>14, <1>15, <3>1 DEF Digest
    <3>3. D \in ToSet(d)
      BY <3>2 DEF ToSet
    <3>4. Roomy(D)
      BY <1>19, <1>20, <3>3, LineRoomIs
    <3>5. QED
      BY <3>2, <3>4 DEF Roomy
  <2>2. ASSUME NEW m \in ToSet(x) PROVE Roomy(m)
    <3>1. PICK i \in DOMAIN x : m = x[i]
      BY DEF ToSet
    <3>2. i \in 1 .. Len(x)
      BY <1>8, LenProperties
    <3>3. Len(LinesOf(x[i])) <= Len(Flat(x)) /\ Len(LinesOf(x[i])) \in Nat
      BY <1>8, <3>2, LinesFit
    <3>4. m.is = "digest" => LinesOf(m) = m.calls
      BY DEF LinesOf
    <3>5. Len(LinesOf(m)) <= l /\ Len(LinesOf(m)) \in Nat
      BY <1>14, <3>1, <3>3 DEF f
    <3>6. QED
      BY <1>14, <1>15, <2>1, <3>4, <3>5 DEF Roomy
  <2>3. \A m \in ToSet(a) \cup ToSet(r) : Roomy(m)
    BY <1>19, <1>20, LineRoomIs
  <2>4. LineRoom(ms)
    BY <1>19, <2>2, <2>3, LineRoomIs
  <2>5. q = 0
    BY <1>14, <1>16, <1>15, <2>1
  <2>6. QED
    BY <2>4, <2>5
<1>21. QED
  BY <1>18, <1>20

\* A trim never cuts off the last assistant message.
LEMMA TrimEnds ==
  ASSUME NEW ms \in Seq(LoopMessages), NEW t, NEW h \in {0, 1}, NEW k \in Nat, NEW e \in Nat, NEW ran,
         TrimLeaves(t, ms, h, k), Keeps(t, ms, h, e, k), EndsWith(ms, ran)
  PROVE  EndsWith(t, ran)
<1>1. SUFFICES ASSUME ran # <<>>
               PROVE  \E i \in DOMAIN t : /\ t[i].role = "ai" /\ t[i].calls # <<>> /\ Last(t[i].calls) = Last(ran)
                                          /\ \A j \in DOMAIN t : j > i => t[j].role # "ai"
  BY DEF EndsWith
<1>2. PICK n \in Nat : n = Len(ms) /\ DOMAIN ms = 1 .. n
  BY LenProperties
<1>3. PICK i \in 1 .. n : /\ ms[i].role = "ai" /\ ms[i].calls # <<>> /\ Last(ms[i].calls) = Last(ran)
                          /\ \A j \in 1 .. n : j > i => ms[j].role # "ai"
  BY <1>1, <1>2 DEF EndsWith
<1>4. /\ t \in Seq(LoopMessages) /\ h <= e /\ k \in 0 .. n /\ h <= k /\ Len(t) = e + (n - k) /\ h \in Nat
      /\ \A j \in 1 .. e : t[j].role = "human"
      /\ \A j \in 1 .. h : ms[j].role = "human"
      /\ \A j \in 1 .. n - k : t[e + j] = ms[k + j]
  BY <1>2 DEF Keeps
<1>5. h = KeptHead(ms) /\ \A j \in CutPoints(ms, h) : Assistants(After(ms, j)) <= 1 => k <= j
  BY DEF TrimLeaves
<1>6. ~(i <= h)
  <2>1. i <= h => i \in 1 .. h
    BY <1>4
  <2>2. QED
    BY <1>3, <1>4, <2>1
<1>7. i - 1 \in CutPoints(ms, h)
  <2>1. i - 1 \in h .. n /\ (i - 1) + 1 = i
    BY <1>4, <1>6
  <2>2. QED
    BY <1>2, <1>3, <2>1 DEF CutPoints
<1>8. Assistants(After(ms, i - 1)) = 1
  <2> DEFINE a == After(ms, i - 1)
  <2>1. i - 1 \in 0 .. Len(ms)
    BY <1>2
  <2>2. a \in Seq(LoopMessages) /\ Len(a) = n - (i - 1) /\ \A j \in 1 .. n - (i - 1) : a[j] = ms[(i - 1) + j]
    BY <1>2, <2>1, AfterIs
  <2> HIDE DEF a
  <2>3. DOMAIN a = 1 .. n - (i - 1)
    BY <2>2, LenProperties
  <2>4. ASSUME NEW j \in 1 .. n - (i - 1) PROVE a[j].role = "ai" <=> j = 1
    <3>1. (i - 1) + j \in 1 .. n /\ ((i - 1) + j > i <=> j # 1) /\ (j = 1 => (i - 1) + j = i)
      OBVIOUS
    <3>2. QED
      BY <1>3, <2>2, <3>1
  <2>5. 1 \in 1 .. n - (i - 1)
    OBVIOUS
  <2>6. {j \in DOMAIN a : a[j].role = "ai"} = {1}
    BY <2>3, <2>4, <2>5
  <2>7. Assistants(a) = 1
    BY <2>6, FS_Singleton DEF Assistants
  <2>8. QED
    BY <2>7 DEF a
<1>9. k <= i - 1
  BY <1>5, <1>7, <1>8
<1>10. PICK l \in 1 .. n - k : i = k + l
  <2>1. i - k \in 1 .. n - k /\ i = k + (i - k)
    BY <1>4, <1>9
  <2>2. QED
    BY <2>1
<1>11. t[e + l] = ms[i] /\ DOMAIN t = 1 .. e + (n - k) /\ e + l \in 1 .. e + (n - k)
  BY <1>4, <1>10, LenProperties
<1>12. ASSUME NEW j \in 1 .. e + (n - k), j > e + l PROVE t[j].role # "ai"
  <2>1. j - e \in 1 .. n - k /\ e + (j - e) = j /\ k + (j - e) \in 1 .. n /\ k + (j - e) > i
    BY <1>4, <1>10, <1>12
  <2>2. t[j] = ms[k + (j - e)]
    BY <1>4, <2>1
  <2>3. QED
    BY <1>3, <2>1, <2>2
<1>13. QED
  BY <1>3, <1>11, <1>12

\* A trimmed context may be sent, ends with the newest exchange, and begins with
\* the first question.
LEMMA TrimKeeps ==
  ASSUME NEW ms, NEW ran \in Seq(Calls), NEW c, Sendable(ms, ran)
  PROVE  /\ Sendable(Trim(ms, c), ran)
         /\ EndsWith(ms, ran) => EndsWith(Trim(ms, c), ran)
         /\ FirstAsked(ms) => FirstAsked(Trim(ms, c))
<1>1. ms \in Seq(LoopMessages) /\ Paired(ms) /\ Recalls(Flat(ms), ran) /\ (LineRoom(ms) => ToSet(ran) \subseteq ToSet(Flat(ms)))
  BY DEF Sendable
<1> DEFINE t == Trim(ms, c)
<1>2. t = ms \/ \E h \in {0, 1}, k \in Nat : TrimLeaves(t, ms, h, k)
  BY <1>1, TrimIs
<1> HIDE DEF t
<1>3. ASSUME NEW h \in {0, 1}, NEW k \in Nat, TrimLeaves(t, ms, h, k)
      PROVE  /\ Sendable(t, ran)
             /\ EndsWith(ms, ran) => EndsWith(t, ran)
             /\ FirstAsked(ms) => FirstAsked(t)
  <2>1. PICK e \in Nat : Keeps(t, ms, h, e, k)
    BY <1>1, <1>3, TrimMessages
  <2>2. PICK q \in 0 .. Len(Flat(ms)) : Flat(t) = After(Flat(ms), q) /\ (LineRoom(t) => q = 0 /\ LineRoom(ms))
    BY <1>1, <1>3, TrimLines
  <2>3. Recalls(Flat(t), ran)
    BY <1>1, <2>2, RecallsLess
  <2>4. /\ t \in Seq(LoopMessages) /\ k \in 0 .. Len(ms) /\ Len(t) = e + (Len(ms) - k)
        /\ \A i \in 1 .. e : t[i].role = "human"
        /\ \A j \in 1 .. Len(ms) - k : t[e + j] = ms[k + j]
        /\ k < Len(ms) => ms[k + 1].role # "tool"
    BY <2>1 DEF Keeps
  <2>5. Paired(t)
    BY <1>1, <2>4, PairedShift
  <2>6. LineRoom(t) => ToSet(ran) \subseteq ToSet(Flat(t))
    <3>1. Flat(ms) \in Seq(Lines)
      BY <1>1 DEF Recalls
    <3>2. q = 0 => Flat(t) = Flat(ms)
      BY <2>2, <3>1, AfterNone
    <3>3. QED
      BY <1>1, <2>2, <3>2
  <2>7. EndsWith(ms, ran) => EndsWith(t, ran)
    BY <1>1, <1>3, <2>1, TrimEnds
  <2>8. ASSUME FirstAsked(ms), older = 0 PROVE t # <<>> /\ t[1] = Human("question")
    <3>1. ms[1] = Human("question")
      BY <2>8 DEF FirstAsked
    <3>2. h = 1
      BY <1>3, <3>1 DEF TrimLeaves, KeptHead, Human
    <3>3. t[1] = ms[1] /\ e >= 1
      BY <2>1, <3>2 DEF Keeps
    <3>4. Len(t) # 0
      <4>1. Len(ms) \in Nat
        BY <1>1, LenProperties
      <4>2. QED
        BY <2>4, <3>3, <4>1
    <3>5. QED
      BY <3>1, <3>3, <3>4
  <2>9. FirstAsked(ms) => FirstAsked(t)
    BY <2>8 DEF FirstAsked
  <2>10. Sendable(t, ran)
    BY <2>3, <2>4, <2>5, <2>6 DEF Sendable
  <2>11. QED
    BY <2>7, <2>9, <2>10
<1>4. QED
  BY <1>2, <1>3 DEF t

\* The calls that can still be told are the lines, but for the notes.
LEMMA ToldIs ==
  ASSUME NEW ms \in Seq(LoopMessages), Paired(ms)
  PROVE  \A c : c \in Told(ms) <=> c \in ToSet(Flat(ms)) /\ c # Note
<1>1. PICK n \in Nat : n = Len(ms) /\ DOMAIN ms = 1 .. n
  BY LenProperties
<1>2. ASSUME NEW i \in 1 .. n
      PROVE  /\ ms[i] \in LoopMessages /\ ms[i].calls \in Seq(Lines) /\ ms[i].role \in {"human", "ai", "tool"}
             /\ ms[i].is = "digest" => ms[i].role = "human"
  <2>1. ms[i] \in LoopMessages
    BY <1>1, ElementOfSeq
  <2>2. QED
    BY <2>1 DEF LoopMessages
<1>3. \A c : c \in Told(ms) <=> c # Note /\ \E i \in 1 .. n : (ms[i].role = "tool" \/ ms[i].is = "digest") /\ c \in ToSet(ms[i].calls)
  <2>1. PICK I : I = {j \in DOMAIN ms : ms[j].role = "tool" \/ ms[j].is = "digest"}
    OBVIOUS
  <2>2. Told(ms) = (UNION {ToSet(ms[i].calls) : i \in I}) \ {Note}
    BY <2>1 DEF Told
  <2>3. \A c : c \in Told(ms) <=> c # Note /\ \E i \in I : c \in ToSet(ms[i].calls)
    BY <2>2
  <2>4. QED
    BY <1>1, <2>1, <2>3
<1>4. \A c : c \in ToSet(Flat(ms)) <=> \E i \in 1 .. n : c \in ToSet(LinesOf(ms[i]))
  BY <1>1, FlatLines
<1>5. ASSUME NEW i \in 1 .. n, ms[i].role = "tool", NEW c \in ToSet(ms[i].calls)
      PROVE  \E l \in 1 .. n : c \in ToSet(LinesOf(ms[l]))
  <2> DEFINE N == {d \in Nat : d < i /\ ms[i - d].role # "tool"}
  <2>1. N \in SUBSET Nat /\ N # {}
    <3>1. i > 1 /\ ms[i - 1].role # "human"
      BY <1>1, <1>5 DEF Paired
    <3>2. ms[1].role # "tool"
      <4>1. ms # <<>>
        BY <1>1, EmptySeq
      <4>2. QED
        BY <4>1, PairedFirst
    <3>3. i - 1 \in Nat /\ i - 1 < i /\ i - (i - 1) = 1
      BY <3>1
    <3>4. i - 1 \in N
      BY <3>2, <3>3
    <3>5. QED
      BY <3>4
  <2> HIDE DEF N
  <2>2. PICK d \in N : \A x \in N : d <= x
    BY <2>1, LeastNat
  <2>3. d \in Nat /\ d < i /\ ms[i - d].role # "tool" /\ d # 0 /\ \A x \in Nat : x < d => ms[i - x].role = "tool"
    <3>1. d \in Nat /\ d < i /\ ms[i - d].role # "tool"
      BY <2>2 DEF N
    <3>2. d # 0
      <4>1. d = 0 => i - d = i
        OBVIOUS
      <4>2. QED
        BY <1>5, <3>1, <4>1
    <3>3. ASSUME NEW x \in Nat, x < d PROVE ms[i - x].role = "tool"
      <4>1. x \notin N
        BY <2>2, <3>1, <3>3
      <4>2. x < i
        BY <3>1, <3>3
      <4>3. QED
        BY <4>1, <4>2 DEF N
    <3>4. QED
      BY <3>1, <3>2, <3>3
  <2>4. PICK a \in 1 .. n : a = i - d /\ a + d = i /\ a + 1 \in 1 .. n /\ ms[a + 1].role = "tool"
    <3>1. i - d \in 1 .. n /\ (i - d) + d = i /\ (i - d) + 1 \in 1 .. n /\ d - 1 \in Nat /\ d - 1 < d /\ i - (d - 1) = (i - d) + 1
      BY <2>3
    <3>2. QED
      BY <2>3, <3>1
  <2>5. ms[a].role = "ai"
    <3>1. (a + 1) - 1 = a
      OBVIOUS
    <3>2. ms[a].role # "human"
      BY <1>1, <2>4, <3>1 DEF Paired
    <3>3. QED
      BY <1>2, <2>3, <2>4, <3>2
  <2>6. PICK q \in Nat : q = Len(ms[a].calls) /\ DOMAIN ms[a].calls = 1 .. q
    BY <1>2, LenProperties
  <2>7. /\ \A j \in 1 .. q : ms[a + j] = Result(ms[a].calls[j])
        /\ a + q < n => ms[a + q + 1].role # "tool"
    BY <1>1, <2>5, <2>6 DEF Paired
  <2>8. d <= q
    <3>1. SUFFICES ASSUME q < d PROVE FALSE
      BY <2>3, <2>6
    <3>2. a + q < n /\ d - (q + 1) \in Nat /\ d - (q + 1) < d /\ i - (d - (q + 1)) = a + q + 1
      BY <2>3, <2>4, <3>1
    <3>3. QED
      BY <2>3, <2>7, <3>2
  <2>9. d \in 1 .. q /\ ms[i] = Result(ms[a].calls[d])
    BY <2>3, <2>4, <2>7, <2>8
  <2>10. c = ms[a].calls[d]
    <3>1. ms[i].calls = <<ms[a].calls[d]>>
      BY <2>9 DEF Result
    <3>2. \A y : ToSet(<<y>>) = {y}
      BY DEF ToSet
    <3>3. QED
      BY <1>5, <3>1, <3>2
  <2>11. LinesOf(ms[a]) = ms[a].calls
    <3>1. ms[a].calls # <<>>
      BY <2>6, <2>9
    <3>2. ms[a].is # "digest"
      BY <1>2, <2>5
    <3>3. QED
      BY <2>5, <3>1, <3>2 DEF LinesOf
  <2>12. c \in ToSet(ms[a].calls)
    BY <2>6, <2>9, <2>10 DEF ToSet
  <2>13. QED
    BY <2>11, <2>12
<1>6. ASSUME NEW i \in 1 .. n, NEW c \in ToSet(LinesOf(ms[i])), c # Note
      PROVE  \E l \in 1 .. n : (ms[l].role = "tool" \/ ms[l].is = "digest") /\ c \in ToSet(ms[l].calls)
  <2>1. CASE ms[i].is = "digest"
    <3>1. LinesOf(ms[i]) = ms[i].calls
      BY <2>1 DEF LinesOf
    <3>2. QED
      BY <1>6, <2>1, <3>1
  <2>2. CASE ms[i].is # "digest"
    <3>1. ToSet(<<>>) = {} /\ ToSet(<<Note>>) = {Note}
      BY DEF ToSet
    <3>2. ms[i].role = "ai" /\ LinesOf(ms[i]) = ms[i].calls
      BY <1>6, <2>2, <3>1 DEF LinesOf
    <3>3. PICK q \in Nat : q = Len(ms[i].calls) /\ DOMAIN ms[i].calls = 1 .. q
      BY <1>2, LenProperties
    <3>4. PICK j \in 1 .. q : c = ms[i].calls[j]
      BY <1>6, <3>2, <3>3 DEF ToSet
    <3>5. i + q <= n /\ ms[i + j] = Result(c)
      BY <1>1, <3>2, <3>3, <3>4 DEF Paired
    <3>6. i + j \in 1 .. n
      BY <3>5
    <3>7. ms[i + j].role = "tool" /\ ms[i + j].calls = <<c>>
      BY <3>5 DEF Result
    <3>8. c \in ToSet(<<c>>)
      BY DEF ToSet
    <3>9. QED
      BY <3>6, <3>7, <3>8
  <2>3. QED
    BY <2>1, <2>2
<1>7. ASSUME NEW c, c \in Told(ms) PROVE c \in ToSet(Flat(ms)) /\ c # Note
  <2>1. PICK i \in 1 .. n : (ms[i].role = "tool" \/ ms[i].is = "digest") /\ c \in ToSet(ms[i].calls)
    BY <1>3, <1>7
  <2>2. ms[i].is = "digest" => LinesOf(ms[i]) = ms[i].calls
    BY DEF LinesOf
  <2>3. \E l \in 1 .. n : c \in ToSet(LinesOf(ms[l]))
    BY <1>5, <2>1, <2>2
  <2>4. QED
    BY <1>3, <1>4, <1>7, <2>3
<1>8. ASSUME NEW c, c \in ToSet(Flat(ms)), c # Note PROVE c \in Told(ms)
  BY <1>3, <1>4, <1>6, <1>8
<1>9. QED
  BY <1>7, <1>8

\* The result of the last call ran is in the newest exchange.
LEMMA LastTold ==
  ASSUME NEW ms \in Seq(LoopMessages), NEW ran, Paired(ms), EndsWith(ms, ran), ran # <<>>
  PROVE  \E j \in DOMAIN ms : ms[j] = Result(Last(ran))
<1>1. PICK n \in Nat : n = Len(ms) /\ DOMAIN ms = 1 .. n
  BY LenProperties
<1>2. PICK i \in 1 .. n : ms[i].role = "ai" /\ ms[i].calls # <<>> /\ Last(ms[i].calls) = Last(ran)
  BY <1>1 DEF EndsWith
<1>3. ms[i].calls \in Seq(Lines)
  <2>1. ms[i] \in LoopMessages
    BY <1>1, ElementOfSeq
  <2>2. QED
    BY <2>1 DEF LoopMessages
<1>4. PICK q \in Nat \ {0} : q = Len(ms[i].calls)
  BY <1>2, <1>3, EmptySeq
<1>5. i + q <= n /\ \A j \in 1 .. q : ms[i + j] = Result(ms[i].calls[j])
  BY <1>1, <1>2, <1>4 DEF Paired
<1>6. q \in 1 .. q /\ i + q \in 1 .. n /\ Last(ms[i].calls) = ms[i].calls[q]
  BY <1>4, <1>5 DEF Last
<1>7. QED
  BY <1>1, <1>2, <1>5, <1>6

\* The calls that can be told are the latest ones, all of them while there is room.
LEMMA SoundIs ==
  ASSUME NEW ms, told \in Seq(Calls), \A i, j \in DOMAIN told : i < j => Before(told[i], told[j]), Sendable(ms, told)
  PROVE  Sound(ms)
<1>1. PICK n \in Nat : n = Len(told) /\ DOMAIN told = 1 .. n
  BY LenProperties
<1>2. ms \in Seq(LoopMessages) /\ Paired(ms) /\ Recalls(Flat(ms), told) /\ (LineRoom(ms) => ToSet(told) \subseteq ToSet(Flat(ms)))
  BY DEF Sendable
<1> DEFINE F == Told(ms)
<1>3. \A c : c \in F <=> c \in ToSet(Flat(ms)) /\ c # Note
  BY <1>2, ToldIs
<1> HIDE DEF F
<1>4. /\ \A c \in F : c \in ToSet(told)
      /\ \A c \in F, d \in ToSet(told) : Before(c, d) => d \in ToSet(Flat(ms))
  BY <1>2, <1>3 DEF Recalls
<1>5. \A d \in ToSet(told) : d # Note
  BY ToSetFinite, NoteIsNone
<1>6. \A j \in 1 .. n : told[j] \in ToSet(told)
  BY <1>1 DEF ToSet
<1>7. \A c \in ToSet(told) : \E j \in 1 .. n : c = told[j]
  BY <1>1 DEF ToSet
<1> DEFINE N == {i \in 0 .. n : \A j \in 1 .. n : j > i => told[j] \in F}
<1>8. N \in SUBSET Nat /\ n \in N
  OBVIOUS
<1>9. PICK i \in N : \A x \in N : i <= x
  BY <1>8, LeastNat
<1>10. i \in 0 .. n /\ \A j \in 1 .. n : j > i => told[j] \in F
  OBVIOUS
<1>11. \A x \in 0 .. n : (\A j \in 1 .. n : j > x => told[j] \in F) => i <= x
  BY <1>9
<1> HIDE DEF N
<1>12. ASSUME NEW j \in 1 .. n, told[j] \in F PROVE j > i
  <2>1. ASSUME NEW l \in 1 .. n, l > j - 1 PROVE told[l] \in F
    <3>1. l = j \/ j < l
      BY <2>1
    <3>2. j < l => told[l] \in F
      BY <1>1, <1>3, <1>4, <1>5, <1>6, <1>12
    <3>3. QED
      BY <1>12, <3>1, <3>2
  <2>2. j - 1 \in 0 .. n
    OBVIOUS
  <2>3. i <= j - 1
    BY <1>11, <2>1, <2>2
  <2>4. QED
    BY <1>10, <2>3
<1>13. F = ToSet(SubSeq(told, i + 1, Len(told)))
  <2> DEFINE r == After(told, i)
  <2>1. i \in 0 .. Len(told)
    BY <1>1, <1>10
  <2>2. r \in Seq(Calls) /\ Len(r) = n - i /\ \A l \in 1 .. n - i : r[l] = told[i + l]
    BY <1>1, <2>1, AfterIs
  <2>3. r = SubSeq(told, i + 1, Len(told))
    BY DEF After
  <2> HIDE DEF r
  <2>4. DOMAIN r = 1 .. n - i
    BY <2>2, LenProperties
  <2>5. ASSUME NEW c \in F PROVE c \in ToSet(r)
    <3>1. PICK j \in 1 .. n : c = told[j]
      BY <1>4, <1>7
    <3>2. j > i
      BY <1>12, <3>1
    <3>3. j - i \in 1 .. n - i /\ i + (j - i) = j
      BY <1>10, <3>2
    <3>4. r[j - i] = c
      BY <2>2, <3>1, <3>3
    <3>5. QED
      BY <2>4, <3>3, <3>4 DEF ToSet
  <2>6. ASSUME NEW c \in ToSet(r) PROVE c \in F
    <3>1. PICK l \in 1 .. n - i : c = told[i + l]
      BY <2>2, <2>4 DEF ToSet
    <3>2. i + l \in 1 .. n /\ i + l > i
      BY <1>10
    <3>3. QED
      BY <1>10, <3>1, <3>2
  <2>7. QED
    BY <2>3, <2>5, <2>6
<1>14. i > 0 => ~LineRoom(ms)
  <2>1. SUFFICES ASSUME LineRoom(ms) PROVE ~(i > 0)
    OBVIOUS
  <2>2. \A j \in 1 .. n : told[j] \in F
    BY <1>2, <1>3, <1>5, <1>6, <2>1
  <2>3. i <= 0
    BY <1>11, <2>2
  <2>4. QED
    BY <1>10, <2>3
<1>15. QED
  BY <1>1, <1>2, <1>10, <1>13, <1>14 DEF Sound, F

\* Whatever is sent of a context that may be sent may be sent too.
LEMMA FittedKeeps ==
  ASSUME NEW ms, NEW ran \in Seq(Calls), Sendable(ms, ran), NEW f \in Fitted(ms)
  PROVE  /\ Sendable(f, ran)
         /\ EndsWith(ms, ran) => EndsWith(f, ran)
         /\ FirstAsked(ms) => FirstAsked(f)
<1> DEFINE Good(x) == /\ Sendable(x, ran)
                      /\ EndsWith(ms, ran) => EndsWith(x, ran)
                      /\ FirstAsked(ms) => FirstAsked(x)
           once == {ms} \cup {Trim(ms, c) : c \in Caps}
<1>1. ASSUME NEW x, Good(x), NEW c PROVE Good(Trim(x, c))
  BY <1>1, TrimKeeps
<1>2. Good(ms)
  OBVIOUS
<1> HIDE DEF Good
<1>3. \A x \in once : Good(x)
  BY <1>1, <1>2
<1>4. \A x \in once, c \in Caps : Good(Trim(x, c))
  BY <1>1, <1>3
<1>5. f \in once \/ \E x \in once, c \in Caps : f = Trim(x, c)
  BY DEF Fitted
<1>6. Good(f)
  BY <1>3, <1>4, <1>5
<1>7. QED
  BY <1>6 DEF Good
NextNew(g, s, i) ==
  IF i = 0 THEN <<>> ELSE IF Ran(s[i].key) THEN g[i - 1] ELSE Append(g[i - 1], s[i])
NewUpTo(g, s, n) == g = [i \in 0 .. n |-> NextNew(g, s, i)]

\* What Batch unfolds to.
LEMMA BatchUnfolds ==
  ASSUME NEW r
  PROVE  Batch(r) = (CHOOSE g : NewUpTo(g, Allowed(r), Len(Allowed(r))))[Len(Allowed(r))]
  BY DEF Batch, NewUpTo, NextNew

\* Its prefixes exist.
LEMMA BatchExists == ASSUME NEW s, NEW m \in Nat PROVE \E g : NewUpTo(g, s, m)
<1> DEFINE P(n) == \E g : NewUpTo(g, s, n)
           I == {n \in Nat : P(n)}
<1>1. 0 \in I
  <2> DEFINE g == [i \in 0 .. 0 |-> <<>>]
  <2>1. NewUpTo(g, s, 0)
    BY DEF NewUpTo, NextNew
  <2> HIDE DEF g
  <2>2. QED
    BY <2>1
<1>2. ASSUME NEW n \in I PROVE n + 1 \in I
  <2>1. PICK g : g = [i \in 0 .. n |-> NextNew(g, s, i)]
    BY DEF NewUpTo
  <2> DEFINE h == [i \in 0 .. n + 1 |-> NextNew(g, s, i)]
  <2>2. ASSUME NEW i \in 0 .. n + 1 PROVE NextNew(g, s, i) = NextNew(h, s, i)
    <3>1. CASE i = 0
      BY <3>1 DEF NextNew
    <3>2. CASE i # 0
      <4>1. i - 1 \in 0 .. n /\ i - 1 \in 0 .. n + 1
        BY <3>2
      <4>2. h[i - 1] = g[i - 1]
        BY <2>1, <4>1, Zenon
      <4> HIDE DEF h
      <4>3. QED
        BY <3>2, <4>2 DEF NextNew
    <3>3. QED
      BY <3>1, <3>2
  <2>3. h = [i \in 0 .. n + 1 |-> NextNew(h, s, i)]
    BY <2>2, Zenon
  <2> HIDE DEF h
  <2>4. P(n + 1)
    BY <2>3 DEF NewUpTo
  <2>5. QED
    BY <2>4
<1> HIDE DEF P
<1>3. I \in SUBSET Nat
  OBVIOUS
<1>4. Nat \subseteq I
  <2> HIDE DEF I
  <2>1. QED
    BY <1>1, <1>2, <1>3, NatInd
<1>5. QED
  BY <1>4 DEF P

(* New calls of one reply, in their order, the last no later than m.       *)
NewCalls(b, m) ==
  /\ b \in Seq(Calls) /\ Len(b) <= m
  /\ \A x \in DOMAIN b : b[x].n = asks + 1 /\ b[x].i <= m /\ ~Ran(b[x].key)
  /\ \A x, y \in DOMAIN b : x < y => b[x].i < b[y].i

\* A batch runs no more than the turn may still run, and nothing that ran.
LEMMA BatchIs ==
  ASSUME NEW r \in Reply, asks \in Nat, actions \in Nat, actions < MaxActions
  PROVE  NewCalls(Batch(r), MaxActions - actions)
<1>1. PICK k \in Nat : k = Len(r.calls) /\ \A i \in 1 .. k : r.calls[i] \in Callable
  <2>1. PICK k \in 0 .. 2 : r.calls \in [1 .. k -> Callable]
    BY DEF Reply
  <2>2. r.calls \in Seq(Callable) /\ Len(r.calls) = k
    BY <2>1
  <2>3. QED
    BY <2>1, <2>2
<1>2. MaxActions \in Nat
  BY AgentAssumption
<1>3. PICK m \in Nat : m = (IF k < MaxActions - actions THEN k ELSE MaxActions - actions)
                       /\ m <= k /\ m <= MaxActions - actions
  BY <1>2
<1> DEFINE s == Allowed(r)
<1>4. s = [i \in 1 .. m |-> [n |-> asks + 1, i |-> i, key |-> r.calls[i]]]
  BY <1>1, <1>3 DEF Allowed
<1> HIDE DEF s
<1>5. ASSUME NEW i \in 1 .. m PROVE s[i] \in Calls /\ s[i].n = asks + 1 /\ s[i].i = i
  <2>1. r.calls[i] \in Callable
    BY <1>1, <1>3
  <2>2. s[i] = [n |-> asks + 1, i |-> i, key |-> r.calls[i]]
    BY <1>4
  <2>3. asks + 1 \in Nat \ {0} /\ i \in Nat \ {0}
    OBVIOUS
  <2>4. QED
    BY <2>1, <2>2, <2>3 DEF Calls
<1>6. Len(s) = m
  BY <1>4
<1> DEFINE c == CHOOSE g : NewUpTo(g, s, m)
<1>7. NewUpTo(c, s, m)
  BY BatchExists
<1>8. Batch(r) = c[m]
  BY <1>6, BatchUnfolds DEF s
<1> HIDE DEF c
<1>9. \A n \in 0 .. m : c[n] = NextNew(c, s, n)
  BY <1>7 DEF NewUpTo
<1> DEFINE I == {n \in Nat : n <= m => NewCalls(c[n], n)}
<1>10. 0 \in I
  <2>1. c[0] = <<>>
    <3>1. 0 \in 0 .. m
      OBVIOUS
    <3>2. QED
      BY <1>9, <3>1 DEF NextNew
  <2>2. <<>> \in Seq(Calls) /\ Len(<<>>) = 0 /\ DOMAIN <<>> = {}
    BY EmptySeq
  <2>3. NewCalls(<<>>, 0)
    BY <2>2 DEF NewCalls
  <2>4. QED
    BY <2>1, <2>3
<1>11. ASSUME NEW n \in I PROVE n + 1 \in I
  <2>1. SUFFICES ASSUME n + 1 <= m PROVE NewCalls(c[n + 1], n + 1)
    OBVIOUS
  <2>2. n \in Nat /\ n + 1 \in 1 .. m /\ n + 1 \in 0 .. m /\ (n + 1) - 1 = n /\ n + 1 # 0
    BY <2>1
  <2>3. NewCalls(c[n], n)
    BY <2>1, <2>2
  <2>4. c[n + 1] = IF Ran(s[n + 1].key) THEN c[n] ELSE Append(c[n], s[n + 1])
    BY <1>9, <2>2 DEF NextNew
  <2>5. PICK b : b = c[n]
    OBVIOUS
  <2>6. PICK e : e = s[n + 1]
    OBVIOUS
  <2>7. b \in Seq(Calls)
    BY <2>3, <2>5 DEF NewCalls
  <2>8. PICK l \in Nat : l = Len(b) /\ DOMAIN b = 1 .. l
    BY <2>7, LenProperties
  <2>9. b = c[n] /\ e = s[n + 1] /\ l = Len(b) /\ l \in Nat /\ DOMAIN b = 1 .. l
    BY <2>5, <2>6, <2>8
  <2>10. /\ b \in Seq(Calls) /\ l <= n
         /\ \A x \in 1 .. l : b[x].n = asks + 1 /\ b[x].i <= n /\ ~Ran(b[x].key)
         /\ \A x, y \in 1 .. l : x < y => b[x].i < b[y].i
    BY <2>3, <2>9 DEF NewCalls
  <2>11. \A x \in 1 .. l : b[x].i \in Nat
    <3>1. \A x \in 1 .. l : b[x] \in Calls
      BY <2>9, <2>10, ElementOfSeq
    <3>2. QED
      BY <3>1 DEF Calls
  <2>12. e \in Calls /\ e.n = asks + 1 /\ e.i = n + 1
    BY <1>5, <2>2, <2>9
  <2>13. CASE Ran(e.key)
    <3>1. NewCalls(b, n + 1)
      <4>1. l <= n + 1
        BY <2>2, <2>9, <2>10
      <4>2. ASSUME NEW x \in 1 .. l PROVE b[x].i <= n + 1
        <5>1. b[x].i \in Nat /\ b[x].i <= n /\ n \in Nat
          BY <2>2, <2>10, <2>11
        <5>2. QED
          BY <5>1
      <4>3. QED
        BY <2>9, <2>10, <4>1, <4>2 DEF NewCalls
    <3>2. QED
      BY <2>4, <2>9, <2>13, <3>1
  <2>14. CASE ~Ran(e.key)
    <3> DEFINE a == Append(b, e)
    <3>1. a \in Seq(Calls) /\ Len(a) = l + 1 /\ a[l + 1] = e /\ \A x \in 1 .. l : a[x] = b[x]
      BY <2>9, <2>10, <2>12, AppendProperties
    <3> HIDE DEF a
    <3>2. DOMAIN a = 1 .. l + 1
      BY <3>1, LenProperties
    <3>3. \A x \in 1 .. l + 1 : x \in 1 .. l \/ x = l + 1
      OBVIOUS
    <3>4. \A x \in 1 .. l : b[x].i <= n + 1 /\ b[x].i < n + 1
      BY <2>2, <2>10, <2>11
    <3>5. ASSUME NEW x \in 1 .. l + 1 PROVE a[x].n = asks + 1 /\ a[x].i <= n + 1 /\ ~Ran(a[x].key)
      <4>1. CASE x \in 1 .. l
        BY <2>10, <3>1, <3>4, <4>1
      <4>2. CASE x = l + 1
        BY <2>2, <2>12, <2>14, <3>1, <4>2
      <4>3. QED
        BY <3>3, <4>1, <4>2
    <3>6. ASSUME NEW x \in 1 .. l + 1, NEW y \in 1 .. l + 1, x < y PROVE a[x].i < a[y].i
      <4>1. x \in 1 .. l
        BY <3>6
      <4>2. CASE y \in 1 .. l
        BY <2>10, <3>1, <3>6, <4>1, <4>2
      <4>3. CASE y = l + 1
        BY <2>12, <3>1, <3>4, <4>1, <4>3
      <4>4. QED
        BY <3>3, <4>2, <4>3
    <3>7. l + 1 <= n + 1
      BY <2>2, <2>10
    <3>8. NewCalls(a, n + 1)
      BY <3>1, <3>2, <3>5, <3>6, <3>7 DEF NewCalls
    <3>9. QED
      BY <2>4, <2>9, <2>14, <3>8 DEF a
  <2>15. QED
    BY <2>13, <2>14
<1>12. I \in SUBSET Nat
  OBVIOUS
<1>13. Nat \subseteq I
  <2> HIDE DEF I
  <2>1. QED
    BY <1>10, <1>11, <1>12, NatInd
<1>14. NewCalls(c[m], m)
  BY <1>13
<1>15. PICK b : b = c[m] /\ b \in Seq(Calls)
  BY <1>14 DEF NewCalls
<1>16. PICK l \in Nat : b = c[m] /\ l = Len(b) /\ DOMAIN b = 1 .. l /\ b \in Seq(Calls)
  BY <1>15, LenProperties
<1>17. \A x \in 1 .. l : b[x].i \in Nat
  <2>1. \A x \in 1 .. l : b[x] \in Calls
    BY <1>16, ElementOfSeq
  <2>2. QED
    BY <2>1 DEF Calls
<1>18. \A x \in 1 .. l : b[x].n = asks + 1 /\ b[x].i <= m /\ ~Ran(b[x].key)
  BY <1>14, <1>16 DEF NewCalls
<1>19. l <= m /\ \A x, y \in DOMAIN b : x < y => b[x].i < b[y].i
  BY <1>14, <1>16 DEF NewCalls
<1>20. l <= MaxActions - actions /\ \A x \in 1 .. l : b[x].i <= MaxActions - actions
  BY <1>2, <1>3, <1>17, <1>18, <1>19
<1>21. NewCalls(b, MaxActions - actions)
  BY <1>16, <1>18, <1>19, <1>20 DEF NewCalls
<1>22. QED
  BY <1>8, <1>16, <1>21

\* A list without an element is empty.
LEMMA NoElement == ASSUME NEW S, NEW f \in Seq(S), \A c : c \notin ToSet(f) PROVE f = <<>>
<1>1. PICK n \in Nat : n = Len(f) /\ DOMAIN f = 1 .. n
  BY LenProperties
<1>2. n = 0
  <2>1. SUFFICES ASSUME n # 0 PROVE FALSE
    OBVIOUS
  <2>2. 1 \in DOMAIN f
    BY <1>1, <2>1
  <2>3. f[1] \in ToSet(f)
    BY <2>2 DEF ToSet
  <2>4. QED
    BY <2>3
<1>3. QED
  BY <1>1, <1>2, EmptySeq

\* Lines of new calls, behind the lines there are.
LEMMA RecallsMore ==
  ASSUME NEW ran \in Seq(Calls), NEW f, Recalls(f, ran), NEW b \in Seq(Calls),
         \A x, y \in DOMAIN b : x < y => Before(b[x], b[y]),
         \A c \in ToSet(ran), d \in ToSet(b) : Before(c, d)
  PROVE  Recalls(f \o b, ran \o b)
<1>1. f \in Seq(Lines) /\ b \in Seq(Lines)
  BY DEF Recalls, Lines
<1>2. PICK m \in Nat, n \in Nat : m = Len(f) /\ n = Len(b) /\ DOMAIN f = 1 .. m /\ DOMAIN b = 1 .. n
  BY <1>1, LenProperties
<1> DEFINE g == f \o b  all == ran \o b
<1>3. g \in Seq(Lines) /\ ToSet(g) = ToSet(f) \cup ToSet(b)
  BY <1>1, ConcatSet
<1>4. all \in Seq(Calls) /\ ToSet(all) = ToSet(ran) \cup ToSet(b)
  BY ConcatSet
<1>5. g = f \o b
  OBVIOUS
<1> HIDE DEF g, all
<1>6. Len(g) = m + n /\ \A i \in 1 .. m + n : g[i] = IF i <= m THEN f[i] ELSE b[i - m]
  BY <1>1, <1>2, <1>5, JoinIs
<1>7. DOMAIN g = 1 .. m + n
  BY <1>3, <1>6, LenProperties
<1>8. \A x, y \in 1 .. m : x < y /\ f[x] # Note /\ f[y] # Note => Before(f[x], f[y])
  BY <1>2 DEF Recalls
<1>9. \A c \in ToSet(f) : c = Note \/ c \in ToSet(ran)
  BY DEF Recalls
<1>10. \A c \in ToSet(f), d \in ToSet(ran) : c # Note /\ Before(c, d) => d \in ToSet(f)
  BY DEF Recalls
<1>11. ASSUME NEW x \in 1 .. m + n, NEW y \in 1 .. m + n, x < y, g[x] # Note, g[y] # Note PROVE Before(g[x], g[y])
  <2>1. CASE y <= m
    <3>1. x \in 1 .. m /\ y \in 1 .. m
      BY <1>11, <2>1
    <3>2. g[x] = f[x] /\ g[y] = f[y]
      BY <1>6, <3>1
    <3>3. QED
      BY <1>8, <1>11, <3>1, <3>2
  <2>2. CASE ~(y <= m)
    <3>1. y - m \in 1 .. n
      BY <2>2
    <3>2. g[y] = b[y - m] /\ b[y - m] \in ToSet(b)
      BY <1>2, <1>6, <2>2, <3>1 DEF ToSet
    <3>3. CASE x <= m
      <4>1. g[x] = f[x] /\ x \in 1 .. m
        BY <1>6, <3>3
      <4>2. g[x] \in ToSet(ran)
        BY <1>2, <1>9, <1>11, <4>1 DEF ToSet
      <4>3. QED
        BY <3>2, <4>2
    <3>4. CASE ~(x <= m)
      <4>1. x - m \in 1 .. n /\ x - m < y - m
        BY <1>11, <3>4
      <4>2. g[x] = b[x - m]
        BY <1>6, <3>4
      <4>3. QED
        BY <1>2, <3>1, <3>2, <4>1, <4>2
    <3>5. QED
      BY <3>3, <3>4
  <2>3. QED
    BY <2>1, <2>2
<1>12. \A c \in ToSet(b) : c \in Calls
  BY ToSetFinite
<1>13. \A c \in ToSet(ran) : c \in Calls
  BY ToSetFinite
<1>14. \A c \in ToSet(g) : c = Note \/ c \in ToSet(all)
  BY <1>3, <1>4, <1>9
<1>15. ASSUME NEW c \in ToSet(g), NEW d \in ToSet(all), c # Note, Before(c, d) PROVE d \in ToSet(g)
  <2>1. CASE d \in ToSet(b)
    BY <1>3, <2>1
  <2>2. CASE d \in ToSet(ran)
    <3>1. CASE c \in ToSet(f)
      BY <1>3, <1>10, <1>15, <2>2, <3>1
    <3>2. CASE c \in ToSet(b)
      <4>1. Before(d, c) /\ c \in Calls /\ d \in Calls
        BY <1>12, <1>13, <2>2, <3>2
      <4>2. QED
        BY <1>15, <4>1, NoteIsNone
    <3>3. QED
      BY <1>3, <3>1, <3>2
  <2>3. QED
    BY <1>4, <2>1, <2>2
<1>16. Recalls(g, all)
  BY <1>3, <1>7, <1>11, <1>14, <1>15 DEF Recalls
<1>17. QED
  BY <1>16 DEF g, all

\* Notes recall nothing and may stand anywhere.
LEMMA RecallsNotes ==
  ASSUME NEW ran, NEW f, Recalls(f, ran), NEW g \in Seq(Lines), \A c \in ToSet(g) : c = Note
  PROVE  Recalls(f \o g, ran)
<1>1. f \in Seq(Lines)
  BY DEF Recalls
<1>2. PICK m \in Nat, n \in Nat : m = Len(f) /\ n = Len(g) /\ DOMAIN f = 1 .. m /\ DOMAIN g = 1 .. n
  BY <1>1, LenProperties
<1> DEFINE h == f \o g
<1>3. h \in Seq(Lines) /\ ToSet(h) = ToSet(f) \cup ToSet(g)
  BY <1>1, ConcatSet
<1>4. h = f \o g
  OBVIOUS
<1> HIDE DEF h
<1>5. Len(h) = m + n /\ \A i \in 1 .. m + n : h[i] = IF i <= m THEN f[i] ELSE g[i - m]
  BY <1>1, <1>2, <1>4, JoinIs
<1>6. DOMAIN h = 1 .. m + n
  BY <1>3, <1>5, LenProperties
<1>7. \A x, y \in 1 .. m : x < y /\ f[x] # Note /\ f[y] # Note => Before(f[x], f[y])
  BY <1>2 DEF Recalls
<1>8. \A c \in ToSet(f) : c = Note \/ c \in ToSet(ran)
  BY DEF Recalls
<1>9. \A c \in ToSet(f), d \in ToSet(ran) : c # Note /\ Before(c, d) => d \in ToSet(f)
  BY DEF Recalls
<1>10. ASSUME NEW x \in 1 .. m + n, h[x] # Note PROVE x \in 1 .. m /\ h[x] = f[x]
  <2>1. CASE ~(x <= m)
    <3>1. x - m \in 1 .. n
      BY <2>1
    <3>2. h[x] \in ToSet(g)
      BY <1>2, <1>5, <2>1, <3>1 DEF ToSet
    <3>3. QED
      BY <1>10, <3>2
  <2>2. QED
    BY <1>5, <2>1
<1>11. Recalls(h, ran)
  <2>1. \A x, y \in 1 .. m + n : x < y /\ h[x] # Note /\ h[y] # Note => Before(h[x], h[y])
    BY <1>7, <1>10
  <2>2. \A c \in ToSet(h) : c = Note \/ c \in ToSet(f)
    BY <1>3
  <2>3. \A c \in ToSet(h), d \in ToSet(ran) : c # Note /\ Before(c, d) => d \in ToSet(h)
    BY <1>3, <1>9, <2>2
  <2>4. QED
    BY <1>3, <1>6, <1>8, <2>1, <2>2, <2>3 DEF Recalls
<1>12. QED
  BY <1>11 DEF h

\* The first message stays the first.
LEMMA FirstStays ==
  ASSUME NEW a \in Seq(LoopMessages), NEW b \in Seq(LoopMessages), FirstAsked(a) PROVE FirstAsked(a \o b)
<1>1. PICK m \in Nat, n \in Nat : m = Len(a) /\ n = Len(b)
  BY LenProperties
<1>2. PICK c : c = a \o b
  OBVIOUS
<1>3. c \in Seq(LoopMessages) /\ Len(c) = m + n /\ \A i \in 1 .. m + n : c[i] = IF i <= m THEN a[i] ELSE b[i - m]
  BY <1>1, <1>2, JoinIs
<1>4. ASSUME a # <<>> PROVE c # <<>> /\ c[1] = a[1]
  <2>1. m # 0
    BY <1>1, <1>4, EmptySeq
  <2>2. 1 \in 1 .. m + n /\ 1 <= m /\ Len(c) # 0
    BY <1>3, <2>1
  <2>3. QED
    BY <1>3, <2>2
<1>5. QED
  BY <1>2, <1>4 DEF FirstAsked

\* Well formed messages may be sent behind those that may.
LEMMA SendableMore ==
  ASSUME NEW ms, NEW ran, Sendable(ms, ran), NEW b \in Seq(LoopMessages), Paired(b), NEW more,
         Recalls(Flat(ms) \o Flat(b), more), ToSet(more) \subseteq ToSet(ran) \cup ToSet(Flat(b))
  PROVE  Sendable(ms \o b, more)
<1>1. ms \in Seq(LoopMessages) /\ Paired(ms) /\ (LineRoom(ms) => ToSet(ran) \subseteq ToSet(Flat(ms)))
  BY DEF Sendable
<1>2. PICK c : c = ms \o b
  OBVIOUS
<1>3. c \in Seq(LoopMessages) /\ ToSet(c) = ToSet(ms) \cup ToSet(b)
  BY <1>1, <1>2, ConcatSet
<1>4. Paired(c)
  BY <1>1, <1>2, PairedConcat
<1>5. PICK f, g : f = Flat(ms) /\ g = Flat(b) /\ f \in Seq(Lines) /\ g \in Seq(Lines) /\ Flat(c) = f \o g
  BY <1>1, <1>2, FlatIs
<1>6. ToSet(f \o g) = ToSet(f) \cup ToSet(g)
  <2>1. f \in Seq(Lines) /\ g \in Seq(Lines)
    BY <1>5
  <2>2. QED
    BY <2>1, ConcatSet
<1>7. LineRoom(c) => LineRoom(ms)
  BY <1>3, LineRoomIs
<1>8. LineRoom(c) => ToSet(more) \subseteq ToSet(Flat(c))
  BY <1>1, <1>5, <1>6, <1>7
<1>9. Recalls(Flat(c), more)
  BY <1>5
<1>10. QED
  BY <1>2, <1>3, <1>4, <1>8, <1>9 DEF Sendable

\* An assistant message with the results of its calls.
LEMMA ExchangeIs ==
  ASSUME NEW b \in Seq(Calls), b # <<>>, NEW r
  PROVE  LET e == Exchange(r, b) IN
         /\ e \in Seq(LoopMessages) /\ Paired(e) /\ Flat(e) = b /\ Len(e) = 1 + Len(b)
         /\ e[1] = Says(b) /\ \A j \in 2 .. 1 + Len(b) : e[j].role = "tool"
<1>1. PICK n \in Nat : n = Len(b) /\ DOMAIN b = 1 .. n /\ \A j \in 1 .. n : b[j] \in Calls
  BY LenProperties, ElementOfSeq
<1>2. n # 0
  BY <1>1, EmptySeq
<1>3. ASSUME NEW c \in Calls PROVE Result(c) \in LoopMessages
  <2>1. <<c>> \in Seq(Calls) /\ <<c>> \in Seq(Lines)
    BY DEF Lines
  <2>2. QED
    BY <2>1 DEF Result, LoopMessages
<1>4. b \in Seq(Lines)
  BY DEF Lines
<1>5. Says(b) \in LoopMessages
  BY <1>4 DEF Says, LoopMessages
<1> DEFINE s == <<Says(b)>>  t == [i \in DOMAIN b |-> Result(b[i])]
<1>6. s \in Seq(LoopMessages) /\ Len(s) = 1 /\ s[1] = Says(b) /\ Flat(s) = b
  <2>1. Flat(s) = LinesOf(Says(b)) /\ s \in Seq(LoopMessages)
    BY <1>5, FlatFew
  <2>2. LinesOf(Says(b)) = b
    BY DEF LinesOf, Says
  <2>3. QED
    BY <2>1, <2>2
<1>7. t \in Seq(LoopMessages) /\ Len(t) = n /\ DOMAIN t = 1 .. n /\ \A j \in 1 .. n : t[j] = Result(b[j])
  <2>1. \A j \in 1 .. n : Result(b[j]) \in LoopMessages
    BY <1>1, <1>3
  <2>2. t = [j \in 1 .. n |-> Result(b[j])]
    BY <1>1
  <2>3. t \in [1 .. n -> LoopMessages]
    BY <2>1, <2>2
  <2>4. QED
    BY <2>2, <2>3
<1>8. PICK e : e = Exchange(r, b) /\ e = s \o t
  BY DEF Exchange, CallsKept
<1> HIDE DEF s, t
<1>9. e \in Seq(LoopMessages) /\ Len(e) = 1 + n /\ \A j \in 1 .. 1 + n : e[j] = IF j <= 1 THEN s[j] ELSE t[j - 1]
  <2>1. PICK z \in Nat : z = 1
    OBVIOUS
  <2>2. s \in Seq(LoopMessages) /\ t \in Seq(LoopMessages) /\ z = Len(s) /\ n = Len(t)
    BY <1>6, <1>7, <2>1
  <2>3. e = s \o t /\ z \in Nat /\ n \in Nat
    BY <1>8
  <2>4. /\ e \in Seq(LoopMessages) /\ Len(e) = z + n
        /\ \A j \in 1 .. z + n : e[j] = IF j <= z THEN s[j] ELSE t[j - z]
    BY <2>2, <2>3, JoinIs
  <2>5. QED
    BY <2>1, <2>4
<1>10. DOMAIN e = 1 .. 1 + n
  BY <1>9, LenProperties
<1>11. e[1] = Says(b)
  BY <1>6, <1>9
<1>12. ASSUME NEW j \in 1 .. n PROVE e[1 + j] = Result(b[j])
  <2>1. 1 + j \in 1 .. 1 + n /\ ~(1 + j <= 1) /\ (1 + j) - 1 = j
    OBVIOUS
  <2>2. QED
    BY <1>7, <1>9, <2>1
<1>13. \A i \in 1 .. 1 + n : i = 1 \/ (i - 1 \in 1 .. n /\ i = 1 + (i - 1))
  OBVIOUS
<1>14. \A c : Result(c).role = "tool"
  BY DEF Result
<1>15. Says(b).role = "ai" /\ Says(b).calls = b
  BY DEF Says
<1>16. ASSUME NEW i \in 1 .. 1 + n PROVE (e[i].role = "ai" <=> i = 1) /\ (e[i].role = "tool" <=> i # 1) /\ e[i].role # "human"
  BY <1>11, <1>12, <1>13, <1>14, <1>15
<1>17. Paired(e)
  <2>1. \A i \in 1 .. 1 + n : e[i].role = "tool" => i > 1 /\ e[i - 1].role # "human"
    <3>1. \A i \in 1 .. 1 + n : i # 1 => i > 1 /\ i - 1 \in 1 .. 1 + n
      OBVIOUS
    <3>2. QED
      BY <1>16, <3>1
  <2>2. /\ 1 + n <= Len(e)
        /\ \A j \in 1 .. n : e[1 + j] = Result(b[j])
        /\ ~(1 + n < Len(e))
    BY <1>9, <1>12
  <2>3. e[1].calls = b
    BY <1>11, <1>15
  <2>4. QED
    BY <1>1, <1>10, <1>16, <2>1, <2>2, <2>3 DEF Paired
<1>18. Flat(t) = <<>>
  <2>1. \A c : LinesOf(Result(c)) = <<>>
    BY DEF LinesOf, Result
  <2>2. ToSet(<<>>) = {}
    BY DEF ToSet
  <2>3. \A c : c \in ToSet(Flat(t)) <=> \E i \in DOMAIN t : c \in ToSet(LinesOf(t[i]))
    BY <1>7, FlatLines
  <2>4. \A c : c \notin ToSet(Flat(t))
    BY <1>7, <2>1, <2>2, <2>3
  <2>5. Flat(t) \in Seq(Lines)
    BY <1>6, <1>7, FlatIs
  <2>6. QED
    BY <2>4, <2>5, NoElement
<1>19. Flat(e) = b
  <2>1. Flat(s \o t) = Flat(s) \o Flat(t)
    BY <1>6, <1>7, FlatIs
  <2>2. b \o <<>> = b
    BY ConcatEmptySeq
  <2>3. QED
    BY <1>6, <1>8, <1>18, <2>1, <2>2
<1>20. \A j \in 2 .. 1 + n : e[j].role = "tool"
  BY <1>16
<1>21. QED
  BY <1>1, <1>8, <1>9, <1>11, <1>17, <1>19, <1>20

\* The calls that ran, with those of a new reply.
LEMMA RanMore ==
  ASSUME told \in Seq(Calls), asks \in Nat, OldestFirst(told), NotBeyond(told, asks), RanOnce(told),
         NEW b, NEW m, NewCalls(b, m)
  PROVE  /\ told \o b \in Seq(Calls) /\ OldestFirst(told \o b) /\ NotBeyond(told \o b, asks + 1) /\ RanOnce(told \o b)
         /\ \A x, y \in DOMAIN b : x < y => Before(b[x], b[y])
         /\ \A c \in ToSet(told), d \in ToSet(b) : Before(c, d)
         /\ b # <<>> => told \o b # <<>> /\ Last(told \o b) = Last(b)
<1>1. b \in Seq(Calls)
  BY DEF NewCalls
<1>2. PICK k \in Nat, n \in Nat : k = Len(told) /\ n = Len(b) /\ DOMAIN told = 1 .. k /\ DOMAIN b = 1 .. n
  BY <1>1, LenProperties
<1>3. PICK c : c = told \o b
  OBVIOUS
<1>4. c \in Seq(Calls) /\ Len(c) = k + n /\ \A i \in 1 .. k + n : c[i] = IF i <= k THEN told[i] ELSE b[i - k]
  BY <1>1, <1>2, <1>3, JoinIs
<1>5. DOMAIN c = 1 .. k + n
  BY <1>4, LenProperties
<1>6. /\ \A x \in 1 .. n : b[x].n = asks + 1 /\ ~Ran(b[x].key)
      /\ \A x, y \in 1 .. n : x < y => b[x].i < b[y].i
  BY <1>2 DEF NewCalls
<1>7. \A i \in 1 .. k : told[i] \in Calls /\ told[i].n \in Nat /\ told[i].n <= asks
  <2>1. \A i \in 1 .. k : told[i] \in Calls
    BY <1>2, ElementOfSeq
  <2>2. QED
    BY <1>2, <2>1 DEF Calls, NotBeyond
<1>8. \A i \in 1 .. k, x \in 1 .. n : Before(told[i], b[x]) /\ told[i].key # b[x].key
  <2>1. ASSUME NEW i \in 1 .. k, NEW x \in 1 .. n PROVE Before(told[i], b[x]) /\ told[i].key # b[x].key
    <3>1. told[i].n < b[x].n
      BY <1>6, <1>7
    <3>2. told[i].key # b[x].key
      BY <1>2, <1>6 DEF Ran
    <3>3. QED
      BY <3>1, <3>2 DEF Before
  <2>2. QED
    BY <2>1
<1>9. \A x, y \in 1 .. n : x < y => Before(b[x], b[y])
  BY <1>6 DEF Before
<1>10. ASSUME NEW i \in 1 .. k + n PROVE (i \in 1 .. k /\ c[i] = told[i]) \/ (~(i <= k) /\ i - k \in 1 .. n /\ c[i] = b[i - k])
  <2>1. CASE i <= k
    BY <1>4, <2>1
  <2>2. CASE ~(i <= k)
    <3>1. i - k \in 1 .. n
      BY <2>2
    <3>2. QED
      BY <1>4, <2>2, <3>1
  <2>3. QED
    BY <2>1, <2>2
<1>11. ASSUME NEW i \in 1 .. k + n, NEW j \in 1 .. k + n, i < j PROVE Before(c[i], c[j])
  <2>1. CASE i \in 1 .. k /\ c[i] = told[i]
    <3>1. CASE j \in 1 .. k /\ c[j] = told[j]
      BY <1>2, <1>11, <2>1, <3>1 DEF OldestFirst
    <3>2. CASE ~(j <= k) /\ j - k \in 1 .. n /\ c[j] = b[j - k]
      BY <1>8, <2>1, <3>2
    <3>3. QED
      BY <1>10, <3>1, <3>2
  <2>2. CASE ~(i <= k) /\ i - k \in 1 .. n /\ c[i] = b[i - k]
    <3>1. ~(j <= k) /\ i - k < j - k
      BY <1>11, <2>2
    <3>2. j - k \in 1 .. n /\ c[j] = b[j - k]
      BY <1>10, <3>1
    <3>3. QED
      BY <1>9, <2>2, <3>1, <3>2
  <2>3. QED
    BY <1>10, <2>1, <2>2
<1>12. ASSUME NEW i \in 1 .. k + n PROVE c[i].n <= asks + 1
  <2>1. CASE i \in 1 .. k /\ c[i] = told[i]
    BY <1>7, <2>1
  <2>2. CASE ~(i <= k) /\ i - k \in 1 .. n /\ c[i] = b[i - k]
    BY <1>6, <2>2
  <2>3. QED
    BY <1>10, <2>1, <2>2
<1>13. ASSUME NEW i \in 1 .. k + n, NEW j \in 1 .. k + n, c[i].key = c[j].key PROVE c[i].n = c[j].n
  <2>1. CASE i \in 1 .. k /\ c[i] = told[i]
    <3>1. CASE j \in 1 .. k /\ c[j] = told[j]
      BY <1>2, <1>13, <2>1, <3>1 DEF RanOnce
    <3>2. CASE ~(j <= k) /\ j - k \in 1 .. n /\ c[j] = b[j - k]
      BY <1>8, <1>13, <2>1, <3>2
    <3>3. QED
      BY <1>10, <3>1, <3>2
  <2>2. CASE ~(i <= k) /\ i - k \in 1 .. n /\ c[i] = b[i - k]
    <3>1. CASE j \in 1 .. k /\ c[j] = told[j]
      BY <1>8, <1>13, <2>2, <3>1
    <3>2. CASE ~(j <= k) /\ j - k \in 1 .. n /\ c[j] = b[j - k]
      BY <1>6, <2>2, <3>2
    <3>3. QED
      BY <1>10, <3>1, <3>2
  <2>3. QED
    BY <1>10, <2>1, <2>2
<1>14. \A x \in ToSet(told), d \in ToSet(b) : Before(x, d)
  <2>1. ToSet(told) = {told[i] : i \in 1 .. k} /\ ToSet(b) = {b[i] : i \in 1 .. n}
    BY <1>2 DEF ToSet
  <2>2. QED
    BY <1>8, <2>1
<1>15. ASSUME b # <<>> PROVE c # <<>> /\ Last(c) = Last(b)
  <2>1. n # 0
    BY <1>1, <1>2, <1>15, EmptySeq
  <2>2. k + n \in 1 .. k + n /\ ~(k + n <= k) /\ (k + n) - k = n /\ k + n # 0
    BY <2>1
  <2>3. c[k + n] = b[n]
    BY <1>4, <2>2
  <2>4. QED
    BY <1>2, <1>4, <2>2, <2>3 DEF Last
<1>16. QED
  BY <1>2, <1>3, <1>4, <1>5, <1>9, <1>11, <1>12, <1>13, <1>14, <1>15 DEF OldestFirst, NotBeyond, RanOnce

\* What is sent after a batch may be sent, and ends with it.
LEMMA ExchangeKeeps ==
  ASSUME NEW ms, NEW ran \in Seq(Calls), Sendable(ms, ran), NEW b \in Seq(Calls), b # <<>>, NEW r,
         \A x, y \in DOMAIN b : x < y => Before(b[x], b[y]),
         \A c \in ToSet(ran), d \in ToSet(b) : Before(c, d),
         NEW more, more = ran \o b, more \in Seq(Calls), Last(more) = Last(b)
  PROVE  LET after == ms \o Exchange(r, b) IN
         Sendable(after, more) /\ EndsWith(after, more) /\ (FirstAsked(ms) => FirstAsked(after))
<1>1. PICK e : /\ e = Exchange(r, b)
               /\ e \in Seq(LoopMessages) /\ Paired(e) /\ Flat(e) = b /\ Len(e) = 1 + Len(b)
               /\ e[1] = Says(b) /\ \A j \in 2 .. 1 + Len(b) : e[j].role = "tool"
  BY ExchangeIs
<1>2. ms \in Seq(LoopMessages) /\ Recalls(Flat(ms), ran)
  BY DEF Sendable
<1>3. PICK after : after = ms \o e
  OBVIOUS
<1>4. Sendable(after, more)
  <2>1. Recalls(Flat(ms) \o b, more)
    BY <1>2, RecallsMore
  <2>2. ToSet(more) = ToSet(ran) \cup ToSet(b)
    BY ConcatSet
  <2>3. Recalls(Flat(ms) \o Flat(e), more) /\ ToSet(more) \subseteq ToSet(ran) \cup ToSet(Flat(e))
    BY <1>1, <2>1, <2>2
  <2>4. e \in Seq(LoopMessages) /\ Paired(e)
    BY <1>1
  <2>5. QED
    BY <1>3, <2>3, <2>4, SendableMore
<1>5. EndsWith(after, more)
  <2>1. PICK m \in Nat, n \in Nat : m = Len(ms) /\ n = Len(e) /\ n = 1 + Len(b) /\ Len(b) \in Nat
    BY <1>1, <1>2, LenProperties
  <2>2. ms \in Seq(LoopMessages) /\ e \in Seq(LoopMessages) /\ m = Len(ms) /\ n = Len(e) /\ m \in Nat /\ n \in Nat
    BY <1>1, <1>2, <2>1
  <2>3. after \in Seq(LoopMessages) /\ Len(after) = m + n /\ \A i \in 1 .. m + n : after[i] = IF i <= m THEN ms[i] ELSE e[i - m]
    BY <1>3, <2>2, JoinIs
  <2>4. DOMAIN after = 1 .. m + n
    BY <2>3, LenProperties
  <2>5. m + 1 \in 1 .. m + n /\ ~(m + 1 <= m) /\ (m + 1) - m = 1
    BY <2>1
  <2>6. after[m + 1] = Says(b)
    BY <1>1, <2>3, <2>5
  <2>7. ASSUME NEW j \in 1 .. m + n, j > m + 1 PROVE after[j].role # "ai"
    <3>1. ~(j <= m) /\ j - m \in 2 .. 1 + Len(b)
      BY <2>1, <2>7
    <3>2. QED
      BY <1>1, <2>3, <3>1
  <2>8. Says(b).role = "ai" /\ Says(b).calls = b
    BY DEF Says
  <2>9. QED
    BY <2>4, <2>5, <2>6, <2>7, <2>8 DEF EndsWith
<1>6. FirstAsked(ms) => FirstAsked(after)
  BY <1>1, <1>2, <1>3, FirstStays
<1>7. QED
  BY <1>1, <1>3, <1>4, <1>5, <1>6
(* Messages that make no call.                                             *)
Idle(ms) == ms \in Seq(LoopMessages) /\ Paired(ms) /\ \A c \in ToSet(Flat(ms)) : c = Note

\* Two parts that make no call make none together.
LEMMA IdleMore == ASSUME NEW a, NEW b, Idle(a), Idle(b) PROVE Idle(a \o b)
<1>1. a \in Seq(LoopMessages) /\ b \in Seq(LoopMessages) /\ Paired(a) /\ Paired(b)
  BY DEF Idle
<1>2. Paired(a \o b)
  BY <1>1, PairedConcat
<1>3. PICK f, g : f = Flat(a) /\ g = Flat(b) /\ f \in Seq(Lines) /\ g \in Seq(Lines) /\ Flat(a \o b) = f \o g
                  /\ a \o b \in Seq(LoopMessages)
  BY <1>1, FlatIs
<1>4. ToSet(f \o g) = ToSet(f) \cup ToSet(g)
  <2>1. f \in Seq(Lines) /\ g \in Seq(Lines)
    BY <1>3
  <2>2. QED
    BY <2>1, ConcatSet
<1>5. \A c \in ToSet(f) \cup ToSet(g) : c = Note
  BY <1>3 DEF Idle
<1>6. QED
  BY <1>2, <1>3, <1>4, <1>5 DEF Idle

\* Neither what a human says nor an answer makes a call.
LEMMA IdleOne ==
  /\ Idle(<<>>)
  /\ \A what \in {"question", "memory", "old", "continue"} : Idle(<<Human(what)>>)
  /\ Idle(<<Says(<<>>)>>)
<1>1. ToSet(<<>>) = {} /\ ToSet(<<Note>>) = {Note}
  BY DEF ToSet
<1>2. <<>> \in Seq(LoopMessages) /\ DOMAIN <<>> = {}
  BY EmptySeq
<1>3. Idle(<<>>)
  BY <1>1, <1>2, FlatFew DEF Idle, Paired
<1>4. ASSUME NEW what \in {"question", "memory", "old", "continue"} PROVE Idle(<<Human(what)>>)
  <2>1. Human(what).role = "human" /\ Human(what).is = what /\ Human(what).calls = <<>>
    BY DEF Human
  <2>2. Human(what) \in LoopMessages
    <3>1. <<>> \in Seq(Lines)
      BY EmptySeq
    <3>2. QED
      BY <3>1 DEF Human, LoopMessages
  <2>3. LinesOf(Human(what)) = <<>>
    BY <2>1 DEF LinesOf
  <2> DEFINE s == <<Human(what)>>
  <2>4. s \in Seq(LoopMessages) /\ Flat(s) = <<>>
    BY <2>2, <2>3, FlatFew
  <2>5. DOMAIN s = {1} /\ s[1] = Human(what)
    OBVIOUS
  <2> HIDE DEF s
  <2>6. \A i \in DOMAIN s : s[i].role = "human"
    BY <2>1, <2>5
  <2>7. Paired(s)
    BY <2>6 DEF Paired
  <2>8. Idle(s)
    BY <1>1, <2>4, <2>7 DEF Idle
  <2>9. QED
    BY <2>8 DEF s
<1>5. Idle(<<Says(<<>>)>>)
  <2> DEFINE m == Says(<<>>)  s == <<m>>
  <2>1. m.role = "ai" /\ m.is = "said" /\ m.calls = <<>>
    BY DEF Says
  <2>2. m \in LoopMessages
    <3>1. <<>> \in Seq(Lines) /\ <<>> \in Seq(Calls)
      BY EmptySeq
    <3>2. QED
      BY <3>1 DEF Says, LoopMessages
  <2>3. LinesOf(m) = <<Note>>
    BY <2>1 DEF LinesOf
  <2> HIDE DEF m
  <2>4. s \in Seq(LoopMessages) /\ Flat(s) = <<Note>>
    BY <2>2, <2>3, FlatFew
  <2>5. DOMAIN s = {1} /\ s[1] = m /\ Len(s) = 1
    OBVIOUS
  <2> HIDE DEF s
  <2>6. Paired(s)
    <3>1. \A i \in DOMAIN s : i = 1 /\ s[i].role = "ai" /\ s[i].calls = <<>>
      BY <2>1, <2>5
    <3>2. Len(<<>>) = 0
      BY EmptySeq
    <3>3. QED
      BY <2>5, <3>1, <3>2 DEF Paired
  <2>7. Idle(s)
    BY <1>1, <2>4, <2>6 DEF Idle
  <2>8. QED
    BY <2>7 DEF s, m
<1>6. QED
  BY <1>3, <1>4, <1>5

\* An answer that is extended may be sent with what asks for more.
LEMMA ContinuationKeeps ==
  ASSUME NEW ms, NEW ran \in Seq(Calls), Sendable(ms, ran)
  PROVE  Sendable(ms \o <<Says(<<>>), Human("continue")>>, ran)
<1>1. PICK b : b = <<Says(<<>>), Human("continue")>>
  OBVIOUS
<1>2. <<Says(<<>>), Human("continue")>> = <<Says(<<>>)>> \o <<Human("continue")>>
  OBVIOUS
<1>3. Idle(b)
  BY <1>1, <1>2, IdleOne, IdleMore
<1>4. b \in Seq(LoopMessages) /\ Paired(b) /\ \A c \in ToSet(Flat(b)) : c = Note
  BY <1>3 DEF Idle
<1>5. Flat(b) \in Seq(Lines)
  BY <1>4, FlatIs
<1>6. Recalls(Flat(ms), ran)
  BY DEF Sendable
<1>7. Recalls(Flat(ms) \o Flat(b), ran)
  BY <1>4, <1>5, <1>6, RecallsNotes
<1>8. ToSet(ran) \subseteq ToSet(ran) \cup ToSet(Flat(b))
  OBVIOUS
<1>9. Sendable(ms \o b, ran)
  BY <1>4, <1>7, <1>8, SendableMore
<1>10. QED
  BY <1>1, <1>9

\* The messages of an older turn, as many turns as there are.
LEMMA OlderIdle == ASSUME NEW n \in Nat PROVE Idle(FlattenSeq([i \in 1 .. n |-> <<Human("old"), Says(<<>>)>>]))
<1> DEFINE P == <<Human("old"), Says(<<>>)>>
           E(m) == [i \in 1 .. m |-> P]
           I == {m \in Nat : Idle(FlattenSeq(E(m)))}
<1>1. Idle(P)
  <2>1. P = <<Human("old")>> \o <<Says(<<>>)>>
    OBVIOUS
  <2>2. QED
    BY <2>1, IdleOne, IdleMore
<1>2. PICK T : T = Seq(LoopMessages)
  OBVIOUS
<1>3. P \in T
  BY <1>1, <1>2 DEF Idle
<1> HIDE DEF P
<1>4. ASSUME NEW m \in Nat PROVE E(m) \in Seq(T) /\ Len(E(m)) = m /\ \A i \in 1 .. m : E(m)[i] = P
  BY <1>3
<1>5. 0 \in I
  <2>1. E(0) = <<>>
    <3>1. E(0) \in Seq(T) /\ Len(E(0)) = 0
      BY <1>4
    <3>2. QED
      BY <3>1, EmptySeq
  <2>2. FlattenSeq(<<>>) = <<>>
    BY DEF FlattenSeq
  <2>3. QED
    BY <2>1, <2>2, IdleOne
<1>6. ASSUME NEW m \in I PROVE m + 1 \in I
  <2>1. m \in Nat /\ m + 1 \in Nat /\ Idle(FlattenSeq(E(m)))
    OBVIOUS
  <2>2. PICK s, t : s = E(m) /\ t = E(m + 1)
    OBVIOUS
  <2>3. /\ s \in Seq(T) /\ Len(s) = m /\ \A i \in 1 .. m : s[i] = P
        /\ t \in Seq(T) /\ Len(t) = m + 1 /\ \A i \in 1 .. m + 1 : t[i] = P
    BY <1>4, <2>1, <2>2
  <2>4. PICK u : u = Append(s, P)
    OBVIOUS
  <2>5. u \in Seq(T) /\ Len(u) = m + 1 /\ u[m + 1] = P /\ \A i \in 1 .. m : u[i] = s[i]
    BY <1>3, <2>3, <2>4, AppendProperties
  <2>6. \A i \in 1 .. m + 1 : i \in 1 .. m \/ i = m + 1
    BY <2>1
  <2>7. \A i \in 1 .. m + 1 : u[i] = t[i]
    BY <2>3, <2>5, <2>6
  <2>8. t = u
    BY <2>3, <2>5, <2>7, SeqEqual
  <2>9. FlattenSeq(u) = FlattenSeq(s) \o P
    <3>1. s \in Seq(Seq(LoopMessages)) /\ P \in Seq(LoopMessages)
      BY <1>2, <1>3, <2>3
    <3>2. QED
      BY <2>4, <3>1, FlatAppend
  <2>10. Idle(FlattenSeq(t))
    BY <1>1, <2>1, <2>2, <2>8, <2>9, IdleMore
  <2>11. QED
    BY <2>1, <2>2, <2>10
<1>7. I \in SUBSET Nat
  OBVIOUS
<1>8. Nat \subseteq I
  <2> HIDE DEF I
  <2>1. QED
    BY <1>5, <1>6, <1>7, NatInd
<1>9. QED
  BY <1>8 DEF P

\* The first request may be sent.
LEMMA FirstContext ==
  ASSUME AgentInit
  PROVE  Sendable(ctx, <<>>) /\ FirstAsked(ctx)
<1>1. PICK memory \in {<<>>, <<Human("memory")>>} :
        ctx = FlattenSeq([i \in 1 .. older |-> <<Human("old"), Says(<<>>)>>]) \o <<Human("question")>> \o memory
  BY DEF AgentInit
<1>2. older \in Nat
  BY AgentAssumption DEF AgentInit
<1> DEFINE o == FlattenSeq([i \in 1 .. older |-> <<Human("old"), Says(<<>>)>>])  q == <<Human("question")>>
<1>3. Idle(o)
  BY <1>2, OlderIdle
<1>4. Idle(q) /\ Idle(memory)
  BY <1>1, IdleOne
<1>5. older = 0 => o = <<>>
  <2>1. [i \in 1 .. 0 |-> <<Human("old"), Says(<<>>)>>] = <<>>
    OBVIOUS
  <2>2. QED
    BY <2>1 DEF FlattenSeq
<1>6. ctx = (o \o q) \o memory
  BY <1>1
<1>7. q # <<>> /\ q[1] = Human("question")
  OBVIOUS
<1> HIDE DEF o, q
<1>8. Idle(o \o q) /\ Idle(ctx)
  BY <1>3, <1>4, <1>6, IdleMore
<1>9. FirstAsked(ctx)
  <2>1. FirstAsked(o \o q)
    <3>1. q \in Seq(LoopMessages)
      BY <1>4 DEF Idle
    <3>2. older = 0 => o \o q = q
      BY <1>5, <3>1, ConcatEmptySeq
    <3>3. QED
      BY <1>7, <3>2 DEF FirstAsked
  <2>2. PICK p : p = o \o q
    OBVIOUS
  <2>3. p \in Seq(LoopMessages) /\ memory \in Seq(LoopMessages)
    BY <1>4, <1>8, <2>2 DEF Idle
  <2>4. FirstAsked(p \o memory)
    BY <2>1, <2>2, <2>3, FirstStays
  <2>5. QED
    BY <1>6, <2>2, <2>4
<1>10. Sendable(ctx, <<>>)
  <2>1. ToSet(<<>>) = {}
    BY DEF ToSet
  <2>2. ctx \in Seq(LoopMessages) /\ Paired(ctx) /\ \A c \in ToSet(Flat(ctx)) : c = Note
    BY <1>8 DEF Idle
  <2>3. Flat(ctx) \in Seq(Lines)
    BY <2>2, FlatIs
  <2>4. \A a \in DOMAIN Flat(ctx) : Flat(ctx)[a] = Note
    BY <2>2 DEF ToSet
  <2>5. Recalls(Flat(ctx), <<>>)
    BY <2>1, <2>2, <2>3, <2>4 DEF Recalls
  <2>6. QED
    BY <2>1, <2>2, <2>5 DEF Sendable
<1>11. QED
  BY <1>9, <1>10

\* There are four retries.
LEMMA UsedIs ==
  ASSUME AskedSoFar
  PROVE  IsFiniteSet(used) /\ Cardinality(used) \in Nat /\ Cardinality(used) <= 4
<1> DEFINE all == {"markup", "stall", "empty", "repeat"}
<1>1. IsFiniteSet(all) /\ Cardinality(all) <= 4
  <2>1. IsFiniteSet({"markup"}) /\ Cardinality({"markup"}) = 1
    BY FS_Singleton
  <2>2. IsFiniteSet({"markup", "stall"}) /\ Cardinality({"markup", "stall"}) = 2
    BY <2>1, FS_AddElement
  <2>3. IsFiniteSet({"markup", "stall", "empty"}) /\ Cardinality({"markup", "stall", "empty"}) = 3
    BY <2>2, FS_AddElement
  <2>4. QED
    BY <2>3, FS_AddElement
<1>2. used \subseteq all
  BY DEF AskedSoFar
<1> HIDE DEF all
<1>3. QED
  BY <1>1, <1>2, FS_Subset, FS_CardinalityType

\* The invariant is strong enough.
LEMMA AgentImplies == AgentIInv => AgentInv
<1> SUFFICES ASSUME AgentIInv PROVE AgentInv
  OBVIOUS
<1>1. /\ told \in Seq(Calls) /\ Sendable(ctx, told) /\ EndsWith(ctx, told) /\ FirstAsked(ctx)
      /\ \A i, j \in DOMAIN told : i < j => Before(told[i], told[j])
  BY DEF AgentIInv, RecordedSoFar, OldestFirst
<1>2. ASSUME NEW f \in Fitted(ctx)
      PROVE  Sound(f) /\ (told # <<>> => \E j \in DOMAIN f : f[j] = Result(Last(told)))
             /\ (older = 0 => f[1] = Human("question"))
  <2>1. Sendable(f, told) /\ EndsWith(f, told) /\ FirstAsked(f)
    BY <1>1, FittedKeeps
  <2>2. f \in Seq(LoopMessages) /\ Paired(f)
    BY <2>1 DEF Sendable
  <2>3. Sound(f)
    BY <1>1, <2>1, SoundIs
  <2>4. told # <<>> => \E j \in DOMAIN f : f[j] = Result(Last(told))
    BY <2>1, <2>2, LastTold
  <2>5. QED
    BY <2>1, <2>3, <2>4 DEF FirstAsked
<1>3. ASSUME NEW f \in Fitted(Continuation) PROVE Sound(f)
  <2>1. Sendable(Continuation, told)
    BY <1>1, ContinuationKeeps DEF Continuation
  <2>2. Sendable(f, told)
    BY <1>1, <2>1, FittedKeeps
  <2>3. QED
    BY <1>1, <2>2, SoundIs
<1>4. NothingRunsAgain /\ StoredIsShown
  BY DEF AgentIInv, RecordedSoFar, RanOnce, NothingRunsAgain
<1>5. AsksBounded
  <2>1. asks \in Nat /\ actions \in Nat /\ loops \in Nat /\ MaxActions \in Nat /\ MaxContinuations \in Nat
    BY AgentAssumption DEF AgentIInv, AskedSoFar
  <2>2. Cardinality(used) \in Nat /\ Cardinality(used) <= 4
    BY UsedIs DEF AgentIInv
  <2>3. AskedSoFar /\ point \in {"ask", "synthesis", "extend", "done", "failed"}
    BY DEF AgentIInv
  <2>4. QED
    BY <2>1, <2>2, <2>3 DEF AskedSoFar, AsksBounded
<1>6. QED
  BY <1>2, <1>3, <1>4, <1>5 DEF AgentInv, RequestsHold, FirstQuestionKept

\* What a sequence is the other way round.
LEMMA ReverseIs ==
  ASSUME NEW S, NEW s \in Seq(S), NEW n \in Nat, n = Len(s)
  PROVE  Reverse(s) \in Seq(S) /\ Len(Reverse(s)) = n /\ \A i \in 1 .. n : Reverse(s)[i] = s[(n - i) + 1]
<1> DEFINE a == Reverse(s)
<1>1. a = [i \in 1 .. n |-> s[(n - i) + 1]]
  BY DEF Reverse
<1>2. \A i \in 1 .. n : (n - i) + 1 \in 1 .. n
  OBVIOUS
<1>3. \A i \in 1 .. n : s[i] \in S
  BY ElementOfSeq
<1> HIDE DEF a
<1>4. a \in [1 .. n -> S]
  BY <1>1, <1>2, <1>3
<1>5. a \in Seq(S) /\ Len(a) = n /\ \A i \in 1 .. n : a[i] = s[(n - i) + 1]
  BY <1>1, <1>4
<1>6. QED
  BY <1>5 DEF a

\* What is put behind something ends it.
LEMMA SuffixIs == ASSUME NEW S, NEW w \in Seq(S), NEW s \in Seq(S), NEW t, t = w \o s PROVE IsSuffix(s, t)
<1>1. PICK m \in Nat, n \in Nat : m = Len(w) /\ n = Len(s)
  BY LenProperties
<1>2. t \in Seq(S) /\ Len(t) = m + n /\ \A i \in 1 .. m + n : t[i] = IF i <= m THEN w[i] ELSE s[i - m]
  BY <1>1, JoinIs
<1> DEFINE a == Reverse(s)  b == Reverse(t)
<1>3. a \in Seq(S) /\ Len(a) = n /\ \A i \in 1 .. n : a[i] = s[(n - i) + 1]
  BY <1>1, ReverseIs
<1>4. b \in Seq(S) /\ Len(b) = m + n /\ \A i \in 1 .. m + n : b[i] = t[((m + n) - i) + 1]
  <2>1. PICK k \in Nat : k = m + n
    OBVIOUS
  <2>2. t \in Seq(S) /\ k = Len(t)
    BY <1>2, <2>1
  <2>3. b \in Seq(S) /\ Len(b) = k /\ \A i \in 1 .. k : b[i] = t[(k - i) + 1]
    BY <2>2, ReverseIs
  <2>4. QED
    BY <2>1, <2>3
<1> HIDE DEF a, b
<1>5. ASSUME NEW i \in 1 .. n PROVE a[i] = b[i]
  <2>1. /\ i \in 1 .. m + n /\ ((m + n) - i) + 1 \in 1 .. m + n /\ ~(((m + n) - i) + 1 <= m)
        /\ (((m + n) - i) + 1) - m = (n - i) + 1
    BY <1>1
  <2>2. QED
    BY <1>2, <1>3, <1>4, <2>1
<1>6. n \in 0 .. Len(a) /\ n \in 0 .. Len(b)
  BY <1>1, <1>3, <1>4
<1>7. /\ Upto(a, n) \in Seq(S) /\ Len(Upto(a, n)) = n /\ \A k \in 1 .. n : Upto(a, n)[k] = a[k]
      /\ Upto(b, n) \in Seq(S) /\ Len(Upto(b, n)) = n /\ \A k \in 1 .. n : Upto(b, n)[k] = b[k]
  BY <1>3, <1>4, <1>6, UptoIs
<1>8. Upto(a, n) = Upto(b, n)
  BY <1>5, <1>7, SeqEqual
<1>9. Len(a) = n /\ Len(a) <= Len(b) /\ SubSeq(a, 1, n) = SubSeq(b, 1, n)
  BY <1>3, <1>4, <1>8 DEF Upto
<1>10. IsPrefix(a, b)
  BY <1>9 DEF IsPrefix
<1>11. QED
  BY <1>10 DEF IsSuffix, a, b

Finalized(s, text, before, a, out) ==
  IF IsPrefix(s, text) THEN a = text /\ out = before \o SubSeq(text, Len(s) + 1, Len(text))
                       ELSE a = s \o text /\ out = before \o text

\* What is stored ends what is sent, whichever part of it has streamed.
LEMMA FinalizeIs ==
  ASSUME NEW P, NEW s \in Seq(P), NEW text \in Seq(P), text # <<>>, NEW w \in Seq(P),
         NEW a, NEW out, Finalized(s, text, w \o s, a, out)
  PROVE  a \in Seq(P) /\ a # <<>> /\ out \in Seq(P) /\ out = w \o a /\ Len(out) = Len(w) + Len(a)
<1>1. PICK n \in Nat, m \in Nat : n = Len(s) /\ m = Len(text) /\ m # 0
  BY LenProperties, EmptySeq
<1>2. a \in Seq(P) /\ a # <<>> /\ out = w \o a
  <2>1. CASE IsPrefix(s, text)
    <3>1. n <= m /\ SubSeq(s, 1, n) = SubSeq(text, 1, n) /\ a = text /\ out = (w \o s) \o After(text, n)
      BY <1>1, <2>1 DEF Finalized, IsPrefix, After
    <3>2. SubSeq(s, 1, n) = s
      BY <1>1, SubSeqFull
    <3>3. n \in 0 .. Len(text)
      BY <1>1, <3>1
    <3>4. text = Upto(text, n) \o After(text, n) /\ After(text, n) \in Seq(P)
      BY <3>3, SplitAt, AfterIs
    <3>5. PICK q : q = After(text, n) /\ q \in Seq(P)
      BY <3>4
    <3>6. text = s \o q /\ out = (w \o s) \o q
      BY <3>1, <3>2, <3>4, <3>5 DEF Upto
    <3>7. (w \o s) \o q = w \o (s \o q)
      BY <3>5, ConcatAssociative
    <3>8. QED
      BY <3>1, <3>6, <3>7
  <2>2. CASE ~IsPrefix(s, text)
    <3>1. a = s \o text /\ out = (w \o s) \o text
      BY <2>2 DEF Finalized
    <3>2. (w \o s) \o text = w \o (s \o text)
      BY ConcatAssociative
    <3>3. s \o text \in Seq(P) /\ Len(s \o text) = n + m
      BY <1>1, ConcatProperties
    <3>4. s \o text # <<>>
      BY <1>1, <3>3, EmptySeq
    <3>5. QED
      BY <3>1, <3>2, <3>3, <3>4
  <2>3. QED
    BY <2>1, <2>2
<1>3. out \in Seq(P) /\ Len(out) = Len(w) + Len(a)
  BY <1>2, ConcatProperties
<1>4. QED
  BY <1>2, <1>3

\* A turn that ends so shows what it stores.
LEMMA EndsShown ==
  ASSUME NEW text \in Seq(Pieces), text # <<>>, NEW before, NEW isBroken, Ends(text, before, isBroken),
         NEW w \in Seq(Pieces), before = w \o streamed', streamed' \in Seq(Pieces),
         since' \in Nat, acted' => Len(w) <= since'
  PROVE  point' = "done" /\ ShownSoFar' /\ StoredIsShown'
<1>1. point' = "done" /\ Finalized(streamed', text, before, answer', wire')
  BY DEF Ends, Finalize, Finalized
<1>2. PICK s, a, out : s = streamed' /\ a = answer' /\ out = wire'
  OBVIOUS
<1>3. a \in Seq(Pieces) /\ a # <<>> /\ out \in Seq(Pieces) /\ out = w \o a /\ Len(out) = Len(w) + Len(a)
  <2>1. s \in Seq(Pieces) /\ before = w \o s
    BY <1>2
  <2>2. Finalized(s, text, before, a, out)
    BY <1>1, <1>2
  <2>3. QED
    <3>1. /\ s \in Seq(Pieces) /\ text \in Seq(Pieces) /\ text # <<>> /\ w \in Seq(Pieces)
          /\ before = w \o s /\ Finalized(s, text, before, a, out)
      BY <2>1, <2>2
    <3> DEFINE x == w \o s
    <3>2. before = x
      BY <3>1
    <3>3. Finalized(s, text, x, a, out)
      BY <3>1, <3>2
    <3>4. QED
      BY <3>1, <3>3, FinalizeIs
<1>4. IsSuffix(a, out)
  BY <1>3, SuffixIs
<1>5. Len(w) \in Nat /\ Len(a) \in Nat
  BY <1>3, LenProperties
<1>6. acted' => Len(a) >= Len(out) - since'
  BY <1>3, <1>5
<1>7. StoredIsShown'
  BY <1>1, <1>2, <1>3, <1>4, <1>6 DEF StoredIsShown
<1>8. ShownSoFar'
  BY <1>1, <1>2, <1>3 DEF ShownSoFar
<1>9. QED
  BY <1>1, <1>7, <1>8

\* What the model writes and what the loop says are pieces of text.
LEMMA PiecesAre ==
  /\ \A n \in Nat : <<Prose(n)>> \in Seq(Pieces) /\ <<Prose(n)>> # <<>> /\ Prose(n) \in Pieces
  /\ \A what \in Words : Said(what) \in Seq(Pieces) /\ Said(what) # <<>>
<1>1. ASSUME NEW n \in Nat PROVE <<Prose(n)>> \in Seq(Pieces) /\ <<Prose(n)>> # <<>> /\ Prose(n) \in Pieces
  <2>1. PICK p : p = Prose(n)
    OBVIOUS
  <2>2. p \in Pieces
    BY <2>1 DEF Prose, Pieces, Words
  <2>3. <<p>> \in Seq(Pieces) /\ <<p>> # <<>>
    BY <2>2
  <2>4. QED
    BY <2>1, <2>2, <2>3
<1>2. ASSUME NEW what \in Words PROVE Said(what) \in Seq(Pieces) /\ Said(what) # <<>>
  <2>1. PICK p : p = <<what, 0>>
    OBVIOUS
  <2>2. p \in Pieces
    BY <2>1 DEF Pieces
  <2>3. <<p>> \in Seq(Pieces) /\ <<p>> # <<>>
    BY <2>2
  <2>4. QED
    BY <2>1, <2>3 DEF Said
<1>3. QED
  BY <1>1, <1>2

\* No call is recorded, none is forgotten.
LEMMA RecordedStays ==
  ASSUME RecordedSoFar, asks \in Nat, UNCHANGED <<older, ctx, told>>, asks' \in Nat, asks <= asks'
  PROVE  RecordedSoFar'
<1>1. told' = told /\ ctx' = ctx /\ older' = older
  OBVIOUS
<1>2. NotBeyond(told, asks')
  <2>1. PICK n \in Nat : n = Len(told) /\ DOMAIN told = 1 .. n /\ \A i \in 1 .. n : told[i] \in Calls
    BY LenProperties, ElementOfSeq DEF RecordedSoFar
  <2>2. \A i \in 1 .. n : told[i].n \in Nat /\ told[i].n <= asks
    BY <2>1 DEF RecordedSoFar, NotBeyond, Calls
  <2>3. QED
    BY <2>1, <2>2 DEF NotBeyond
<1>3. QED
  BY <1>1, <1>2 DEF RecordedSoFar, FirstAsked

\* A retry that was not taken yet pays for the call.
LEMMA AskedRetry ==
  ASSUME AskedSoFar, point = "ask", point' = "ask", asks' = asks + 1, UNCHANGED <<actions, loops>>,
         NEW which \in {"markup", "stall", "empty", "repeat"}, which \notin used, used' = used \cup {which}
  PROVE  AskedSoFar'
<1>1. IsFiniteSet(used) /\ Cardinality(used) \in Nat
  BY UsedIs
<1>2. Cardinality(used') = Cardinality(used) + 1
  BY <1>1, FS_AddElement
<1>3. QED
  BY <1>1, <1>2 DEF AskedSoFar

\* The last call is asked without one.
LEMMA AskedLast ==
  ASSUME AskedSoFar, point = "ask", point' \in {"synthesis", "extend", "done", "failed"},
         asks' \in {asks, asks + 1}, UNCHANGED <<actions, loops, used>>
  PROVE  AskedSoFar'
<1>1. Cardinality(used) \in Nat /\ Cardinality(used) <= 4 /\ MaxActions \in Nat
  BY UsedIs, AgentAssumption
<1>2. actions \in Nat /\ asks \in Nat /\ loops \in Nat /\ actions < MaxActions /\ asks <= actions + Cardinality(used)
  BY DEF AskedSoFar
<1>3. asks' \in Nat /\ asks' <= MaxActions + 4
  BY <1>1, <1>2
<1>4. asks' <= MaxActions + 6 + loops
  BY <1>1, <1>2, <1>3
<1>5. QED
  BY <1>2, <1>3, <1>4 DEF AskedSoFar

\* What a reply streams.
LEMMA StreamsIs ==
  ASSUME AgentIInv, point = "ask", NEW r, Streams(r)
  PROVE  /\ asks \in Nat /\ asks' = asks + 1 /\ streamed' \in Seq(Pieces) /\ wire \in Seq(Pieces) /\ Shown \in Seq(Pieces)
         /\ since \in Nat /\ Len(wire) \in Nat /\ Len(Shown) \in Nat /\ Len(wire) <= Len(Shown)
         /\ acted => Len(wire) = since /\ Shown = wire
<1>1. asks \in Nat /\ wire \in Seq(Pieces) /\ since \in Nat /\ (acted => Len(wire) = since)
  BY DEF AgentIInv, AskedSoFar, ShownSoFar
<1>2. asks' = asks + 1 /\ streamed' = IF r.text /\ ~acted THEN <<Prose(asks')>> ELSE <<>>
  BY DEF Streams
<1>3. <<Prose(asks')>> \in Seq(Pieces) /\ <<>> \in Seq(Pieces)
  <2>1. asks' \in Nat
    BY <1>1, <1>2
  <2>2. QED
    BY <2>1, PiecesAre, EmptySeq
<1>4. streamed' \in Seq(Pieces)
  BY <1>2, <1>3
<1>5. PICK s : s = streamed'
  OBVIOUS
<1>6. s \in Seq(Pieces) /\ Shown = wire \o s
  BY <1>4, <1>5 DEF Shown
<1>7. wire \o s \in Seq(Pieces) /\ Len(wire \o s) = Len(wire) + Len(s) /\ Len(s) \in Nat /\ Len(wire) \in Nat
  BY <1>1, <1>6, ConcatProperties, LenProperties
<1>8. acted => Shown = wire
  <2>1. wire \o <<>> = wire
    BY <1>1, ConcatEmptySeq
  <2>2. QED
    BY <1>2, <1>5, <1>6, <2>1
<1>9. QED
  BY <1>1, <1>2, <1>4, <1>6, <1>7, <1>8

\* What has streamed stays sent while the turn goes on.
LEMMA GoesOnShown ==
  ASSUME AgentIInv, point = "ask", NEW r, Streams(r), wire' = Shown, point' \in {"ask", "synthesis"}, answer' = answer,
         since' \in Nat, acted' => since' = IF acted THEN since ELSE Len(Shown)
  PROVE  ShownSoFar' /\ StoredIsShown'
<1>1. /\ streamed' \in Seq(Pieces) /\ wire \in Seq(Pieces) /\ Shown \in Seq(Pieces)
      /\ since \in Nat /\ Len(wire) \in Nat /\ Len(Shown) \in Nat /\ Len(wire) <= Len(Shown)
      /\ acted => Len(wire) = since /\ Shown = wire
  BY StreamsIs
<1>2. acted' => Len(wire) <= since' /\ Len(wire') = since'
  BY <1>1
<1>3. wire' = wire \o streamed'
  BY DEF Shown
<1>4. answer \in Seq(Pieces)
  BY DEF AgentIInv, ShownSoFar
<1>5. \E w \in Seq(Pieces) : wire' = w \o streamed' /\ (acted' => Len(w) <= since')
  BY <1>1, <1>2, <1>3
<1>6. ShownSoFar'
  BY <1>1, <1>2, <1>4, <1>5 DEF ShownSoFar
<1>7. StoredIsShown'
  BY DEF StoredIsShown
<1>8. QED
  BY <1>6, <1>7

\* It is the beginning of what the turn ends with.
LEMMA StopsShown ==
  ASSUME AgentIInv, point = "ask", NEW r, Streams(r), NEW what \in Words, NEW isBroken, Ends(Said(what), Shown, isBroken),
         since' \in Nat, acted' => since' = IF acted THEN since ELSE Len(Shown)
  PROVE  point' = "done" /\ ShownSoFar' /\ StoredIsShown'
<1>1. /\ streamed' \in Seq(Pieces) /\ wire \in Seq(Pieces)
      /\ since \in Nat /\ Len(wire) \in Nat /\ Len(Shown) \in Nat /\ Len(wire) <= Len(Shown)
      /\ acted => Len(wire) = since /\ Shown = wire
  BY StreamsIs
<1>2. acted' => Len(wire) <= since'
  BY <1>1
<1>3. Shown = wire \o streamed'
  BY DEF Shown
<1>4. Said(what) \in Seq(Pieces) /\ Said(what) # <<>>
  BY PiecesAre
<1>5. QED
  BY <1>1, <1>2, <1>3, <1>4, EndsShown

\* A reply that runs no action.
LEMMA RetryKeeps ==
  ASSUME AgentIInv, point = "ask", NEW r, Streams(r), NEW which \in {"markup", "stall", "empty", "repeat"}, Retry(which)
  PROVE  AgentIInv'
<1>1. /\ which \notin used /\ used' = used \cup {which} /\ wire' = Shown
      /\ UNCHANGED <<older, ctx, actions, told, loops, since>> /\ UNCHANGED <<point, acted, answer>>
  BY DEF Retry, Stays
<1>2. asks \in Nat /\ asks' = asks + 1 /\ since \in Nat
  BY StreamsIs
<1>3. RecordedSoFar'
  BY <1>1, <1>2, RecordedStays DEF AgentIInv
<1>4. AskedSoFar'
  BY <1>1, <1>2, AskedRetry DEF AgentIInv
<1>5. ShownSoFar' /\ StoredIsShown'
  <2>1. point' \in {"ask", "synthesis"} /\ answer' = answer /\ since' \in Nat /\ (acted' => since' = IF acted THEN since ELSE Len(Shown))
    BY <1>1, <1>2
  <2>2. QED
    BY <1>1, <2>1, GoesOnShown
<1>6. QED
  BY <1>1, <1>3, <1>4, <1>5 DEF AgentIInv

\* A reply that ends the turn with a message of the loop.
LEMMA StopKeeps ==
  ASSUME AgentIInv, point = "ask", NEW r, Streams(r), NEW what \in Words, NEW isBroken, Ends(Said(what), Shown, isBroken),
         UNCHANGED <<older, ctx, actions, told, loops, used>>, acted' \in BOOLEAN,
         since' \in Nat, acted' => since' = IF acted THEN since ELSE Len(Shown)
  PROVE  AgentIInv'
<1>1. asks \in Nat /\ asks' = asks + 1
  BY StreamsIs
<1>2. point' = "done" /\ ShownSoFar' /\ StoredIsShown'
  BY StopsShown
<1>3. RecordedSoFar'
  BY <1>1, RecordedStays DEF AgentIInv
<1>4. AskedSoFar'
  BY <1>1, <1>2, AskedLast DEF AgentIInv
<1>5. QED
  BY <1>2, <1>3, <1>4 DEF AgentIInv

\* A batch is recorded, sent back and shown.
LEMMA BatchKeeps == ASSUME AgentIInv, point = "ask", NEW r \in Reply, RunBatch(r) PROVE AgentIInv'
<1>1. PICK b : b = Batch(r)
  OBVIOUS
<1>2. /\ b # <<>> /\ Streams(r) /\ acted' = TRUE /\ actions' = actions + Len(b) /\ told' = told \o b
      /\ since' = IF acted THEN since ELSE Len(Shown)
      /\ UNCHANGED <<older, cut, loops, used>>
  BY <1>1 DEF RunBatch
<1>3. PICK c : ctx' = Trim(ctx \o Exchange(r, b), c)
  BY <1>1 DEF RunBatch
<1>4. \/ Ends(Said("blocked"), Shown, FALSE)
      \/ /\ point' = IF actions' < MaxActions THEN "ask" ELSE "synthesis"
         /\ wire' = Shown /\ answer' = answer
  BY <1>1 DEF RunBatch
<1>5. /\ actions \in Nat /\ asks \in Nat /\ loops \in Nat /\ actions < MaxActions /\ MaxActions \in Nat
      /\ asks <= actions + Cardinality(used) /\ loops <= MaxContinuations
  BY AgentAssumption DEF AgentIInv, AskedSoFar
<1>6. asks' = asks + 1 /\ since \in Nat /\ Len(Shown) \in Nat
  BY <1>2, StreamsIs
<1>7. NewCalls(b, MaxActions - actions)
  BY <1>1, <1>5, BatchIs
<1>8. b \in Seq(Calls) /\ Len(b) \in Nat /\ Len(b) # 0 /\ Len(b) <= MaxActions - actions
  BY <1>2, <1>7, LenProperties, EmptySeq DEF NewCalls
<1>9. RecordedSoFar'
  <2>1. /\ told \in Seq(Calls) /\ OldestFirst(told) /\ NotBeyond(told, asks) /\ RanOnce(told)
        /\ Sendable(ctx, told) /\ FirstAsked(ctx)
    BY DEF AgentIInv, RecordedSoFar
  <2>2. PICK more : more = told \o b
    OBVIOUS
  <2>3. /\ more \in Seq(Calls) /\ OldestFirst(more) /\ NotBeyond(more, asks + 1) /\ RanOnce(more)
        /\ \A x, y \in DOMAIN b : x < y => Before(b[x], b[y])
        /\ \A d \in ToSet(told), e \in ToSet(b) : Before(d, e)
        /\ Last(more) = Last(b)
    BY <1>2, <1>5, <1>7, <2>1, <2>2, RanMore
  <2>4. PICK after : after = ctx \o Exchange(r, b)
    OBVIOUS
  <2>5. Sendable(after, more) /\ EndsWith(after, more) /\ FirstAsked(after)
    BY <1>2, <1>8, <2>1, <2>2, <2>3, <2>4, ExchangeKeeps
  <2>6. Sendable(Trim(after, c), more) /\ EndsWith(Trim(after, c), more) /\ FirstAsked(Trim(after, c))
    BY <2>3, <2>5, TrimKeeps
  <2>7. ctx' = Trim(after, c) /\ told' = more /\ asks' = asks + 1 /\ older' = older
    BY <1>2, <1>3, <1>6, <2>2, <2>4
  <2>8. QED
    BY <2>3, <2>6, <2>7 DEF RecordedSoFar, FirstAsked
<1>10. /\ point' \in {"ask", "synthesis", "done"} /\ (point' = "ask" => actions' < MaxActions)
       /\ ShownSoFar' /\ StoredIsShown'
  <2>1. since' \in Nat /\ (acted' => since' = IF acted THEN since ELSE Len(Shown))
    BY <1>2, <1>6
  <2>2. CASE Ends(Said("blocked"), Shown, FALSE)
    <3>1. "blocked" \in Words
      BY DEF Words
    <3>2. point' = "done" /\ ShownSoFar' /\ StoredIsShown'
      BY <1>2, <2>1, <2>2, <3>1, StopsShown
    <3>3. QED
      BY <3>2
  <2>3. CASE point' = (IF actions' < MaxActions THEN "ask" ELSE "synthesis") /\ wire' = Shown /\ answer' = answer
    <3>1. point' \in {"ask", "synthesis"} /\ (point' = "ask" => actions' < MaxActions)
      BY <2>3
    <3>2. QED
      BY <1>2, <2>1, <2>3, <3>1, GoesOnShown
  <2>4. QED
    BY <1>4, <2>2, <2>3
<1>11. AskedSoFar'
  <2>1. Cardinality(used) \in Nat /\ Cardinality(used) <= 4
    BY UsedIs DEF AgentIInv
  <2>2. PICK n \in Nat : n = Len(b) /\ n # 0 /\ n <= MaxActions - actions
    BY <1>8
  <2>3. /\ actions' \in Nat /\ asks' \in Nat /\ actions' <= MaxActions
        /\ asks' <= actions' + Cardinality(used) /\ asks' <= MaxActions + 4 /\ asks' <= MaxActions + 6 + loops
    BY <1>2, <1>5, <1>6, <2>1, <2>2
  <2>4. loops' = loops /\ used' = used /\ used \subseteq {"markup", "stall", "empty", "repeat"}
    BY <1>2 DEF AgentIInv, AskedSoFar
  <2>5. QED
    BY <1>5, <1>10, <2>3, <2>4 DEF AskedSoFar
<1>12. QED
  BY <1>2, <1>9, <1>10, <1>11 DEF AgentIInv

\* A reply that answers is what is shown and may be extended.
LEMMA AnsweredKeeps == ASSUME AgentIInv, point = "ask", NEW r, Answers(r) PROVE AgentIInv'
<1>1. /\ asks' = asks + 1 /\ streamed' = <<Prose(asks')>> /\ answer' = streamed' /\ wire' = Shown /\ point' = "extend"
      /\ UNCHANGED <<older, ctx, acted, actions, used, told, loops, since>>
  BY DEF Answers
<1>2. asks \in Nat /\ asks' \in Nat /\ asks <= asks'
  BY <1>1 DEF AgentIInv, AskedSoFar
<1>3. RecordedSoFar'
  BY <1>1, <1>2, RecordedStays DEF AgentIInv
<1>4. AskedSoFar'
  BY <1>1, AskedLast DEF AgentIInv
<1>5. streamed' \in Seq(Pieces) /\ streamed' # <<>>
  BY <1>1, <1>2, PiecesAre
<1>6. wire \in Seq(Pieces) /\ since \in Nat /\ (acted => Len(wire) = since)
  BY DEF AgentIInv, ShownSoFar
<1>7. wire' = wire \o streamed' /\ wire' \in Seq(Pieces)
  <2>1. PICK s : s = streamed'
    OBVIOUS
  <2>2. wire' = wire \o s
    BY <1>1, <2>1 DEF Shown
  <2>3. s \in Seq(Pieces)
    BY <1>5, <2>1
  <2>4. wire \o s \in Seq(Pieces)
    BY <1>6, <2>3, ConcatProperties
  <2>5. QED
    BY <2>1, <2>2, <2>4
<1>8. ShownSoFar'
  <2>1. \E w \in Seq(Pieces) : wire' = w \o streamed' /\ (acted' => Len(w) <= since')
    BY <1>1, <1>6, <1>7
  <2>2. QED
    BY <1>1, <1>5, <1>6, <1>7, <2>1 DEF ShownSoFar
<1>9. StoredIsShown'
  BY <1>1 DEF StoredIsShown
<1>10. QED
  BY <1>1, <1>3, <1>4, <1>8, <1>9 DEF AgentIInv

\* Every reply of the model keeps the invariant.
LEMMA ReplyKeeps == ASSUME AgentIInv, Replied PROVE AgentIInv'
<1>1. point = "ask"
  BY DEF Replied
<1>2. PICK r \in Reply :
        Leak(r) \/ Unavailable(r) \/ Answers(r) \/ Stall(r) \/ SaysNothing(r) \/ Repeats(r) \/ RunBatch(r)
  BY DEF Replied
<1>3. /\ \A what \in {"markup fallback", "repeat fallback", "empty fallback", "blocked"} : what \in Words
      /\ acted \in BOOLEAN
  BY DEF AgentIInv, Words
<1>4. Streams(r) => since \in Nat /\ Len(wire) \in Nat /\ Len(Shown) \in Nat /\ (acted => Len(wire) = since /\ Shown = wire)
  BY <1>1, StreamsIs
<1>5. ASSUME Streams(r), Stays, UNCHANGED <<acted, used>>,
             NEW what \in {"markup fallback", "repeat fallback", "empty fallback"}, Ends(Said(what), Shown, TRUE)
      PROVE  AgentIInv'
  <2>1. UNCHANGED <<older, ctx, actions, told, loops, since>> /\ UNCHANGED <<acted, used>>
    BY <1>5 DEF Stays
  <2>2. acted' = acted /\ since' = since
    BY <2>1
  <2>3. what \in Words /\ acted \in BOOLEAN
    BY <1>3
  <2>4. since \in Nat
    BY <1>4, <1>5
  <2>5. acted' \in BOOLEAN /\ since' \in Nat
    BY <2>2, <2>3, <2>4
  <2>6. acted' => since' = IF acted THEN since ELSE Len(Shown)
    BY <2>2
  <2>7. Streams(r) /\ Ends(Said(what), Shown, TRUE)
    BY <1>5
  <2>8. QED
    BY <1>1, <2>1, <2>3, <2>5, <2>6, <2>7, StopKeeps
<1>6. CASE Leak(r)
  <2>1. CASE Streams(r) /\ Retry("markup")
    BY <1>1, <2>1, RetryKeeps
  <2>2. CASE Streams(r) /\ Ends(Said("markup fallback"), Shown, TRUE) /\ Stays /\ UNCHANGED <<acted, used>>
    BY <1>5, <2>2
  <2>3. QED
    BY <1>6, <2>1, <2>2 DEF Leak
<1>7. CASE Unavailable(r)
  <2>1. /\ Streams(r) /\ acted' = TRUE /\ since' = IF acted THEN since ELSE Len(Shown)
        /\ Ends(Said("blocked"), Shown, FALSE)
        /\ UNCHANGED <<older, ctx, actions, told, loops, used>>
    BY <1>7 DEF Unavailable
  <2>2. since' \in Nat
    BY <1>4, <2>1
  <2>3. "blocked" \in Words
    BY <1>3
  <2>4. QED
    BY <1>1, <2>1, <2>2, <2>3, StopKeeps
<1>8. CASE Stall(r)
  <2>1. Streams(r) /\ Retry("stall")
    BY <1>8 DEF Stall
  <2>2. QED
    BY <1>1, <2>1, RetryKeeps
<1>9. CASE SaysNothing(r)
  <2>1. CASE /\ Streams(r) /\ acted /\ point' = "synthesis" /\ wire' = Shown
             /\ Stays /\ UNCHANGED <<acted, used, answer, broken>>
    <3>1. UNCHANGED <<older, ctx, actions, told, loops, since>> /\ UNCHANGED <<acted, used, answer>>
      BY <2>1 DEF Stays
    <3>2. asks \in Nat /\ asks' = asks + 1 /\ since \in Nat
      BY <1>1, <2>1, StreamsIs
    <3>3. RecordedSoFar'
      BY <3>1, <3>2, RecordedStays DEF AgentIInv
    <3>4. AskedSoFar'
      BY <1>1, <2>1, <3>1, <3>2, AskedLast DEF AgentIInv
    <3>5. ShownSoFar' /\ StoredIsShown'
      <4>1. point' \in {"ask", "synthesis"} /\ since' \in Nat /\ (acted' => since' = IF acted THEN since ELSE Len(Shown))
        BY <2>1, <3>1, <3>2
      <4>2. QED
        BY <1>1, <2>1, <3>1, <4>1, GoesOnShown
    <3>6. QED
      BY <1>3, <2>1, <3>1, <3>3, <3>4, <3>5 DEF AgentIInv
  <2>2. CASE Streams(r) /\ Retry("empty")
    BY <1>1, <2>2, RetryKeeps
  <2>3. CASE Streams(r) /\ Ends(Said("empty fallback"), Shown, TRUE) /\ Stays /\ UNCHANGED <<acted, used>>
    BY <1>5, <2>3
  <2>4. QED
    BY <1>9, <2>1, <2>2, <2>3 DEF SaysNothing
<1>10. CASE Repeats(r)
  <2>1. CASE Streams(r) /\ Retry("repeat")
    BY <1>1, <2>1, RetryKeeps
  <2>2. CASE Streams(r) /\ Ends(Said("repeat fallback"), Shown, TRUE) /\ Stays /\ UNCHANGED <<acted, used>>
    BY <1>5, <2>2
  <2>3. QED
    BY <1>10, <2>1, <2>2 DEF Repeats
<1>11. CASE Answers(r)
  <2>1. Answers(r)
    BY <1>11
  <2>2. QED
    BY <1>1, <2>1, AnsweredKeeps
<1>12. CASE RunBatch(r)
  BY <1>1, <1>12, BatchKeeps
<1>13. QED
  BY <1>2, <1>6, <1>7, <1>8, <1>9, <1>10, <1>11, <1>12

\* What an action that asks outside of the loop leaves alone.
LEMMA HeldKeeps ==
  ASSUME AgentIInv, Holds, asks' \in Nat, asks <= asks', loops' \in Nat, loops' <= MaxContinuations,
         point' # "ask", point' = "synthesis" => asks' <= MaxActions + 4,
         point' \in {"extend", "done", "failed"} => asks' <= MaxActions + 6 + loops'
  PROVE  RecordedSoFar' /\ AskedSoFar' /\ acted' \in BOOLEAN
<1>1. UNCHANGED <<older, ctx, acted, actions, used, told, since>>
  BY DEF Holds
<1>2. asks \in Nat /\ acted \in BOOLEAN
  BY DEF AgentIInv, AskedSoFar
<1>3. RecordedSoFar'
  BY <1>1, <1>2, RecordedStays DEF AgentIInv
<1>4. AskedSoFar'
  BY <1>1 DEF AgentIInv, AskedSoFar
<1>5. QED
  BY <1>1, <1>2, <1>3, <1>4

\* What has streamed when the loop is left, and what was sent before it.
LEMMA SentIs ==
  ASSUME AgentIInv, point \in {"ask", "synthesis", "extend"}
  PROVE  /\ {streamed, answer, wire} \subseteq Seq(Pieces) /\ since \in Nat
         /\ \E w \in Seq(Pieces) : wire = w \o streamed /\ (acted => Len(w) <= since)
         /\ point \in {"ask", "synthesis"} /\ acted => Len(wire) = since
         /\ point = "extend" => answer # <<>> /\ answer = streamed
  BY DEF AgentIInv, ShownSoFar

\* Text that ends a turn whose last call came to nothing or was refused.
LEMMA FallbackShown ==
  ASSUME AgentIInv, point \in {"ask", "synthesis"}, NEW what \in Words, NEW isBroken,
         Ends(Said(what), wire, isBroken), UNCHANGED <<since, acted>>,
         streamed' = streamed \/ streamed' = <<>>
  PROVE  point' = "done" /\ ShownSoFar' /\ StoredIsShown'
<1>1. PICK w \in Seq(Pieces) : wire = w \o streamed /\ (acted => Len(w) <= since)
  BY SentIs
<1>2. wire \in Seq(Pieces) /\ streamed \in Seq(Pieces) /\ since \in Nat /\ (acted => Len(wire) = since)
  BY SentIs
<1>3. Said(what) \in Seq(Pieces) /\ Said(what) # <<>>
  BY PiecesAre
<1>4. since' \in Nat /\ acted' = acted /\ since' = since
  BY <1>2
<1>5. CASE streamed' = streamed
  <2>1. wire = w \o streamed' /\ streamed' \in Seq(Pieces) /\ (acted' => Len(w) <= since')
    BY <1>1, <1>2, <1>4, <1>5
  <2>2. QED
    BY <1>3, <1>4, <2>1, EndsShown
<1>6. CASE streamed' = <<>>
  <2>1. wire \o <<>> = wire /\ <<>> \in Seq(Pieces) /\ Len(wire) \in Nat
    BY <1>2, ConcatEmptySeq, EmptySeq, LenProperties
  <2>2. wire = wire \o streamed' /\ streamed' \in Seq(Pieces) /\ (acted' => Len(wire) <= since')
    BY <1>2, <1>4, <1>6, <2>1
  <2>3. QED
    BY <1>2, <1>3, <1>4, <2>2, EndsShown
<1>7. QED
  BY <1>5, <1>6

\* The budget refuses the call.
LEMMA ExhaustedKeeps == ASSUME AgentIInv, Exhausted PROVE AgentIInv'
<1>1. point = "ask" /\ Holds /\ UNCHANGED <<streamed, loops, asks>>
  BY DEF Exhausted
<1>2. since' = since /\ acted' = acted /\ acted \in BOOLEAN
  BY <1>1 DEF Holds, AgentIInv
<1>3. /\ asks \in Nat /\ loops \in Nat /\ loops <= MaxContinuations /\ actions \in Nat /\ actions < MaxActions
      /\ asks <= actions + Cardinality(used) /\ MaxActions \in Nat /\ Cardinality(used) \in Nat /\ Cardinality(used) <= 4
  BY <1>1, AgentAssumption, UsedIs DEF AgentIInv, AskedSoFar
<1>4. asks <= MaxActions + 4 /\ asks <= MaxActions + 6 + loops
  BY <1>3
<1>5. point' \in {"synthesis", "done"} /\ ShownSoFar' /\ StoredIsShown'
  <2>1. CASE acted /\ point' = "synthesis" /\ UNCHANGED <<answer, wire, broken>>
    <3>1. ShownSoFar
      BY DEF AgentIInv
    <3>2. UNCHANGED <<streamed, answer, wire, since, acted>>
      BY <1>1, <1>2, <2>1
    <3>3. ShownSoFar'
      BY <1>1, <2>1, <3>1, <3>2 DEF ShownSoFar
    <3>4. QED
      BY <2>1, <3>3 DEF StoredIsShown
  <2>2. CASE Ends(Said("empty fallback"), wire, TRUE)
    <3>1. "empty fallback" \in Words
      BY DEF Words
    <3>2. QED
      BY <1>1, <1>2, <2>2, <3>1, FallbackShown
  <2>3. QED
    BY <2>1, <2>2 DEF Exhausted
<1>6. RecordedSoFar' /\ AskedSoFar' /\ acted' \in BOOLEAN
  BY <1>1, <1>3, <1>4, <1>5, HeldKeeps
<1>7. QED
  BY <1>5, <1>6 DEF AgentIInv

\* The synthesis is refused.
LEMMA ReserveGoneKeeps == ASSUME AgentIInv, ReserveGone PROVE AgentIInv'
<1>1. point = "synthesis" /\ Holds /\ UNCHANGED <<streamed, loops, asks>> /\ Ends(Said("work fallback"), wire, TRUE)
  BY DEF ReserveGone
<1>2. since' = since /\ acted' = acted
  BY <1>1 DEF Holds
<1>3. "work fallback" \in Words
  BY DEF Words
<1>4. point' = "done" /\ ShownSoFar' /\ StoredIsShown'
  BY <1>1, <1>2, <1>3, FallbackShown
<1>5. asks \in Nat /\ loops \in Nat /\ loops <= MaxContinuations /\ asks <= MaxActions + 4 /\ MaxActions \in Nat
  BY <1>1, AgentAssumption DEF AgentIInv, AskedSoFar
<1>6. /\ asks' \in Nat /\ asks <= asks' /\ asks' <= MaxActions + 6 + loops'
      /\ loops' \in Nat /\ loops' <= MaxContinuations
  <2>1. asks' = asks /\ loops' = loops
    BY <1>1
  <2>2. asks <= asks /\ asks <= MaxActions + 6 + loops
    BY <1>5
  <2>3. QED
    BY <1>5, <2>1, <2>2
<1>7. RecordedSoFar' /\ AskedSoFar' /\ acted' \in BOOLEAN
  BY <1>1, <1>4, <1>6, HeldKeeps
<1>8. QED
  BY <1>4, <1>7 DEF AgentIInv

\* The synthesis is written, or comes to nothing.
LEMMA WriteSynthesisKeeps ==
  ASSUME AgentIInv, NEW text \in BOOLEAN, NEW again \in BOOLEAN, WriteSynthesis(text, again)
  PROVE  AgentIInv'
<1>1. point = "synthesis" /\ Holds /\ loops' = loops /\ asks' = asks + (IF again THEN 2 ELSE 1)
      /\ streamed' = IF text THEN <<Prose(asks')>> ELSE <<>>
  BY DEF WriteSynthesis
<1>2. since' = since /\ acted' = acted
  BY <1>1 DEF Holds
<1>3. asks \in Nat /\ loops \in Nat /\ loops <= MaxContinuations /\ asks <= MaxActions + 4 /\ MaxActions \in Nat
  BY <1>1, AgentAssumption DEF AgentIInv, AskedSoFar
<1>4. asks' \in Nat /\ asks <= asks' /\ asks' <= MaxActions + 6 + loops
  BY <1>1, <1>3
<1>5. point' \in {"extend", "done"} /\ ShownSoFar' /\ StoredIsShown'
  <2>1. CASE text /\ answer' = streamed' /\ wire' = Shown /\ point' = "extend"
    <3>1. wire \in Seq(Pieces) /\ since \in Nat /\ (acted => Len(wire) = since)
      BY <1>1, SentIs
    <3>2. streamed' = <<Prose(asks')>>
      BY <1>1, <2>1
    <3>3. streamed' \in Seq(Pieces) /\ streamed' # <<>>
      BY <1>4, <3>2, PiecesAre
    <3>4. PICK s : s = streamed' /\ s \in Seq(Pieces)
      BY <3>3
    <3>5. wire' = wire \o s
      BY <2>1, <3>4 DEF Shown
    <3>6. wire \o s \in Seq(Pieces) /\ Len(wire) \in Nat
      BY <3>1, <3>4, ConcatProperties, LenProperties
    <3>7. wire' \in Seq(Pieces) /\ wire' = wire \o streamed'
      BY <3>4, <3>5, <3>6
    <3>8. \E w \in Seq(Pieces) : wire' = w \o streamed' /\ (acted' => Len(w) <= since')
      <4>1. acted' => Len(wire) <= since'
        BY <1>2, <3>1
      <4>2. QED
        BY <3>1, <3>7, <4>1
    <3>9. ShownSoFar'
      BY <1>2, <2>1, <3>1, <3>3, <3>7, <3>8 DEF ShownSoFar
    <3>10. QED
      BY <2>1, <3>9 DEF StoredIsShown
  <2>2. CASE ~text /\ Ends(Said("work fallback"), wire, TRUE)
    <3>1. "work fallback" \in Words
      BY DEF Words
    <3>2. streamed' = <<>>
      BY <1>1, <2>2
    <3>3. point' = "done" /\ ShownSoFar' /\ StoredIsShown'
      BY <1>1, <1>2, <2>2, <3>1, <3>2, FallbackShown
    <3>4. QED
      BY <3>3
  <2>3. QED
    BY <2>1, <2>2 DEF WriteSynthesis
<1>6. RecordedSoFar' /\ AskedSoFar' /\ acted' \in BOOLEAN
  BY <1>1, <1>3, <1>4, <1>5, HeldKeeps
<1>7. QED
  BY <1>5, <1>6 DEF AgentIInv

\* A piece more of an answer that was cut.
LEMMA ExtendKeeps == ASSUME AgentIInv, NEW more, Extend(more) PROVE AgentIInv'
<1>1. /\ point = "extend" /\ point' = point /\ loops < MaxContinuations /\ loops' = loops + 1 /\ asks' = asks + 1 /\ Holds
      /\ streamed' = Append(streamed, Prose(asks')) /\ answer' = Append(answer, Prose(asks'))
      /\ wire' = Append(wire, Prose(asks'))
  BY DEF Extend
<1>2. since' = since /\ acted' = acted
  BY <1>1 DEF Holds
<1>3. asks \in Nat /\ loops \in Nat /\ asks <= MaxActions + 6 + loops /\ MaxActions \in Nat /\ MaxContinuations \in Nat
  BY <1>1, AgentAssumption DEF AgentIInv, AskedSoFar
<1>4. /\ asks' \in Nat /\ asks <= asks' /\ asks' <= MaxActions + 6 + loops'
      /\ loops' \in Nat /\ loops' <= MaxContinuations
  BY <1>1, <1>3
<1>5. PICK w \in Seq(Pieces) : wire = w \o streamed /\ (acted => Len(w) <= since)
  BY <1>1, SentIs
<1>6. PICK s, p : s = streamed /\ p = Prose(asks')
  OBVIOUS
<1>7. s \in Seq(Pieces) /\ answer = s /\ since \in Nat /\ wire = w \o s
  BY <1>1, <1>5, <1>6, SentIs
<1>8. p \in Pieces
  BY <1>4, <1>6, PiecesAre
<1>9. PICK t : t = Append(s, p) /\ t \in Seq(Pieces) /\ t # <<>>
  <2>1. PICK t : t = Append(s, p)
    OBVIOUS
  <2>2. PICK n \in Nat : n = Len(s)
    BY <1>7, LenProperties
  <2>3. t \in Seq(Pieces) /\ Len(t) = n + 1
    BY <1>7, <1>8, <2>1, <2>2, AppendProperties
  <2>4. n + 1 # 0
    OBVIOUS
  <2>5. t # <<>>
    BY <2>3, <2>4, EmptySeq
  <2>6. QED
    BY <2>1, <2>3, <2>5
<1>10. Append(w \o s, p) = w \o t
  <2>1. PICK q : q = <<p>>
    OBVIOUS
  <2>2. q \in Seq(Pieces)
    BY <1>8, <2>1
  <2>3. t = s \o q
    BY <1>7, <1>8, <1>9, <2>1, AppendIsConcat
  <2>4. PICK z : z = w \o s
    OBVIOUS
  <2>5. z \in Seq(Pieces)
    BY <1>5, <1>7, <2>4, ConcatProperties
  <2>6. Append(z, p) = z \o q
    BY <1>8, <2>1, <2>5, AppendIsConcat
  <2>7. (w \o s) \o q = w \o (s \o q)
    BY <1>5, <1>7, <2>2, ConcatAssociative
  <2>8. QED
    BY <2>3, <2>4, <2>6, <2>7
<1>11. streamed' = t /\ answer' = t /\ wire' = w \o t /\ w \o t \in Seq(Pieces)
  <2>1. w \o t \in Seq(Pieces)
    BY <1>5, <1>9, ConcatProperties
  <2>2. QED
    BY <1>1, <1>6, <1>7, <1>9, <1>10, <2>1
<1>12. ShownSoFar'
  <2>1. \E v \in Seq(Pieces) : wire' = v \o streamed' /\ (acted' => Len(v) <= since')
    BY <1>2, <1>5, <1>11
  <2>2. QED
    BY <1>1, <1>2, <1>7, <1>9, <1>11, <2>1 DEF ShownSoFar
<1>13. point' # "done" /\ point' # "synthesis" /\ point' # "ask" /\ point' = "extend"
  BY <1>1
<1>14. RecordedSoFar' /\ AskedSoFar' /\ acted' \in BOOLEAN
  BY <1>1, <1>4, <1>13, HeldKeeps
<1>15. QED
  BY <1>12, <1>13, <1>14 DEF AgentIInv, StoredIsShown

\* The answer is delivered.
LEMMA DeliverKeeps == ASSUME AgentIInv, Deliver PROVE AgentIInv'
<1>1. /\ point = "extend" /\ Holds /\ UNCHANGED <<streamed, asks, loops>>
      /\ Ends(IF cut THEN answer \o Said("cut notice") ELSE answer, wire, FALSE)
  BY DEF Deliver
<1>2. since' = since /\ acted' = acted
  BY <1>1 DEF Holds
<1>3. /\ asks \in Nat /\ loops \in Nat /\ loops <= MaxContinuations /\ asks <= MaxActions + 6 + loops
      /\ MaxActions \in Nat /\ MaxContinuations \in Nat
  BY <1>1, AgentAssumption DEF AgentIInv, AskedSoFar
<1>4. PICK w \in Seq(Pieces) : wire = w \o streamed /\ (acted => Len(w) <= since)
  BY <1>1, SentIs
<1>5. streamed \in Seq(Pieces) /\ answer \in Seq(Pieces) /\ answer # <<>> /\ since \in Nat
  BY <1>1, SentIs
<1>6. PICK text : text = IF cut THEN answer \o Said("cut notice") ELSE answer
  OBVIOUS
<1>7. text \in Seq(Pieces) /\ text # <<>>
  <2>1. PICK n : n = Said("cut notice") /\ n \in Seq(Pieces) /\ n # <<>>
    BY PiecesAre DEF Words
  <2>2. answer \o n \in Seq(Pieces) /\ Len(answer \o n) = Len(answer) + Len(n)
    BY <1>5, <2>1, ConcatProperties
  <2>3. Len(answer) \in Nat /\ Len(n) \in Nat /\ Len(n) # 0
    BY <1>5, <2>1, LenProperties, EmptySeq
  <2>4. answer \o n # <<>>
    BY <2>2, <2>3, EmptySeq
  <2>5. QED
    BY <1>5, <1>6, <2>1, <2>2, <2>4
<1>8. Ends(text, wire, FALSE)
  BY <1>1, <1>6
<1>9. /\ wire = w \o streamed' /\ streamed' \in Seq(Pieces) /\ since' \in Nat /\ (acted' => Len(w) <= since')
  BY <1>1, <1>2, <1>4, <1>5
<1>10. point' = "done" /\ ShownSoFar' /\ StoredIsShown'
  BY <1>4, <1>7, <1>8, <1>9, EndsShown
<1>11. /\ asks' \in Nat /\ asks <= asks' /\ asks' <= MaxActions + 6 + loops'
      /\ loops' \in Nat /\ loops' <= MaxContinuations
  <2>1. asks' = asks /\ loops' = loops
    BY <1>1
  <2>2. QED
    BY <1>3, <2>1
<1>12. RecordedSoFar' /\ AskedSoFar' /\ acted' \in BOOLEAN
  BY <1>1, <1>10, <1>11, HeldKeeps
<1>13. QED
  BY <1>10, <1>12 DEF AgentIInv

\* An error of the provider leaves the turn without a message.
LEMMA ProviderFailsKeeps == ASSUME AgentIInv, ProviderFails PROVE AgentIInv'
<1>1. /\ point \in {"ask", "synthesis", "extend"} /\ point' = "failed" /\ Holds /\ UNCHANGED <<loops, asks>>
      /\ UNCHANGED <<streamed, answer, wire>>
  BY DEF ProviderFails, textVars
<1>2. since' = since /\ acted' = acted
  BY <1>1 DEF Holds
<1>3. /\ asks \in Nat /\ loops \in Nat /\ loops <= MaxContinuations /\ MaxActions \in Nat /\ MaxContinuations \in Nat
      /\ actions \in Nat /\ actions <= MaxActions /\ Cardinality(used) \in Nat /\ Cardinality(used) <= 4
  BY <1>1, AgentAssumption, UsedIs DEF AgentIInv, AskedSoFar
<1>4. asks <= MaxActions + 6 + loops
  <2>1. asks <= actions + Cardinality(used) \/ asks <= MaxActions + 4 \/ asks <= MaxActions + 6 + loops
    BY <1>1 DEF AgentIInv, AskedSoFar
  <2>2. QED
    BY <1>3, <2>1
<1>5. /\ asks' \in Nat /\ asks <= asks' /\ asks' <= MaxActions + 6 + loops'
      /\ loops' \in Nat /\ loops' <= MaxContinuations
  <2>1. asks' = asks /\ loops' = loops
    BY <1>1
  <2>2. QED
    BY <1>3, <1>4, <2>1
<1>6. RecordedSoFar' /\ AskedSoFar' /\ acted' \in BOOLEAN
  BY <1>1, <1>5, HeldKeeps
<1>7. ShownSoFar'
  BY <1>1, <1>2 DEF AgentIInv, ShownSoFar
<1>8. QED
  BY <1>1, <1>6, <1>7 DEF AgentIInv, StoredIsShown

\* A turn begins with nothing asked, run or shown.
LEMMA AgentStarts == AgentInit => AgentIInv
<1> SUFFICES ASSUME AgentInit PROVE AgentIInv
  OBVIOUS
<1>1. /\ point = "ask" /\ acted = FALSE /\ actions = 0 /\ used = {} /\ told = <<>> /\ streamed = <<>> /\ answer = <<>>
      /\ loops = 0 /\ wire = <<>> /\ since = 0 /\ asks = 0
  BY DEF AgentInit
<1>2. Sendable(ctx, <<>>) /\ FirstAsked(ctx)
  BY FirstContext
<1>3. <<>> \in Seq(Calls) /\ DOMAIN <<>> = {} /\ <<>> \in Seq(Pieces)
  BY EmptySeq
<1>4. RecordedSoFar
  BY <1>1, <1>2, <1>3 DEF RecordedSoFar, OldestFirst, NotBeyond, RanOnce, EndsWith
<1>5. AskedSoFar
  <2>1. Cardinality({}) = 0
    BY FS_EmptySet
  <2>2. MaxActions \in Nat \ {0} /\ MaxContinuations \in Nat
    BY AgentAssumption
  <2>3. QED
    BY <1>1, <2>1, <2>2 DEF AskedSoFar
<1>6. ShownSoFar
  <2>1. <<>> \o <<>> = <<>>
    BY <1>3, ConcatEmptySeq
  <2>2. \E w \in Seq(Pieces) : wire = w \o streamed /\ (acted => Len(w) <= since)
    BY <1>1, <1>3, <2>1
  <2>3. QED
    BY <1>1, <1>3, <2>2 DEF ShownSoFar
<1>7. QED
  BY <1>1, <1>4, <1>5, <1>6 DEF AgentIInv, StoredIsShown

\* Every step of the agent keeps the invariant.
LEMMA AgentStep == AgentIInv /\ [AgentNext]_agentVars => AgentIInv'
<1> SUFFICES ASSUME AgentIInv, [AgentNext]_agentVars PROVE AgentIInv'
  OBVIOUS
<1>1. CASE Replied
  BY <1>1, ReplyKeeps
<1>2. CASE Exhausted
  BY <1>2, ExhaustedKeeps
<1>3. CASE ReserveGone
  BY <1>3, ReserveGoneKeeps
<1>4. CASE Deliver
  BY <1>4, DeliverKeeps
<1>5. CASE ProviderFails
  BY <1>5, ProviderFailsKeeps
<1>6. CASE \E b, again \in BOOLEAN : WriteSynthesis(b, again)
  BY <1>6, WriteSynthesisKeeps
<1>7. CASE \E more \in BOOLEAN : Extend(more)
  BY <1>7, ExtendKeeps
<1>8. CASE UNCHANGED agentVars
  <2>1. UNCHANGED <<point, older, ctx, acted, actions, used, told, loops, since, asks, streamed, answer, wire>>
    BY <1>8 DEF agentVars, textVars
  <2>2. RecordedSoFar'
    BY <2>1 DEF AgentIInv, RecordedSoFar, FirstAsked
  <2>3. AskedSoFar'
    BY <2>1 DEF AgentIInv, AskedSoFar
  <2>4. ShownSoFar' /\ StoredIsShown'
    BY <2>1 DEF AgentIInv, ShownSoFar, StoredIsShown
  <2>5. QED
    BY <2>1, <2>2, <2>3, <2>4 DEF AgentIInv
<1>9. QED
  BY <1>1, <1>2, <1>3, <1>4, <1>5, <1>6, <1>7, <1>8 DEF AgentNext

\* What the loop has asked, run, recorded and shown fits together at every step,
\* for every history, every limit and whatever the model answers.
THEOREM AgentInductive == AgentSpec => []AgentIInv
<1>1. QED
  BY AgentStarts, AgentStep, PTL DEF AgentSpec

\* One turn of the agent keeps its promises: every request may be sent, ends with
\* the newest exchange and forgets no call before its digest is full, no action
\* runs again, the calls of the model are bounded, what is stored is what was shown.
THEOREM AgentCorrect == AgentSpec => []AgentInv
<1>1. AgentIInv => AgentInv
  BY AgentImplies
<1>2. QED
  BY AgentInductive, <1>1, PTL
==============================================================================
