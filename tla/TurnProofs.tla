----------------------------- MODULE TurnProofs -----------------------------
(***************************************************************************)
(* Proofs about what every turn has, whatever its mode: its budget and its *)
(* log of events.  TurnBudget, for any number of model callers, scopes and *)
(* workers, any limits and any widths of the batches: what overlapping     *)
(* model calls have booked, what is authorized and in flight, and what the *)
(* grants of a batch keep from the run stay inside the limits together.    *)
(* TurnLog, for any number of distributed steps and readers, any page size *)
(* and any number of parts.                                                *)
(***************************************************************************)
EXTENDS TurnBudget, TurnLog, DataInduction, SequenceTheorems

-----------------------------------------------------------------------------
CallRecords == [st : Statuses, req : [Dims -> Nat], polls : Nat]
GrantRecords == [held : BOOLEAN, cap : [Keys -> Nat], bound : SUBSET Keys]
Pending(cl) == {c \in LLMCalls : cl[c].st = "inflight"}
HeldIn(cl, C, d) == SumFunctionOnSet([c \in LLMCalls |-> cl[c].req[d]], C \cap Pending(cl))
Holders(g) == {w \in Workers : g[w].held}
GrantedIn(g, k) == SumFunctionOnSet([w \in Workers |-> g[w].cap[k]], Holders(g))
Granted(k) == GrantedIn(grant, k)

\* What the model calls held, for the table of the calls.
LEMMA HeldIsHeldIn == \A C, d : Held(C, d) = HeldIn(call, C, d)
  BY DEF Held, HeldIn, InFlight, Pending

\* Finitely many calls are in flight.
LEMMA PendingFinite ==
  ASSUME NEW cl, NEW C PROVE IsFiniteSet(C \cap Pending(cl)) /\ IsFiniteSet(Pending(cl))
  BY BudgetAssumption, FS_Subset DEF Pending

\* What is held is a natural number.
LEMMA HeldNat ==
  ASSUME NEW cl \in [LLMCalls -> CallRecords], NEW C, NEW d \in Dims
  PROVE  HeldIn(cl, C, d) \in Nat
<1> DEFINE f == [c \in LLMCalls |-> cl[c].req[d]]
<1>1. \A c \in C \cap Pending(cl) : f[c] \in Nat
  BY DEF CallRecords, Pending
<1> HIDE DEF f
<1>2. SumFunctionOnSet(f, C \cap Pending(cl)) \in Nat
  BY <1>1, PendingFinite, SumNat
<1>3. QED
  BY <1>2 DEF HeldIn, f


(* Two tables of calls that differ in the call c at most.                  *)
Differ(a, b, c) == /\ a \in [LLMCalls -> CallRecords] /\ b \in [LLMCalls -> CallRecords]
                   /\ \A x \in LLMCalls \ {c} : a[x] = b[x]

(* A call that is in flight in neither table leaves what is held alone.    *)
LEMMA HeldSettles ==
  ASSUME NEW c \in LLMCalls, NEW a, NEW b, Differ(a, b, c),
         a[c].st # "inflight", b[c].st # "inflight", NEW C, NEW d \in Dims
  PROVE  HeldIn(b, C, d) = HeldIn(a, C, d)
<1> DEFINE f == [x \in LLMCalls |-> a[x].req[d]]
           g == [x \in LLMCalls |-> b[x].req[d]]
           S == C \cap Pending(a)
<1>1. C \cap Pending(b) = S
  BY DEF Pending, Differ
<1>2. \A x \in S : f[x] \in Nat /\ f[x] = g[x]
  BY DEF Pending, CallRecords, Differ
<1>3. IsFiniteSet(S)
  BY PendingFinite
<1>4. HeldIn(a, C, d) = SumFunctionOnSet(f, S)
  BY DEF HeldIn
<1>5. HeldIn(b, C, d) = SumFunctionOnSet(g, C \cap Pending(b))
  BY DEF HeldIn
<1> HIDE DEF f, g, S
<1>6. SumFunctionOnSet(f, S) = SumFunctionOnSet(g, S)
  BY <1>2, <1>3, SumSame
<1>7. QED
  BY <1>1, <1>4, <1>5, <1>6, Zenon

(* A call that is in flight in the second table only adds its request.     *)
LEMMA HeldGrows ==
  ASSUME NEW c \in LLMCalls, NEW a, NEW b, Differ(a, b, c),
         a[c].st # "inflight", b[c].st = "inflight", NEW C, NEW d \in Dims
  PROVE  HeldIn(b, C, d) =
           IF c \in C THEN b[c].req[d] + HeldIn(a, C, d) ELSE HeldIn(a, C, d)
<1> DEFINE f == [x \in LLMCalls |-> a[x].req[d]]
           g == [x \in LLMCalls |-> b[x].req[d]]
           S == C \cap Pending(a)
<1>1. C \cap Pending(b) = IF c \in C THEN S \cup {c} ELSE S
  BY DEF Pending, Differ
<1>2. \A x \in S : f[x] \in Nat /\ f[x] = g[x]
  BY DEF Pending, CallRecords, Differ
<1>3. g[c] = b[c].req[d] /\ g[c] \in Nat /\ c \notin S
  BY DEF Pending, CallRecords, Differ
<1>4. IsFiniteSet(S)
  BY PendingFinite
<1>5. HeldIn(a, C, d) = SumFunctionOnSet(f, S)
  BY DEF HeldIn
<1>6. HeldIn(b, C, d) = SumFunctionOnSet(g, C \cap Pending(b))
  BY DEF HeldIn
<1> HIDE DEF f, g, S
<1>7. SumFunctionOnSet(f, S) = SumFunctionOnSet(g, S)
  BY <1>2, <1>4, SumSame
<1>8. SumFunctionOnSet(g, S \cup {c}) = g[c] + SumFunctionOnSet(g, S)
  BY <1>2, <1>3, <1>4, SumAdd
<1>9. CASE c \in C
  <2>1. C \cap Pending(b) = S \cup {c}
    BY <1>1, <1>9
  <2>2. HeldIn(b, C, d) = SumFunctionOnSet(g, S \cup {c})
    BY <1>6, <2>1, Zenon
  <2>3. QED
    BY <1>3, <1>5, <1>7, <1>8, <1>9, <2>2, Zenon
<1>10. CASE c \notin C
  <2>1. C \cap Pending(b) = S
    BY <1>1, <1>10
  <2>2. QED
    BY <1>5, <1>6, <1>7, <1>10, <2>1, Zenon
<1>11. QED
  BY <1>9, <1>10

(* How many calls are in flight in either case.                            *)
LEMMA CountSettles ==
  ASSUME NEW c \in LLMCalls, NEW a, NEW b, Differ(a, b, c),
         a[c].st # "inflight", b[c].st # "inflight"
  PROVE  Cardinality(Pending(b)) = Cardinality(Pending(a))
<1>1. Pending(b) = Pending(a)
  BY DEF Pending, Differ
<1>2. QED
  BY <1>1, Zenon

\* A call that goes in flight is one more.
LEMMA CountGrows ==
  ASSUME NEW c \in LLMCalls, NEW a, NEW b, Differ(a, b, c),
         a[c].st # "inflight", b[c].st = "inflight"
  PROVE  Cardinality(Pending(b)) = Cardinality(Pending(a)) + 1
<1>1. Pending(b) = Pending(a) \cup {c} /\ c \notin Pending(a)
  BY DEF Pending, Differ
<1>2. Cardinality(Pending(a) \cup {c}) = Cardinality(Pending(a)) + 1
  BY <1>1, PendingFinite, FS_AddElement
<1>3. QED
  BY <1>1, <1>2, Zenon

(* With nothing in flight, nothing is held.                                *)
LEMMA HeldNothing ==
  ASSUME NEW a, NEW C, C \cap Pending(a) = {}, NEW d
  PROVE  HeldIn(a, C, d) = 0
<1>1. HeldIn(a, C, d) = SumFunctionOnSet([x \in LLMCalls |-> a[x].req[d]], {})
  BY Zenon DEF HeldIn
<1>2. QED
  BY <1>1, SumEmpty

(* A step's end takes its calls with it: nobody holds more than before,    *)
(* and the callers of the other steps hold what they held.                 *)
Cleared(a, b, s) == \A c \in LLMCalls : b[c] = IF ScopeOf[c] = s THEN NoCall ELSE a[c]
\* What is held when the calls of a scope are taken off the table.
LEMMA HeldCloses ==
  ASSUME NEW s, NEW a \in [LLMCalls -> CallRecords], NEW b,
         Cleared(a, b, s),
         NEW C, NEW d \in Dims
  PROVE  /\ HeldIn(b, C, d) <= HeldIn(a, C, d)
         /\ Cardinality(Pending(b)) <= Cardinality(Pending(a))
         /\ (\A c \in C : ScopeOf[c] # s) => HeldIn(b, C, d) = HeldIn(a, C, d)
<1> DEFINE f == [x \in LLMCalls |-> a[x].req[d]]
           g == [x \in LLMCalls |-> b[x].req[d]]
           S == C \cap Pending(a)
           R == C \cap Pending(b)
<1>1. Pending(b) \subseteq Pending(a)
  BY DEF Pending, NoCall, Cleared
<1>2. R \subseteq S /\ S \subseteq LLMCalls
  BY <1>1 DEF Pending
<1>3. IsFiniteSet(S) /\ IsFiniteSet(R)
  BY PendingFinite
<1>4. \A x \in S : f[x] \in Nat
  BY DEF Pending, CallRecords
<1>5. \A x \in R : b[x] = a[x]
  BY DEF Pending, NoCall, Cleared
<1>6. \A x \in R : f[x] = g[x]
  BY <1>2, <1>5
<1>7. HeldIn(a, C, d) = SumFunctionOnSet(f, S) /\ HeldIn(b, C, d) = SumFunctionOnSet(g, R)
  BY DEF HeldIn
<1>8. (\A c \in C : ScopeOf[c] # s) => R = S
  BY DEF Pending, Cleared
<1>10. Cardinality(Pending(b)) <= Cardinality(Pending(a))
  BY <1>1, PendingFinite, FS_Subset
<1> HIDE DEF f, g, S, R
<1>11. SumFunctionOnSet(f, R) = SumFunctionOnSet(g, R)
  BY <1>2, <1>3, <1>4, <1>6, SumSame
<1>12. SumFunctionOnSet(f, R) <= SumFunctionOnSet(f, S)
  BY <1>2, <1>3, <1>4, SumLess
<1>13. ASSUME \A c \in C : ScopeOf[c] # s PROVE HeldIn(b, C, d) = HeldIn(a, C, d)
  <2>1. R = S
    BY <1>8, <1>13
  <2>2. SumFunctionOnSet(f, R) = SumFunctionOnSet(f, S)
    BY <2>1, Zenon
  <2>3. QED
    BY <1>7, <1>11, <2>2
<1>14. QED
  BY <1>7, <1>10, <1>11, <1>12, <1>13

-----------------------------------------------------------------------------
(* What the grants of a batch keep from the run.                           *)
LEMMA HoldersFinite == ASSUME NEW g PROVE IsFiniteSet(Holders(g))
  BY BudgetAssumption, FS_Subset DEF Holders

\* What the grants keep is a natural number.
LEMMA GrantedNat ==
  ASSUME NEW g \in [Workers -> GrantRecords], NEW k \in Keys
  PROVE  GrantedIn(g, k) \in Nat
<1> DEFINE f == [w \in Workers |-> g[w].cap[k]]
<1>1. \A w \in Holders(g) : f[w] \in Nat
  BY DEF Holders, GrantRecords
<1> HIDE DEF f
<1>2. SumFunctionOnSet(f, Holders(g)) \in Nat
  BY <1>1, HoldersFinite, SumNat
<1>3. QED
  BY <1>2 DEF GrantedIn, f

\* With no grant out, nothing is kept from the run.
LEMMA GrantedNone ==
  ASSUME NEW g, Holders(g) = {}, NEW k PROVE GrantedIn(g, k) = 0
<1>1. GrantedIn(g, k) = SumFunctionOnSet([w \in Workers |-> g[w].cap[k]], {})
  BY Zenon DEF GrantedIn
<1>2. QED
  BY <1>1, SumEmpty

(* A grant that comes back frees what it held.                             *)
LEMMA GrantedReturns ==
  ASSUME NEW g \in [Workers -> GrantRecords], NEW w \in Workers, g[w].held,
         NEW h, ~h[w].held, \A x \in Workers \ {w} : h[x] = g[x], NEW k \in Keys
  PROVE  GrantedIn(g, k) = g[w].cap[k] + GrantedIn(h, k)
<1> DEFINE f == [x \in Workers |-> g[x].cap[k]]
           e == [x \in Workers |-> h[x].cap[k]]
<1>1. Holders(h) = Holders(g) \ {w} /\ w \in Holders(g)
  BY DEF Holders
<1>2. \A x \in Holders(g) : f[x] \in Nat
  BY DEF Holders, GrantRecords
<1>3. \A x \in Holders(h) : f[x] \in Nat /\ f[x] = e[x]
  BY <1>1, <1>2 DEF Holders
<1>4. f[w] = g[w].cap[k]
  OBVIOUS
<1>5. GrantedIn(g, k) = SumFunctionOnSet(f, Holders(g)) /\ GrantedIn(h, k) = SumFunctionOnSet(e, Holders(h))
  BY DEF GrantedIn
<1> HIDE DEF f, e
<1>6. SumFunctionOnSet(f, Holders(g)) = f[w] + SumFunctionOnSet(f, Holders(g) \ {w})
  BY <1>1, <1>2, HoldersFinite, SumTake
<1>7. SumFunctionOnSet(f, Holders(g) \ {w}) = SumFunctionOnSet(f, Holders(h))
  BY <1>1, Zenon
<1>8. SumFunctionOnSet(f, Holders(h)) = SumFunctionOnSet(e, Holders(h))
  BY <1>3, HoldersFinite, SumSame
<1>9. QED
  BY <1>4, <1>5, <1>6, <1>7, <1>8, Zenon

(* The steps of a batch hold the same slice each.                          *)
Handed(g, W, cap) == /\ \A w \in W : g[w].held /\ g[w].cap = cap
                     /\ \A w \in Workers \ W : ~g[w].held
\* What a batch is granted together: its width times the slice.
LEMMA GrantedBatch ==
  ASSUME NEW W \in SUBSET Workers, NEW cap \in [Keys -> Nat], NEW g, Handed(g, W, cap), NEW k \in Keys
  PROVE  GrantedIn(g, k) = Cardinality(W) * cap[k]
<1> DEFINE f == [w \in Workers |-> g[w].cap[k]]
<1>1. Holders(g) = W
  BY DEF Holders, Handed
<1>2. \A w \in W : f[w] = cap[k]
  BY DEF Handed
<1>3. cap[k] \in Nat /\ IsFiniteSet(W)
  BY BudgetAssumption, FS_Subset
<1>4. GrantedIn(g, k) = SumFunctionOnSet(f, Holders(g))
  BY DEF GrantedIn
<1> HIDE DEF f
<1>5. SumFunctionOnSet(f, W) = Cardinality(W) * cap[k]
  BY <1>2, <1>3, SumOfEqual
<1>6. QED
  BY <1>1, <1>4, <1>5, Zenon

-----------------------------------------------------------------------------
(* The division of a slice: n steps of the share x \div n, or of the share *)
(* that k passes leave, stay inside x.                                     *)
LEMMA Share ==
  ASSUME NEW x \in Nat, NEW n \in Nat \ {0}
  PROVE  x \div n \in Nat /\ n * (x \div n) <= x
  OBVIOUS

\* The share that k passes leave.
LEMMA SharePasses ==
  ASSUME NEW x \in Nat, NEW n \in Nat \ {0}, NEW k \in Nat \ {0}
  PROVE  /\ x \div (n * k) \in Nat
         /\ n * (x \div (n * k)) <= x
<1>1. PICK m \in Nat \ {0} : m = n * k /\ n <= m
  <2>1. n * k \in Nat \ {0} /\ n <= n * k
    OBVIOUS
  <2>2. QED
    BY <2>1
<1>2. PICK q \in Nat : q = x \div m
  BY <1>1, Share
<1>3. m * q <= x
  BY <1>1, <1>2, Share
<1>4. n * q <= m * q
  BY <1>1, <1>2
<1>5. n * q \in Nat /\ m * q \in Nat
  BY <1>1, <1>2
<1>6. QED
  BY <1>1, <1>2, <1>3, <1>4, <1>5

(* What a run has left outside its reserve.                                *)
LEMMA RemainingNat ==
  ASSUME BudgetTypeOK
  PROVE  /\ \A d \in Dims : RemainingNormal(d) \in Nat
         /\ RemainingCalls \in Nat /\ CallReserve(maxCalls) \in 0 .. maxCalls /\ maxCalls \in Nat \ {0}
  BY BudgetAssumption DEF BudgetTypeOK, RemainingNormal, RemainingCalls, CallReserve, Smaller, Larger

(* _grant_for: a slice is an amount of every kind, and the slices of a     *)
(* batch together stay inside what is left.                                *)
LEMMA SliceFits ==
  ASSUME BudgetTypeOK, NEW n \in Nat \ {0}, NEW k \in Nat \ {0}
  PROVE  /\ Slice(n, k) \in [Keys -> Nat]
         /\ \A d \in Dims : Limit[d] # 0 => n * Slice(n, k)[d] <= RemainingNormal(d)
         /\ n * Slice(n, k)["calls"] <= RemainingCalls
<1> DEFINE t == RemainingNormal("tokens")
           x == RemainingNormal("cost")
           c == RemainingCalls
<1>1. t \in Nat /\ x \in Nat /\ c \in Nat
  BY RemainingNat DEF Dims
<1>2. Floor \in Nat
  BY BudgetAssumption
<1> HIDE DEF t, x, c
<1>3. /\ t \div n \in Nat /\ n * (t \div n) <= t
      /\ t \div (n * k) \in Nat
      /\ x \div (n * k) \in Nat /\ n * (x \div (n * k)) <= x
      /\ c \div n \in Nat /\ n * (c \div n) <= c
      /\ c \div (n * k) \in Nat /\ n * (c \div (n * k)) <= c
  BY <1>1, Share, SharePasses
<1>4. Keys = {"tokens", "cost", "calls"} /\ Dims = {"tokens", "cost"}
  BY DEF Keys, Dims
<1>5. PICK s : s = Slice(n, k)
  OBVIOUS
<1>6. /\ s = [tokens |-> s["tokens"], cost |-> s["cost"], calls |-> s["calls"]]
      /\ s["tokens"] \in {0, Floor, t \div n, Smaller(Larger(Floor, t \div (n * k)), t \div n)}
      /\ Limit["tokens"] # 0 => s["tokens"] \in {t \div n, Smaller(Larger(Floor, t \div (n * k)), t \div n)}
      /\ s["cost"] \in {0, x \div (n * k)}
      /\ s["calls"] \in {c \div n, c \div (n * k)}
  BY <1>5 DEF Slice, t, x, c
<1>7. PICK y \in Nat : y = Smaller(Larger(Floor, t \div (n * k)), t \div n) /\ y <= t \div n
  BY <1>2, <1>3 DEF Smaller, Larger
<1>8. n * y <= n * (t \div n)
  BY <1>3, <1>7
<1>9. n * y <= t
  BY <1>1, <1>3, <1>7, <1>8
<1>10. s["tokens"] \in Nat /\ (Limit["tokens"] # 0 => n * s["tokens"] <= t)
  BY <1>2, <1>3, <1>6, <1>7, <1>9
<1>11. s["cost"] \in Nat /\ n * s["cost"] <= x
  BY <1>1, <1>3, <1>6
<1>12. s["calls"] \in Nat /\ n * s["calls"] <= c
  BY <1>3, <1>6
<1>13. s \in [Keys -> Nat]
  BY <1>4, <1>6, <1>10, <1>11, <1>12
<1>14. QED
  BY <1>4, <1>5, <1>10, <1>11, <1>12, <1>13 DEF t, x, c

-----------------------------------------------------------------------------
(* Every action keeps the variables in their types.                        *)
LEMMA NoneTyped == NoCall \in CallRecords /\ NoGrant \in GrantRecords /\ Zero \in [Dims -> Nat]
  BY DEF NoCall, NoGrant, Zero, CallRecords, GrantRecords, Statuses

\* A usage is an amount of every kind.
LEMMA UsageTyped ==
  ASSUME NEW e \in [Dims -> Nat], NEW u \in Usage(e)
  PROVE  /\ u \in [Dims -> Nat] /\ Excess(u, e) \in [Dims -> Nat]
         /\ \A d \in Dims : u[d] <= e[d] + Excess(u, e)[d]
<1>1. Overrun \in Nat
  BY BudgetAssumption
<1>2. u \in [Dims -> Nat]
  BY <1>1 DEF Usage, Larger
<1>3. QED
  BY <1>2 DEF Excess, Larger

Modes == {"normal", "degraded", "finalizing", "exhausted"}

\* A call that settles leaves the others alone.
LEMMA SettleTyped ==
  ASSUME BudgetTypeOK, NEW c \in LLMCalls, NEW st \in Statuses, NEW r \in [Dims -> Nat], NEW p \in Nat,
         Settle(c, st, r, p)
  PROVE  /\ call' \in [LLMCalls -> CallRecords]
         /\ call'[c].st = st /\ call'[c].req = r
         /\ Differ(call, call', c)
<1>1. call \in [LLMCalls -> CallRecords]
  BY DEF BudgetTypeOK, CallRecords
<1>2. [st |-> st, req |-> r, polls |-> p] \in CallRecords
  BY DEF CallRecords
<1>3. call' = [call EXCEPT ![c] = [st |-> st, req |-> r, polls |-> p]]
  BY DEF Settle
<1>4. QED
  BY <1>1, <1>2, <1>3 DEF Differ

\* So does one that is taken off the table.
LEMMA ClearTyped ==
  ASSUME BudgetTypeOK, NEW c \in LLMCalls, call' = [call EXCEPT ![c] = NoCall]
  PROVE  /\ call' \in [LLMCalls -> CallRecords]
         /\ call'[c].st = "idle"
         /\ Differ(call', call, c) /\ Differ(call, call', c)
<1>1. call \in [LLMCalls -> CallRecords]
  BY DEF BudgetTypeOK, CallRecords
<1>2. QED
  BY <1>1, NoneTyped DEF Differ, NoCall

(* What ReserveCall, Recheck and Poll do to a caller, as one of three      *)
(* outcomes: it is authorized on a verdict of "grant", refused, or waits.  *)
Answered(c) ==
  \E r \in [Dims -> Nat], p \in Nat, why \in {"share", "wait", "ended", "spent"} :
    \/ Verdict(c, r) = "grant" /\ Admit(c, r)
    \/ Exceed(c, r, why)
    \/ Wait(c, r, p)

\* An answer grants, refuses or asks to wait.
LEMMA VerdictKinds ==
  ASSUME NEW c, NEW r PROVE Verdict(c, r) \in {"grant", "share", "wait", "ended", "spent"}
  BY DEF Verdict, Then, ScopeAnswer, RunAnswer, GateAnswer

BudgetFrame == UNCHANGED <<total, llmCalls, maxCalls, open, spent, grant, over, loose, gathering>>

\* What each answer writes.
LEMMA Answers ==
  ASSUME BudgetTypeOK, NEW c \in LLMCalls, ReserveCall(c) \/ Recheck(c) \/ Poll(c)
  PROVE  Answered(c) /\ BudgetFrame
<1>0. MaxPolls \in Nat /\ Requests \subseteq [Dims -> Nat]
  BY BudgetAssumption
<1>1. call[c].req \in [Dims -> Nat] /\ call[c].polls \in Nat
  BY DEF BudgetTypeOK
<1>2. CASE ReserveCall(c)
  <2>1. PICK r \in Requests : LET v == Verdict(c, r) IN
         \/ v = "grant" /\ Admit(c, r)
         \/ v = "wait" /\ MaxPolls > 0 /\ Wait(c, r, 0)
         \/ v # "grant" /\ (v = "wait" => MaxPolls = 0) /\ Exceed(c, r, v)
    BY <1>2 DEF ReserveCall
  <2>2. r \in [Dims -> Nat] /\ 0 \in Nat
    BY <1>0
  <2>3. QED
    BY <1>2, <2>1, <2>2, VerdictKinds DEF ReserveCall, Answered, BudgetFrame
<1>3. CASE Recheck(c)
  BY <1>1, <1>3, VerdictKinds DEF Recheck, Answered, BudgetFrame
<1>4. CASE Poll(c)
  <2>1. call[c].polls + 1 \in Nat
    BY <1>1
  <2>2. QED
    BY <1>1, <1>4, <2>1 DEF Poll, Answered, BudgetFrame
<1>5. QED
  BY <1>2, <1>3, <1>4

(* The status of the caller decides which table of calls comes out.        *)
LEMMA AnsweredCases ==
  ASSUME BudgetTypeOK, NEW c \in LLMCalls, Answered(c)
  PROVE  /\ call' \in [LLMCalls -> CallRecords] /\ Differ(call, call', c)
         /\ mode' \in Modes /\ drawn' \in BOOLEAN
         /\ \/ /\ call'[c].st = "inflight"
               /\ Verdict(c, call'[c].req) = "grant"
               /\ drawn' = (drawn \/ AllowsReserve(c))
            \/ call'[c].st # "inflight" /\ drawn' = drawn
<1>1. PICK r \in [Dims -> Nat], p \in Nat, why \in {"share", "wait", "ended", "spent"} :
        \/ Verdict(c, r) = "grant" /\ Admit(c, r)
        \/ Exceed(c, r, why)
        \/ Wait(c, r, p)
  BY DEF Answered
<1>2. mode \in Modes /\ drawn \in BOOLEAN
  BY DEF BudgetTypeOK, Modes
<1>3. CASE Verdict(c, r) = "grant" /\ Admit(c, r)
  <2>1. Settle(c, "inflight", r, 0) /\ drawn' = (drawn \/ AllowsReserve(c)) /\ mode' = mode
    BY <1>3 DEF Admit
  <2>2. "inflight" \in Statuses /\ 0 \in Nat
    BY DEF Statuses
  <2>3. call' \in [LLMCalls -> CallRecords] /\ call'[c].st = "inflight" /\ call'[c].req = r /\ Differ(call, call', c)
    BY <2>1, <2>2, SettleTyped
  <2>4. drawn' \in BOOLEAN
    BY <1>2, <2>1, Zenon DEF AllowsReserve
  <2>5. QED
    BY <1>2, <1>3, <2>1, <2>3, <2>4, Zenon
<1>4. CASE Exceed(c, r, why)
  <2>1. Settle(c, "refused", r, 0) /\ drawn' = drawn /\ mode' = AfterExceeded(c, why)
    BY <1>4 DEF Exceed
  <2>2. "refused" \in Statuses /\ 0 \in Nat
    BY DEF Statuses
  <2>3. call' \in [LLMCalls -> CallRecords] /\ call'[c].st = "refused" /\ Differ(call, call', c)
    BY <2>1, <2>2, SettleTyped
  <2>4. mode' \in Modes
    BY <1>2, <2>1, BudgetAssumption DEF AfterExceeded, BeginFinalization, Modes
  <2>5. "refused" # "inflight"
    OBVIOUS
  <2>6. QED
    BY <1>2, <2>1, <2>3, <2>4, <2>5, Zenon
<1>5. CASE Wait(c, r, p)
  <2>1. Settle(c, "waiting", r, p) /\ drawn' = drawn /\ mode' = mode
    BY <1>5 DEF Wait
  <2>2. "waiting" \in Statuses
    BY DEF Statuses
  <2>3. call' \in [LLMCalls -> CallRecords] /\ call'[c].st = "waiting" /\ Differ(call, call', c)
    BY <2>1, <2>2, SettleTyped
  <2>4. "waiting" # "inflight"
    OBVIOUS
  <2>6. QED
    BY <1>2, <2>1, <2>3, <2>4, Zenon
<1>6. QED
  BY <1>1, <1>3, <1>4, <1>5

\* A mode is one of the four.
LEMMA RefreshedTyped ==
  ASSUME mode \in Modes, NEW t, NEW n PROVE RefreshedMode(t, n) \in Modes
  BY DEF RefreshedMode, Modes

(* absorb: what a worker used is at most its slice and what the absorption *)
(* books as above it, as an overrun or, for what the slice did not bound,  *)
(* as loose; calls under a bound are never above it.                       *)
LEMMA AbsorbEffect ==
  ASSUME BudgetTypeOK, NEW w \in Workers, Absorb(w)
  PROVE  /\ total' \in [Dims -> Nat] /\ llmCalls' \in Nat /\ mode' \in Modes
         /\ over' \in [Keys -> Nat] /\ loose' \in [Keys -> Nat]
         /\ \A d \in Dims : /\ total'[d] + over[d] + loose[d]
                                 <= total[d] + grant[w].cap[d] + over'[d] + loose'[d]
                            /\ over[d] <= over'[d]
         /\ llmCalls' + loose["calls"] <= llmCalls + grant[w].cap["calls"] + loose'["calls"]
<1>1. PICK t \in UsedUnder(grant[w], "tokens"), x \in UsedUnder(grant[w], "cost"),
        n \in UsedUnder(grant[w], "calls") :
       LET u == [tokens |-> t, cost |-> x, calls |-> n]
           above == [k \in Keys |-> Larger(0, u[k] - grant[w].cap[k])]
       IN /\ total' = Plus(total, u)
          /\ llmCalls' = llmCalls + n
          /\ over' = Plus(over, [k \in grant[w].bound |-> above[k]])
          /\ loose' = Plus(loose, [k \in Keys \ grant[w].bound |-> above[k]])
          /\ mode' = RefreshedMode(Plus(total, u), llmCalls + n)
  BY Zenon DEF Absorb
<1> DEFINE u == [tokens |-> t, cost |-> x, calls |-> n]
           above == [k \in Keys |-> Larger(0, u[k] - grant[w].cap[k])]
           B == grant[w].bound
           cap == grant[w].cap
<1>2. Keys = {"tokens", "cost", "calls"} /\ Dims = {"tokens", "cost"}
  BY DEF Keys, Dims
<1>3. /\ total \in [Dims -> Nat] /\ llmCalls \in Nat /\ maxCalls \in Nat
      /\ over \in [Keys -> Nat] /\ loose \in [Keys -> Nat] /\ mode \in Modes
      /\ cap \in [Keys -> Nat] /\ B \in SUBSET Keys
  BY BudgetAssumption DEF BudgetTypeOK, Modes
<1>4. Overrun \in Nat /\ Limit \in [Dims -> Nat]
  BY BudgetAssumption
<1>5. t \in Nat /\ x \in Nat /\ n \in Nat
  BY <1>1, <1>2, <1>3, <1>4 DEF UsedUnder
<1>6. "calls" \in B => n <= cap["calls"]
  BY <1>2, <1>3 DEF UsedUnder
<1>7. u \in [Keys -> Nat] /\ u["calls"] = n
  BY <1>2, <1>5
<1>8. /\ total' = Plus(total, u) /\ llmCalls' = llmCalls + n
      /\ over' = Plus(over, [k \in B |-> above[k]])
      /\ loose' = Plus(loose, [k \in Keys \ B |-> above[k]])
      /\ mode' = RefreshedMode(Plus(total, u), llmCalls + n)
  BY <1>1
<1> HIDE DEF u, B, cap
<1>9. above \in [Keys -> Nat] /\ \A k \in Keys : u[k] <= cap[k] + above[k] /\ (u[k] <= cap[k] => above[k] = 0)
  BY <1>3, <1>7 DEF Larger, cap
<1> HIDE DEF above
<1>10. /\ [k \in B |-> above[k]] \in [B -> Nat]
       /\ [k \in Keys \ B |-> above[k]] \in [Keys \ B -> Nat]
  BY <1>3, <1>9
<1>11. /\ over' \in [Keys -> Nat]
       /\ \A k \in Keys : over'[k] = over[k] + (IF k \in B THEN above[k] ELSE 0)
  BY <1>3, <1>8, <1>10 DEF Plus
<1>12. /\ loose' \in [Keys -> Nat]
       /\ \A k \in Keys : loose'[k] = loose[k] + (IF k \in Keys \ B THEN above[k] ELSE 0)
  BY <1>3, <1>8, <1>10 DEF Plus
<1>13. /\ total' \in [Dims -> Nat]
       /\ \A d \in Dims : total'[d] = total[d] + (IF d \in Keys THEN u[d] ELSE 0)
  BY <1>3, <1>7, <1>8 DEF Plus
<1>14. mode' \in Modes
  BY <1>3, <1>8, RefreshedTyped
<1>15. ASSUME NEW d \in Dims
       PROVE  /\ total'[d] + over[d] + loose[d] <= total[d] + cap[d] + over'[d] + loose'[d]
              /\ over[d] <= over'[d]
  <2>1. d \in Keys
    BY <1>2
  <2>2. total'[d] = total[d] + u[d] /\ over'[d] + loose'[d] = over[d] + loose[d] + above[d] /\ over[d] <= over'[d]
    BY <1>3, <1>9, <1>11, <1>12, <1>13, <2>1
  <2>3. u[d] <= cap[d] + above[d]
    BY <1>9, <2>1
  <2>4. /\ total[d] \in Nat /\ total'[d] \in Nat /\ over[d] \in Nat /\ loose[d] \in Nat /\ over'[d] \in Nat
        /\ loose'[d] \in Nat /\ u[d] \in Nat /\ cap[d] \in Nat /\ above[d] \in Nat
    BY <1>3, <1>7, <1>9, <1>11, <1>12, <1>13, <2>1
  <2>5. QED
    BY <2>2, <2>3, <2>4
<1>16. llmCalls' + loose["calls"] <= llmCalls + cap["calls"] + loose'["calls"]
  <2>1. "calls" \in Keys
    BY <1>2
  <2>2. loose'["calls"] = loose["calls"] + (IF "calls" \in B THEN 0 ELSE above["calls"])
    BY <1>3, <1>12, <2>1
  <2>3. n <= cap["calls"] + (IF "calls" \in B THEN 0 ELSE above["calls"])
    BY <1>3, <1>5, <1>6, <1>7, <1>9, <2>1
  <2>4. loose["calls"] \in Nat /\ cap["calls"] \in Nat /\ above["calls"] \in Nat
    BY <1>3, <1>9, <2>1
  <2>5. QED
    BY <1>3, <1>5, <1>8, <2>2, <2>3, <2>4
<1>17. llmCalls' \in Nat
  BY <1>3, <1>5, <1>8
<1>18. QED
  BY <1>11, <1>12, <1>13, <1>14, <1>15, <1>16, <1>17 DEF cap

(* commit: the actual usage is at most the estimate and what is booked as  *)
(* an overrun; it goes to the run and to the step the caller works for.    *)
LEMMA CommitEffect ==
  ASSUME BudgetTypeOK, NEW c \in LLMCalls, CommitCall(c)
  PROVE  /\ total' \in [Dims -> Nat] /\ llmCalls' = llmCalls + 1 /\ mode' \in Modes
         /\ over' \in [Keys -> Nat] /\ spent' \in [Scopes -> [Dims -> Nat]]
         /\ \A d \in Dims :
              /\ total'[d] + over[d] <= total[d] + call[c].req[d] + over'[d]
              /\ over[d] <= over'[d]
              /\ \A s \in open :
                   IF ScopeOf[c] = s
                   THEN spent'[s][d] + over[d] <= spent[s][d] + call[c].req[d] + over'[d]
                   ELSE spent'[s][d] = spent[s][d]
<1>1. PICK u \in Usage(call[c].req) :
        /\ total' = Plus(total, u)
        /\ llmCalls' = llmCalls + 1
        /\ spent' = IF ScopeOf[c] \in open
                    THEN [spent EXCEPT ![ScopeOf[c]] = Plus(@, u)] ELSE spent
        /\ over' = Plus(over, Excess(u, call[c].req))
        /\ mode' = RefreshedMode(Plus(total, u), llmCalls + 1)
  BY DEF CommitCall
<1> DEFINE e == call[c].req
           x == Excess(u, e)
<1>2. Dims \subseteq Keys
  BY DEF Keys, Dims
<1>3. /\ total \in [Dims -> Nat] /\ mode \in Modes /\ over \in [Keys -> Nat]
      /\ open \subseteq Scopes /\ spent \in [Scopes -> [Dims -> Nat]] /\ e \in [Dims -> Nat]
  BY DEF BudgetTypeOK, Modes
<1>4. over' = Plus(over, x) /\ u \in Usage(e)
  BY <1>1
<1> HIDE DEF e
<1>5. u \in [Dims -> Nat] /\ x \in [Dims -> Nat] /\ \A d \in Dims : u[d] <= e[d] + x[d]
  BY <1>3, <1>4, UsageTyped
<1> HIDE DEF x
<1>6. total' \in [Dims -> Nat] /\ \A d \in Dims : total'[d] = total[d] + u[d]
  BY <1>1, <1>3, <1>5 DEF Plus
<1>7. over' \in [Keys -> Nat] /\ \A k \in Keys : over'[k] = over[k] + (IF k \in Dims THEN x[k] ELSE 0)
  BY <1>3, <1>4, <1>5 DEF Plus
<1>8. \A s \in Scopes : /\ Plus(spent[s], u) \in [Dims -> Nat]
                        /\ \A d \in Dims : Plus(spent[s], u)[d] = spent[s][d] + u[d]
  BY <1>3, <1>5 DEF Plus
<1>9. spent' \in [Scopes -> [Dims -> Nat]]
  BY <1>1, <1>3, <1>8
<1>10. mode' \in Modes
  BY <1>1, <1>3, RefreshedTyped
<1>11. ASSUME NEW d \in Dims
       PROVE  total'[d] + over[d] <= total[d] + e[d] + over'[d] /\ over[d] <= over'[d]
  <2>1. total'[d] = total[d] + u[d] /\ over'[d] = over[d] + x[d] /\ u[d] <= e[d] + x[d]
    BY <1>2, <1>5, <1>6, <1>7
  <2>2. /\ total[d] \in Nat /\ over[d] \in Nat /\ u[d] \in Nat /\ x[d] \in Nat /\ e[d] \in Nat
    BY <1>2, <1>3, <1>5
  <2>3. QED
    BY <2>1, <2>2
<1>12. ASSUME NEW d \in Dims, NEW s \in open
       PROVE  IF ScopeOf[c] = s
              THEN spent'[s][d] + over[d] <= spent[s][d] + e[d] + over'[d]
              ELSE spent'[s][d] = spent[s][d]
  <2>1. s \in Scopes
    BY <1>3
  <2>2. CASE ScopeOf[c] = s
    <3>1. spent' = [spent EXCEPT ![s] = Plus(spent[s], u)]
      BY <1>1, <2>2
    <3>2. spent'[s] = Plus(spent[s], u)
      BY <1>3, <2>1, <3>1
    <3>3. spent'[s][d] = spent[s][d] + u[d]
      BY <1>8, <2>1, <3>2
    <3>4. over'[d] = over[d] + x[d] /\ u[d] <= e[d] + x[d]
      BY <1>2, <1>5, <1>7
    <3>5. /\ over[d] \in Nat /\ u[d] \in Nat /\ x[d] \in Nat /\ e[d] \in Nat /\ spent[s][d] \in Nat
      BY <1>2, <1>3, <1>5, <2>1
    <3>6. QED
      BY <2>2, <3>3, <3>4, <3>5
  <2>3. CASE ScopeOf[c] # s
    BY <1>1, <1>3, <2>1, <2>3
  <2>4. QED
    BY <2>2, <2>3
<1>13. QED
  BY <1>1, <1>6, <1>7, <1>9, <1>10, <1>11, <1>12 DEF e

(* _grant_for: what a batch is handed.                                     *)
LEMMA DispatchEffect ==
  ASSUME BudgetTypeOK, NEW W \in SUBSET Workers, Cardinality(W) >= 2, DispatchBatch(W)
  PROVE  /\ grant' \in [Workers -> GrantRecords]
         /\ \A d \in Dims : Limit[d] # 0 => GrantedIn(grant', d) <= RemainingNormal(d)
         /\ GrantedIn(grant', "calls") <= RemainingCalls
<1>1. PICK k \in Waves :
        grant' = [w \in Workers |->
                   IF w \in W
                   THEN [held  |-> TRUE,
                         cap   |-> Slice(Cardinality(W), k),
                         bound |-> SliceBounds(Cardinality(W), k)]
                   ELSE NoGrant]
  BY DEF DispatchBatch
<1>2. PICK n \in Nat \ {0} : n = Cardinality(W)
  BY BudgetAssumption, FS_Subset, FS_CardinalityType
<1>3. k \in Nat \ {0}
  BY BudgetAssumption
<1>4. PICK s \in [Keys -> Nat] : s = Slice(Cardinality(W), k)
  BY <1>2, <1>3, SliceFits
<1>5. PICK B \in SUBSET Keys : B = SliceBounds(Cardinality(W), k)
  BY DEF SliceBounds, Keys
<1>6. grant' = [w \in Workers |-> IF w \in W THEN [held |-> TRUE, cap |-> s, bound |-> B] ELSE NoGrant]
  BY <1>1, <1>4, <1>5
<1>7. ASSUME NEW x \in Keys PROVE GrantedIn(grant', x) = n * s[x]
  <2>1. GrantedIn(grant', x) = Cardinality(W) * s[x]
    <3>1. \A w \in W : grant'[w].held /\ grant'[w].cap = s
      BY <1>6
    <3>2. \A w \in Workers \ W : ~grant'[w].held
      BY <1>6 DEF NoGrant
    <3>3. Handed(grant', W, s)
      BY <3>1, <3>2 DEF Handed
    <3>4. QED
      BY <3>3, GrantedBatch, Zenon
  <2>2. QED
    BY <1>2, <2>1, Zenon
<1>8. grant' \in [Workers -> GrantRecords]
  <2>1. [held |-> TRUE, cap |-> s, bound |-> B] \in GrantRecords
    BY DEF GrantRecords
  <2>2. QED
    BY <1>6, <2>1, NoneTyped
<1>9. /\ \A d \in Dims : Limit[d] # 0 => n * s[d] <= RemainingNormal(d)
      /\ n * s["calls"] <= RemainingCalls
  BY <1>2, <1>3, <1>4, SliceFits
<1>10. "calls" \in Keys /\ Dims \subseteq Keys
  BY DEF Keys
<1>11. QED
  BY <1>7, <1>8, <1>9, <1>10

-----------------------------------------------------------------------------
(* The variables of the budget keep their types: amounts and counters are  *)
(* natural numbers, a slice is a record of amounts, and the modes and the  *)
(* statuses of the callers are the ones the code names.                    *)
LEMMA BudgetTypeStep ==
  ASSUME BudgetTypeOK, [BudgetNext]_budgetVars PROVE BudgetTypeOK'
<1> USE DEF BudgetTypeOK, CallRecords, GrantRecords, Modes
<1>1. ASSUME NEW c \in LLMCalls, ReserveCall(c) \/ Recheck(c) \/ Poll(c) PROVE BudgetTypeOK'
  <2>1. Answered(c) /\ BudgetFrame
    BY <1>1, Answers
  <2>2. call' \in [LLMCalls -> CallRecords] /\ mode' \in Modes /\ drawn' \in BOOLEAN
    BY <2>1, AnsweredCases
  <2>3. QED
    BY <2>1, <2>2 DEF BudgetFrame
<1>2. ASSUME NEW c \in LLMCalls, CommitCall(c) PROVE BudgetTypeOK'
  <2>1. call' \in [LLMCalls -> CallRecords]
    BY <1>2, ClearTyped DEF CommitCall
  <2>2. /\ total' \in [Dims -> Nat] /\ llmCalls' = llmCalls + 1 /\ mode' \in Modes
        /\ over' \in [Keys -> Nat] /\ spent' \in [Scopes -> [Dims -> Nat]]
    BY <1>2, CommitEffect
  <2>3. UNCHANGED <<maxCalls, open, grant, loose, drawn, gathering>>
    BY <1>2 DEF CommitCall
  <2>4. llmCalls' \in Nat
    BY <2>2
  <2>5. QED
    BY <2>1, <2>2, <2>3, <2>4
<1>3. ASSUME NEW c \in LLMCalls, ReleaseCall(c) \/ GiveUp(c) PROVE BudgetTypeOK'
  <2>1. call' \in [LLMCalls -> CallRecords]
    BY <1>3, ClearTyped DEF ReleaseCall, GiveUp
  <2>2. QED
    BY <1>3, <2>1 DEF ReleaseCall, GiveUp
<1>4. ASSUME NEW s \in Scopes, OpenScope(s) PROVE BudgetTypeOK'
  BY <1>4, NoneTyped DEF OpenScope
<1>5. ASSUME NEW s \in Scopes, CloseScope(s) PROVE BudgetTypeOK'
  <2>1. call' \in [LLMCalls -> CallRecords]
    BY <1>5, NoneTyped DEF CloseScope
  <2>2. QED
    BY <1>5, <2>1, NoneTyped DEF CloseScope
<1>6. ASSUME NEW W \in SUBSET Workers, Cardinality(W) >= 2, DispatchBatch(W) PROVE BudgetTypeOK'
  <2>1. grant' \in [Workers -> GrantRecords]
    BY <1>6, DispatchEffect
  <2>2. QED
    BY <1>6, <2>1 DEF DispatchBatch
<1>7. ASSUME NEW w \in Workers, Absorb(w) PROVE BudgetTypeOK'
  <2>1. /\ total' \in [Dims -> Nat] /\ llmCalls' \in Nat /\ mode' \in Modes
        /\ over' \in [Keys -> Nat] /\ loose' \in [Keys -> Nat]
    BY <1>7, AbsorbEffect
  <2>2. grant' = [grant EXCEPT ![w] = NoGrant] /\ UNCHANGED <<maxCalls, call, open, spent, drawn, gathering>>
    BY <1>7 DEF Absorb
  <2>3. grant' \in [Workers -> GrantRecords]
    BY <2>2, NoneTyped
  <2>4. QED
    BY <2>1, <2>2, <2>3
<1>8. ASSUME NEW w \in Workers, LoseWorker(w) PROVE BudgetTypeOK'
  <2>1. grant' \in [Workers -> GrantRecords]
    BY <1>8, NoneTyped DEF LoseWorker
  <2>2. QED
    BY <1>8, <2>1 DEF LoseWorker
<1>9. CASE Replan
  BY <1>9 DEF Replan, Larger
<1>10. CASE Synthesize
  BY <1>10 DEF Synthesize
<1>11. CASE UNCHANGED budgetVars
  BY <1>11 DEF budgetVars
<1>12. QED
  BY <1>1, <1>2, <1>3, <1>4, <1>5, <1>6, <1>7, <1>8, <1>9, <1>10, <1>11 DEF BudgetNext

\* A run begins with its variables in their types.
LEMMA BudgetTypeInit == BudgetInit => BudgetTypeOK
<1> SUFFICES ASSUME BudgetInit PROVE BudgetTypeOK
  OBVIOUS
<1>1. NoCall \in CallRecords /\ NoGrant \in GrantRecords /\ Zero \in [Dims -> Nat]
  BY NoneTyped
<1>2. call \in [LLMCalls -> CallRecords] /\ grant \in [Workers -> GrantRecords]
  BY <1>1 DEF BudgetInit
<1>3. over \in [Keys -> Nat] /\ loose \in [Keys -> Nat]
  BY DEF BudgetInit
<1>4. QED
  BY <1>1, <1>2, <1>3 DEF BudgetInit, BudgetTypeOK, CallRecords, GrantRecords

(* The variables of a run's budget keep their types, whatever the callers, *)
(* the limits and the widths of the batches (BudgetController of           *)
(* chat_budget.py).                                                        *)
THEOREM BudgetTypeCorrect == BudgetSpec => []BudgetTypeOK
<1>1. QED
  BY BudgetTypeInit, BudgetTypeStep, PTL DEF BudgetSpec

-----------------------------------------------------------------------------
(* What the run has spent, what its calls hold and what its grants hold    *)
(* fit into its limit, or, while nothing may use it, into its limit less   *)
(* the reserve.                                                            *)
Fits(keep) ==
  /\ \A d \in Dims : Limit[d] # 0 =>
       total[d] + HeldIn(call, LLMCalls, d) + GrantedIn(grant, d)
         <= Limit[d] - (IF keep THEN Reserve[d] ELSE 0) + over[d] + loose[d]
  /\ llmCalls + Cardinality(Pending(call)) + GrantedIn(grant, "calls")
       <= maxCalls - (IF keep THEN CallReserve(maxCalls) ELSE 0) + loose["calls"]
ReserveFits == ~drawn => Fits(TRUE)
(* While a batch runs elsewhere no step is open and no call is pending.    *)
Quiet == ~Coordinating => open = {} /\ \A c \in LLMCalls : call[c].st = "idle"
(* The calls of a step come and go with its scope.                         *)
Scoped == \A c \in LLMCalls : call[c].st # "idle" /\ ScopeOf[c] # NoScope => ScopeOf[c] \in open
Shares ==
  \A s \in open, d \in Dims : Ceiling[s][d] # 0 =>
    spent[s][d] + HeldIn(call, CallersOf(s), d) <= Ceiling[s][d] + over[d]
BudgetIInv == BudgetTypeOK /\ Fits(FALSE) /\ ReserveFits /\ Quiet /\ Scoped /\ Shares

(* The ceiling rises with a plan, and what it leaves to the work with it.  *)
LEMMA ReserveRises ==
  ASSUME NEW m \in Nat \ {0}, NEW n \in Nat \ {0}, m <= n
  PROVE  /\ CallReserve(m) \in 0 .. m
         /\ m - CallReserve(m) <= n - CallReserve(n)
  BY DEF CallReserve, Smaller, Larger

\* What no step does: lose what was spent, or lower a ceiling.
LEMMA Amounts ==
  ASSUME BudgetTypeOK
  PROVE  /\ \A d \in Dims : /\ total[d] \in Nat /\ over[d] \in Nat /\ loose[d] \in Nat
                            /\ Limit[d] \in Nat /\ Reserve[d] \in Nat /\ Reserve[d] <= Limit[d]
                            /\ GrantedIn(grant, d) \in Nat
                            /\ \A C : HeldIn(call, C, d) \in Nat
         /\ llmCalls \in Nat /\ maxCalls \in Nat \ {0} /\ loose["calls"] \in Nat
         /\ Cardinality(Pending(call)) \in Nat /\ GrantedIn(grant, "calls") \in Nat
         /\ CallReserve(maxCalls) \in 0 .. maxCalls
<1>1. Dims \subseteq Keys /\ "calls" \in Keys
  BY DEF Keys
<1>2. call \in [LLMCalls -> CallRecords] /\ grant \in [Workers -> GrantRecords]
  BY DEF BudgetTypeOK, CallRecords, GrantRecords
<1>3. \A k \in Keys : GrantedIn(grant, k) \in Nat
  BY <1>2, GrantedNat
<1>4. \A C : \A d \in Dims : HeldIn(call, C, d) \in Nat
  BY <1>2, HeldNat
<1>5. Cardinality(Pending(call)) \in Nat
  BY PendingFinite, FS_CardinalityType
<1>6. \A d \in Dims : /\ total[d] \in Nat /\ over[d] \in Nat /\ loose[d] \in Nat
                      /\ Limit[d] \in Nat /\ Reserve[d] \in Nat /\ Reserve[d] <= Limit[d]
  BY <1>1, BudgetAssumption DEF BudgetTypeOK
<1>7. llmCalls \in Nat /\ loose["calls"] \in Nat
  BY <1>1 DEF BudgetTypeOK
<1>8. QED
  BY <1>1, <1>3, <1>4, <1>5, <1>6, <1>7, RemainingNat

(* A step that books whatever it adds keeps the accounts.                  *)
Booked ==
  /\ \A d \in Dims :
       total'[d] + HeldIn(call', LLMCalls, d) + GrantedIn(grant', d) + over[d] + loose[d]
         <= total[d] + HeldIn(call, LLMCalls, d) + GrantedIn(grant, d) + over'[d] + loose'[d]
  /\ llmCalls' + Cardinality(Pending(call')) + GrantedIn(grant', "calls") + loose["calls"]
       <= llmCalls + Cardinality(Pending(call)) + GrantedIn(grant, "calls") + loose'["calls"]
  /\ maxCalls <= maxCalls'

\* Every step: booked amounts and ceilings only grow.
LEMMA AmountsNext ==
  ASSUME BudgetTypeOK'
  PROVE  /\ \A d \in Dims : /\ total'[d] \in Nat /\ over'[d] \in Nat /\ loose'[d] \in Nat
                            /\ GrantedIn(grant', d) \in Nat
                            /\ \A C : HeldIn(call', C, d) \in Nat
         /\ llmCalls' \in Nat /\ maxCalls' \in Nat \ {0} /\ loose'["calls"] \in Nat
         /\ Cardinality(Pending(call')) \in Nat /\ GrantedIn(grant', "calls") \in Nat
         /\ CallReserve(maxCalls') \in 0 .. maxCalls'
<1>1. Dims \subseteq Keys /\ "calls" \in Keys
  BY DEF Keys
<1>2. call' \in [LLMCalls -> CallRecords] /\ grant' \in [Workers -> GrantRecords]
  BY DEF BudgetTypeOK, CallRecords, GrantRecords
<1>3. \A k \in Keys : GrantedIn(grant', k) \in Nat
  BY <1>2, GrantedNat
<1>4. \A C : \A d \in Dims : HeldIn(call', C, d) \in Nat
  BY <1>2, HeldNat
<1>5. Cardinality(Pending(call')) \in Nat
  BY PendingFinite, FS_CardinalityType
<1>6. \A d \in Dims : total'[d] \in Nat /\ over'[d] \in Nat /\ loose'[d] \in Nat
  BY <1>1 DEF BudgetTypeOK
<1>7. llmCalls' \in Nat /\ loose'["calls"] \in Nat /\ maxCalls' \in Nat \ {0}
  BY <1>1, BudgetAssumption DEF BudgetTypeOK
<1>8. CallReserve(maxCalls') \in 0 .. maxCalls'
  BY <1>7, ReserveRises
<1>9. QED
  BY <1>1, <1>3, <1>4, <1>5, <1>6, <1>7, <1>8

\* A step that books within the limits keeps the limits.
LEMMA BookedFits ==
  ASSUME BudgetTypeOK, BudgetTypeOK', Booked, NEW keep, Fits(keep) PROVE Fits(keep)'
<1>1. ASSUME NEW d \in Dims, Limit[d] # 0
      PROVE  total'[d] + HeldIn(call', LLMCalls, d) + GrantedIn(grant', d)
               <= Limit[d] - (IF keep THEN Reserve[d] ELSE 0) + over'[d] + loose'[d]
  <2>1. /\ total'[d] + HeldIn(call', LLMCalls, d) + GrantedIn(grant', d) + over[d] + loose[d]
             <= total[d] + HeldIn(call, LLMCalls, d) + GrantedIn(grant, d) + over'[d] + loose'[d]
        /\ total[d] + HeldIn(call, LLMCalls, d) + GrantedIn(grant, d)
             <= Limit[d] - (IF keep THEN Reserve[d] ELSE 0) + over[d] + loose[d]
    BY <1>1 DEF Booked, Fits
  <2>2. /\ total'[d] \in Nat /\ over'[d] \in Nat /\ loose'[d] \in Nat /\ GrantedIn(grant', d) \in Nat
        /\ HeldIn(call', LLMCalls, d) \in Nat
    BY AmountsNext
  <2>3. /\ total[d] \in Nat /\ over[d] \in Nat /\ loose[d] \in Nat /\ GrantedIn(grant, d) \in Nat
        /\ HeldIn(call, LLMCalls, d) \in Nat /\ Limit[d] \in Nat /\ Reserve[d] \in Nat
    BY Amounts
  <2>4. QED
    BY <2>1, <2>2, <2>3
<1>2. llmCalls' + Cardinality(Pending(call')) + GrantedIn(grant', "calls")
        <= maxCalls' - (IF keep THEN CallReserve(maxCalls') ELSE 0) + loose'["calls"]
  <2>1. maxCalls - (IF keep THEN CallReserve(maxCalls) ELSE 0)
          <= maxCalls' - (IF keep THEN CallReserve(maxCalls') ELSE 0)
    BY Amounts, AmountsNext, ReserveRises DEF Booked
  <2>2. /\ llmCalls' + Cardinality(Pending(call')) + GrantedIn(grant', "calls") + loose["calls"]
             <= llmCalls + Cardinality(Pending(call)) + GrantedIn(grant, "calls") + loose'["calls"]
        /\ llmCalls + Cardinality(Pending(call)) + GrantedIn(grant, "calls")
             <= maxCalls - (IF keep THEN CallReserve(maxCalls) ELSE 0) + loose["calls"]
    BY DEF Booked, Fits
  <2>3. QED
    BY <2>1, <2>2, Amounts, AmountsNext
<1>3. QED
  BY <1>1, <1>2 DEF Fits

-----------------------------------------------------------------------------
(* An authorization has passed every test: the share of the step, the run  *)
(* and the loop guard, each with what is in flight counted.                *)
LEMMA GrantPasses ==
  ASSUME NEW c \in LLMCalls, NEW r, Verdict(c, r) = "grant"
  PROVE  /\ \A d \in Dims : ~ScopeHeld(c, r, d) /\ ~RunHeld(c, r, d)
         /\ ~CallsOver(c)
<1>1. /\ ScopeAnswer(c, r, "tokens") = "grant" /\ ScopeAnswer(c, r, "cost") = "grant"
      /\ GateAnswer(c) = "grant"
      /\ RunAnswer(c, r, "tokens") = "grant" /\ RunAnswer(c, r, "cost") = "grant"
  BY DEF Verdict, Then
<1>2. \A d \in Dims : ~ScopeHeld(c, r, d) /\ ~RunHeld(c, r, d)
  BY <1>1 DEF Dims, ScopeAnswer, RunAnswer
<1>3. ~CallsOver(c)
  BY <1>1 DEF GateAnswer
<1>4. QED
  BY <1>2, <1>3

\* An answer keeps what was booked and what is in flight inside the limits.
LEMMA AnswerKeeps ==
  ASSUME BudgetIInv, BudgetTypeOK', NEW c \in LLMCalls, call[c].st # "inflight", Coordinating,
         Answered(c), BudgetFrame
  PROVE  Fits(FALSE)' /\ ReserveFits' /\ Shares'
<1>0. BudgetTypeOK /\ Fits(FALSE) /\ ReserveFits /\ Shares
  BY DEF BudgetIInv
<1>1. /\ total' = total /\ llmCalls' = llmCalls /\ maxCalls' = maxCalls /\ open' = open
      /\ spent' = spent /\ grant' = grant /\ over' = over /\ loose' = loose
  BY DEF BudgetFrame
<1>2. Differ(call, call', c)
  BY <1>0, AnsweredCases
<1>3. CASE call'[c].st # "inflight" /\ drawn' = drawn
  <2>1. \A C : \A d \in Dims : HeldIn(call', C, d) = HeldIn(call, C, d)
    BY <1>2, <1>3, HeldSettles
  <2>2. Cardinality(Pending(call')) = Cardinality(Pending(call))
    BY <1>2, <1>3, CountSettles
  <2>3. Booked
    BY <1>0, <1>1, <2>1, <2>2, Amounts DEF Booked
  <2>4. Fits(FALSE)' /\ ReserveFits'
    BY <1>0, <1>3, <2>3, BookedFits DEF ReserveFits
  <2>5. Shares'
    BY <1>0, <1>1, <2>1 DEF Shares
  <2>6. QED
    BY <2>4, <2>5
<1>4. CASE /\ call'[c].st = "inflight"
           /\ Verdict(c, call'[c].req) = "grant"
           /\ drawn' = (drawn \/ AllowsReserve(c))
  <2> DEFINE r == call'[c].req
  <2>1. /\ \A d \in Dims : ~ScopeHeld(c, r, d) /\ ~RunHeld(c, r, d)
        /\ ~CallsOver(c)
    BY <1>4, GrantPasses
  <2>2. \A C : \A d \in Dims : HeldIn(call', C, d) = IF c \in C THEN r[d] + HeldIn(call, C, d) ELSE HeldIn(call, C, d)
    BY <1>2, <1>4, HeldGrows
  <2>3. Cardinality(Pending(call')) = Cardinality(Pending(call)) + 1
    BY <1>2, <1>4, CountGrows
  <2>4. \A k : GrantedIn(grant', k) = 0
    BY <1>1, GrantedNone DEF Coordinating, Holders
  <2>5. \A d \in Dims : r[d] \in Nat
    BY <1>2 DEF Differ, CallRecords
  <2>6. Cardinality(InFlight) = Cardinality(Pending(call))
    BY DEF InFlight, Pending
  <2> HIDE DEF r
  <2>7. ASSUME NEW keep \in BOOLEAN, keep => ~AllowsReserve(c) PROVE Fits(keep)'
    <3>1. ASSUME NEW d \in Dims, Limit[d] # 0
          PROVE  total'[d] + HeldIn(call', LLMCalls, d) + GrantedIn(grant', d)
                   <= Limit[d] - (IF keep THEN Reserve[d] ELSE 0) + over'[d] + loose'[d]
      <4>1. total[d] + r[d] + HeldIn(call, LLMCalls, d) <= Limit[d] - (IF keep THEN Reserve[d] ELSE 0)
        <5>1. ~(total[d] + r[d] + HeldIn(call, LLMCalls, d) > Room(c, d))
          BY <2>1, <3>1, HeldIsHeldIn DEF RunHeld
        <5>2. Room(c, d) <= Limit[d] - (IF keep THEN Reserve[d] ELSE 0)
          BY <1>0, <2>7, Amounts DEF Room
        <5>3. Room(c, d) \in Int
          BY <1>0, Amounts DEF Room
        <5>4. QED
          BY <1>0, <2>5, <5>1, <5>2, <5>3, Amounts
      <4>2. HeldIn(call', LLMCalls, d) = r[d] + HeldIn(call, LLMCalls, d)
        BY <2>2
      <4>3. QED
        BY <1>0, <1>1, <2>4, <2>5, <4>1, <4>2, Amounts
    <3>2. llmCalls + Cardinality(Pending(call)) + 1 <= maxCalls - (IF keep THEN CallReserve(maxCalls) ELSE 0)
      BY <1>0, <2>1, <2>6, <2>7, Amounts DEF CallsOver
    <3>3. llmCalls' + Cardinality(Pending(call')) + GrantedIn(grant', "calls")
             <= maxCalls' - (IF keep THEN CallReserve(maxCalls') ELSE 0) + loose'["calls"]
      BY <1>0, <1>1, <2>3, <2>4, <3>2, Amounts
    <3>4. QED
      BY <3>1, <3>3 DEF Fits
  <2>8. Fits(FALSE)' /\ ReserveFits'
    BY <1>4, <2>7 DEF ReserveFits
  <2>9. Shares'
    <3> SUFFICES ASSUME NEW s \in open', NEW d \in Dims, Ceiling[s][d] # 0
                 PROVE  spent'[s][d] + HeldIn(call', CallersOf(s), d) <= Ceiling[s][d] + over'[d]
      BY DEF Shares
    <3>1. CASE ScopeOf[c] = s
      <4>1. ~(spent[s][d] + HeldIn(call, CallersOf(s), d) + r[d] > Ceiling[s][d])
        BY <1>1, <2>1, <3>1, HeldIsHeldIn DEF ScopeHeld, Bounded
      <4>2. spent[s][d] \in Nat /\ Ceiling[s][d] \in Nat
        BY <1>0, <1>1, BudgetAssumption DEF BudgetTypeOK
      <4>3. HeldIn(call', CallersOf(s), d) = r[d] + HeldIn(call, CallersOf(s), d)
        BY <2>2, <3>1 DEF CallersOf
      <4>4. QED
        BY <1>0, <1>1, <2>5, <4>1, <4>2, <4>3, Amounts
    <3>2. CASE ScopeOf[c] # s
      <4>1. HeldIn(call', CallersOf(s), d) = HeldIn(call, CallersOf(s), d)
        BY <2>2, <3>2 DEF CallersOf
      <4>2. QED
        BY <1>0, <1>1, <4>1 DEF Shares
    <3>3. QED
      BY <3>1, <3>2
  <2>10. QED
    BY <2>8, <2>9
<1>5. QED
  BY <1>0, <1>3, <1>4, AnsweredCases

(* A caller that asks is in a step that is open, and no batch runs.        *)
LEMMA AsksInScope ==
  ASSUME BudgetIInv, NEW c \in LLMCalls, ReserveCall(c) \/ Recheck(c) \/ Poll(c)
  PROVE  /\ call[c].st # "inflight" /\ Coordinating
         /\ ScopeOf[c] # NoScope => ScopeOf[c] \in open
  BY DEF BudgetIInv, Quiet, Scoped, ReserveCall, Recheck, Poll, MayCall

\* Every answer keeps the invariant.
LEMMA AnswerSteps ==
  ASSUME BudgetIInv, BudgetTypeOK', NEW c \in LLMCalls, ReserveCall(c) \/ Recheck(c) \/ Poll(c)
  PROVE  BudgetIInv'
<1>0. BudgetTypeOK
  BY DEF BudgetIInv
<1>1. Answered(c) /\ BudgetFrame
  BY <1>0, Answers
<1>2. call[c].st # "inflight" /\ Coordinating /\ (ScopeOf[c] # NoScope => ScopeOf[c] \in open)
  BY AsksInScope
<1>3. Fits(FALSE)' /\ ReserveFits' /\ Shares'
  BY <1>1, <1>2, AnswerKeeps
<1>4. Quiet'
  BY <1>1, <1>2 DEF Quiet, Coordinating, BudgetFrame
<1>5. Scoped'
  <2>1. Differ(call, call', c)
    BY <1>0, <1>1, AnsweredCases
  <2>2. open' = open
    BY <1>1 DEF BudgetFrame
  <2>3. QED
    BY <1>2, <2>1, <2>2 DEF Scoped, BudgetIInv, Differ
<1>6. QED
  BY <1>3, <1>4, <1>5 DEF BudgetIInv

(* What a call that ends leaves.                                           *)
LEMMA CommitSteps ==
  ASSUME BudgetIInv, BudgetTypeOK', NEW c \in LLMCalls, CommitCall(c) PROVE BudgetIInv'
<1>0. BudgetTypeOK /\ Fits(FALSE) /\ ReserveFits /\ Shares /\ Quiet /\ Scoped
  BY DEF BudgetIInv
<1>1. /\ maxCalls' = maxCalls /\ open' = open /\ grant' = grant /\ loose' = loose /\ drawn' = drawn
      /\ call[c].st = "inflight" /\ call' = [call EXCEPT ![c] = NoCall]
  BY DEF CommitCall
<1>2. Differ(call', call, c) /\ Differ(call, call', c) /\ call'[c].st = "idle"
  BY <1>0, <1>1, ClearTyped
<1>3. \A C : \A d \in Dims : HeldIn(call, C, d) =
        IF c \in C THEN call[c].req[d] + HeldIn(call', C, d) ELSE HeldIn(call', C, d)
  <2>1. call'[c].st # "inflight" /\ call[c].st = "inflight"
    BY <1>1, <1>2
  <2>2. QED
    BY <1>2, <2>1, HeldGrows
<1>4. Cardinality(Pending(call)) = Cardinality(Pending(call')) + 1
  BY <1>1, <1>2, CountGrows
<1>5. /\ llmCalls' = llmCalls + 1
      /\ \A d \in Dims :
              /\ total'[d] + over[d] <= total[d] + call[c].req[d] + over'[d]
              /\ over[d] <= over'[d]
              /\ \A s \in open :
                   IF ScopeOf[c] = s
                   THEN spent'[s][d] + over[d] <= spent[s][d] + call[c].req[d] + over'[d]
                   ELSE spent'[s][d] = spent[s][d]
  BY <1>0, CommitEffect
<1>6. \A d \in Dims : call[c].req[d] \in Nat
  BY <1>0 DEF BudgetTypeOK
<1>7. Booked
  <2>1. ASSUME NEW d \in Dims
        PROVE  total'[d] + HeldIn(call', LLMCalls, d) + GrantedIn(grant', d) + over[d] + loose[d]
                 <= total[d] + HeldIn(call, LLMCalls, d) + GrantedIn(grant, d) + over'[d] + loose'[d]
    <3>1. HeldIn(call, LLMCalls, d) = call[c].req[d] + HeldIn(call', LLMCalls, d)
      BY <1>3
    <3>2. total'[d] + over[d] <= total[d] + call[c].req[d] + over'[d]
      BY <1>5
    <3>3. GrantedIn(grant', d) = GrantedIn(grant, d) /\ loose'[d] = loose[d]
      BY <1>1
    <3>4. QED
      BY <1>0, <1>6, <3>1, <3>2, <3>3, Amounts, AmountsNext
  <2>2. llmCalls' + Cardinality(Pending(call')) + GrantedIn(grant', "calls") + loose["calls"]
          <= llmCalls + Cardinality(Pending(call)) + GrantedIn(grant, "calls") + loose'["calls"]
    BY <1>0, <1>1, <1>4, <1>5, Amounts, AmountsNext
  <2>3. maxCalls <= maxCalls'
    BY <1>0, <1>1, Amounts
  <2>4. QED
    BY <2>1, <2>2, <2>3, Zenon DEF Booked
<1>8. Fits(FALSE)' /\ ReserveFits'
  BY <1>0, <1>1, <1>7, BookedFits DEF ReserveFits
<1>9. Shares'
  <2> SUFFICES ASSUME NEW s \in open', NEW d \in Dims, Ceiling[s][d] # 0
               PROVE  spent'[s][d] + HeldIn(call', CallersOf(s), d) <= Ceiling[s][d] + over'[d]
    BY DEF Shares
  <2>1. s \in open /\ spent[s][d] \in Nat /\ spent'[s][d] \in Nat /\ Ceiling[s][d] \in Nat
    BY <1>0, <1>1, BudgetAssumption DEF BudgetTypeOK
  <2>2. spent[s][d] + HeldIn(call, CallersOf(s), d) <= Ceiling[s][d] + over[d]
    BY <1>0, <2>1 DEF Shares
  <2>3. /\ over[d] \in Nat /\ over'[d] \in Nat /\ HeldIn(call, CallersOf(s), d) \in Nat
        /\ HeldIn(call', CallersOf(s), d) \in Nat
    BY <1>0, Amounts, AmountsNext
  <2>4. CASE ScopeOf[c] = s
    <3>1. HeldIn(call, CallersOf(s), d) = call[c].req[d] + HeldIn(call', CallersOf(s), d)
      BY <1>3, <2>4 DEF CallersOf
    <3>2. spent'[s][d] + over[d] <= spent[s][d] + call[c].req[d] + over'[d]
      BY <1>5, <2>1, <2>4
    <3>3. QED
      BY <1>6, <2>1, <2>2, <2>3, <3>1, <3>2
  <2>5. CASE ScopeOf[c] # s
    <3>1. HeldIn(call, CallersOf(s), d) = HeldIn(call', CallersOf(s), d)
      BY <1>3, <2>5 DEF CallersOf
    <3>2. spent'[s][d] = spent[s][d] /\ over[d] <= over'[d]
      BY <1>5, <2>1, <2>5
    <3>3. QED
      BY <2>1, <2>2, <2>3, <3>1, <3>2
  <2>6. QED
    BY <2>4, <2>5
<1>10. Quiet' /\ Scoped'
  BY <1>0, <1>1, <1>2 DEF Quiet, Scoped, Coordinating, Differ
<1>11. QED
  BY <1>8, <1>9, <1>10 DEF BudgetIInv

(* A step that only frees what calls held books nothing.                   *)
LEMMA FreedIsBooked ==
  ASSUME BudgetTypeOK, BudgetTypeOK', UNCHANGED <<total, llmCalls, maxCalls, grant, over, loose>>,
         \A C : \A d \in Dims : HeldIn(call', C, d) <= HeldIn(call, C, d),
         Cardinality(Pending(call')) <= Cardinality(Pending(call))
  PROVE  Booked
<1>1. ASSUME NEW d \in Dims
      PROVE  total'[d] + HeldIn(call', LLMCalls, d) + GrantedIn(grant', d) + over[d] + loose[d]
               <= total[d] + HeldIn(call, LLMCalls, d) + GrantedIn(grant, d) + over'[d] + loose'[d]
  <2>1. HeldIn(call', LLMCalls, d) <= HeldIn(call, LLMCalls, d)
    OBVIOUS
  <2>2. QED
    BY <2>1, Amounts, AmountsNext
<1>2. llmCalls' + Cardinality(Pending(call')) + GrantedIn(grant', "calls") + loose["calls"]
        <= llmCalls + Cardinality(Pending(call)) + GrantedIn(grant, "calls") + loose'["calls"]
  BY Amounts, AmountsNext
<1>3. maxCalls <= maxCalls'
  BY Amounts
<1>4. QED
  BY <1>1, <1>2, <1>3, Zenon DEF Booked

\* A call that fails gives back what it held.
LEMMA ReleaseSteps ==
  ASSUME BudgetIInv, BudgetTypeOK', NEW c \in LLMCalls, ReleaseCall(c) \/ GiveUp(c) PROVE BudgetIInv'
<1>0. BudgetTypeOK /\ Fits(FALSE) /\ ReserveFits /\ Shares /\ Quiet /\ Scoped
  BY DEF BudgetIInv
<1>1. /\ total' = total /\ llmCalls' = llmCalls /\ maxCalls' = maxCalls /\ open' = open
      /\ spent' = spent /\ grant' = grant /\ over' = over /\ loose' = loose /\ drawn' = drawn
      /\ call[c].st \in {"inflight", "refused"} /\ call' = [call EXCEPT ![c] = NoCall]
  BY DEF ReleaseCall, GiveUp
<1>2. Differ(call', call, c) /\ Differ(call, call', c) /\ call'[c].st = "idle"
  BY <1>0, <1>1, ClearTyped
<1>3. /\ \A C : \A d \in Dims : HeldIn(call', C, d) <= HeldIn(call, C, d)
      /\ Cardinality(Pending(call')) <= Cardinality(Pending(call))
  <2>1. call'[c].st # "inflight"
    BY <1>2
  <2>2. CASE call[c].st = "inflight"
    <3>1. \A C : \A d \in Dims : HeldIn(call, C, d) =
            IF c \in C THEN call[c].req[d] + HeldIn(call', C, d) ELSE HeldIn(call', C, d)
      BY <1>2, <2>1, <2>2, HeldGrows
    <3>2. Cardinality(Pending(call)) = Cardinality(Pending(call')) + 1
      BY <1>2, <2>1, <2>2, CountGrows
    <3>3. \A d \in Dims : call[c].req[d] \in Nat
      BY <1>0 DEF BudgetTypeOK
    <3>4. QED
      BY <1>0, <3>1, <3>2, <3>3, Amounts, AmountsNext
  <2>3. CASE call[c].st # "inflight"
    <3>1. \A C : \A d \in Dims : HeldIn(call', C, d) = HeldIn(call, C, d)
      BY <1>2, <2>1, <2>3, HeldSettles
    <3>2. Cardinality(Pending(call')) = Cardinality(Pending(call))
      BY <1>2, <2>1, <2>3, CountSettles
    <3>3. QED
      BY <1>0, <3>1, <3>2, Amounts
  <2>4. QED
    BY <2>2, <2>3
<1>4. Booked
  BY <1>0, <1>1, <1>3, FreedIsBooked
<1>5. Fits(FALSE)' /\ ReserveFits'
  BY <1>0, <1>1, <1>4, BookedFits DEF ReserveFits
<1>6. Shares'
  <2> SUFFICES ASSUME NEW s \in open, NEW d \in Dims, Ceiling[s][d] # 0
               PROVE  spent[s][d] + HeldIn(call', CallersOf(s), d) <= Ceiling[s][d] + over[d]
    BY <1>1 DEF Shares
  <2>1. spent[s][d] \in Nat /\ Ceiling[s][d] \in Nat
    BY <1>0, BudgetAssumption DEF BudgetTypeOK
  <2>2. spent[s][d] + HeldIn(call, CallersOf(s), d) <= Ceiling[s][d] + over[d]
    BY <1>0 DEF Shares
  <2>3. QED
    BY <1>0, <1>3, <2>1, <2>2, Amounts, AmountsNext
<1>7. Quiet' /\ Scoped'
  BY <1>0, <1>1, <1>2 DEF Quiet, Scoped, Coordinating, Differ
<1>8. QED
  BY <1>5, <1>6, <1>7 DEF BudgetIInv

(* A scope opens empty: none of its callers has a call.                    *)
LEMMA OpenSteps ==
  ASSUME BudgetIInv, BudgetTypeOK', NEW s \in Scopes, OpenScope(s) PROVE BudgetIInv'
<1>0. BudgetTypeOK /\ Fits(FALSE) /\ ReserveFits /\ Shares /\ Quiet /\ Scoped
  BY DEF BudgetIInv
<1>1. /\ total' = total /\ llmCalls' = llmCalls /\ maxCalls' = maxCalls /\ call' = call
      /\ grant' = grant /\ over' = over /\ loose' = loose /\ drawn' = drawn
      /\ open' = open \cup {s} /\ spent' = [spent EXCEPT ![s] = Zero]
      /\ s \notin open /\ Coordinating
  BY DEF OpenScope
<1>2. Booked
  BY <1>0, <1>1, Amounts DEF Booked
<1>3. Fits(FALSE)' /\ ReserveFits'
  BY <1>0, <1>1, <1>2, BookedFits DEF ReserveFits
<1>4. Shares'
  <2> SUFFICES ASSUME NEW o \in open \cup {s}, NEW d \in Dims, Ceiling[o][d] # 0
               PROVE  spent'[o][d] + HeldIn(call, CallersOf(o), d) <= Ceiling[o][d] + over[d]
    BY <1>1 DEF Shares
  <2>1. CASE o = s
    <3>1. CallersOf(s) \cap Pending(call) = {}
      BY <1>0, <1>1, BudgetAssumption DEF Scoped, CallersOf, Pending
    <3>2. HeldIn(call, CallersOf(s), d) = 0
      BY <3>1, HeldNothing
    <3>3. spent'[s][d] = 0
      BY <1>0, <1>1 DEF BudgetTypeOK, Zero
    <3>4. over[d] \in Nat /\ Ceiling[s][d] \in Nat
      BY <1>0, Amounts, BudgetAssumption
    <3>5. QED
      BY <2>1, <3>2, <3>3, <3>4
  <2>2. CASE o # s
    <3>1. spent'[o] = spent[o] /\ o \in open
      BY <1>0, <1>1, <2>2 DEF BudgetTypeOK
    <3>2. QED
      BY <1>0, <3>1 DEF Shares
  <2>3. QED
    BY <2>1, <2>2
<1>5. Quiet' /\ Scoped'
  BY <1>0, <1>1 DEF Quiet, Scoped, Coordinating
<1>6. QED
  BY <1>3, <1>4, <1>5 DEF BudgetIInv

\* A step that ends takes the calls of its callers off the table.
LEMMA CloseSteps ==
  ASSUME BudgetIInv, BudgetTypeOK', NEW s \in Scopes, CloseScope(s) PROVE BudgetIInv'
<1>0. BudgetTypeOK /\ Fits(FALSE) /\ ReserveFits /\ Shares /\ Quiet /\ Scoped
  BY DEF BudgetIInv
<1>1. /\ total' = total /\ llmCalls' = llmCalls /\ maxCalls' = maxCalls
      /\ grant' = grant /\ over' = over /\ loose' = loose /\ drawn' = drawn
      /\ open' = open \ {s} /\ spent' = [spent EXCEPT ![s] = Zero] /\ s \in open
      /\ call' = [c \in LLMCalls |-> IF ScopeOf[c] = s THEN NoCall ELSE call[c]]
  BY DEF CloseScope
<1>2. call \in [LLMCalls -> CallRecords]
  BY <1>0 DEF BudgetTypeOK, CallRecords
<1>3. /\ \A C : \A d \in Dims :
           /\ HeldIn(call', C, d) <= HeldIn(call, C, d)
           /\ (\A c \in C : ScopeOf[c] # s) => HeldIn(call', C, d) = HeldIn(call, C, d)
      /\ Cardinality(Pending(call')) <= Cardinality(Pending(call))
  <2>1. Cleared(call, call', s)
    BY <1>1 DEF Cleared
  <2>2. ASSUME NEW C, NEW d \in Dims
        PROVE  /\ HeldIn(call', C, d) <= HeldIn(call, C, d)
               /\ Cardinality(Pending(call')) <= Cardinality(Pending(call))
               /\ (\A c \in C : ScopeOf[c] # s) => HeldIn(call', C, d) = HeldIn(call, C, d)
    BY <1>2, <2>1, HeldCloses
  <2>3. \E d : d \in Dims
    BY DEF Dims
  <2>4. QED
    BY <2>2, <2>3, Zenon
<1>4. Booked
  BY <1>0, <1>1, <1>3, FreedIsBooked
<1>5. Fits(FALSE)' /\ ReserveFits'
  BY <1>0, <1>1, <1>4, BookedFits DEF ReserveFits
<1>6. Shares'
  <2> SUFFICES ASSUME NEW o \in open \ {s}, NEW d \in Dims, Ceiling[o][d] # 0
               PROVE  spent'[o][d] + HeldIn(call', CallersOf(o), d) <= Ceiling[o][d] + over[d]
    BY <1>1 DEF Shares
  <2>1. spent'[o] = spent[o]
    BY <1>0, <1>1 DEF BudgetTypeOK
  <2>2. HeldIn(call', CallersOf(o), d) = HeldIn(call, CallersOf(o), d)
    BY <1>3 DEF CallersOf
  <2>3. QED
    BY <1>0, <2>1, <2>2 DEF Shares
<1>7. Quiet'
  BY <1>0, <1>1 DEF Quiet, Coordinating
<1>8. Scoped'
  BY <1>0, <1>1 DEF Scoped, NoCall
<1>9. QED
  BY <1>5, <1>6, <1>7, <1>8 DEF BudgetIInv

(* A batch takes what is left outside the reserve, or nothing.             *)
LEMMA DispatchSteps ==
  ASSUME BudgetIInv, BudgetTypeOK', NEW W \in SUBSET Workers, Cardinality(W) >= 2, DispatchBatch(W)
  PROVE  BudgetIInv'
<1>0. BudgetTypeOK /\ Fits(FALSE) /\ ReserveFits /\ Shares /\ Quiet /\ Scoped
  BY DEF BudgetIInv
<1>1. /\ total' = total /\ llmCalls' = llmCalls /\ maxCalls' = maxCalls /\ call' = call
      /\ open' = open /\ spent' = spent /\ over' = over /\ loose' = loose /\ drawn' = drawn
      /\ open = {} /\ (\A c \in LLMCalls : call[c].st = "idle") /\ Coordinating
  BY DEF DispatchBatch
<1>2. /\ \A d \in Dims : Limit[d] # 0 => GrantedIn(grant', d) <= RemainingNormal(d)
      /\ GrantedIn(grant', "calls") <= RemainingCalls
  BY <1>0, DispatchEffect
<1>3. Pending(call) = {} /\ LLMCalls \cap Pending(call) = {}
  BY <1>1 DEF Pending
<1>4. /\ \A d \in Dims : HeldIn(call, LLMCalls, d) = 0
      /\ Cardinality(Pending(call)) = 0
  BY <1>3, HeldNothing, FS_EmptySet
<1>5. \A k : GrantedIn(grant, k) = 0
  BY <1>1, GrantedNone DEF Coordinating, Holders
<1>6. ASSUME NEW keep \in BOOLEAN, Fits(keep) PROVE Fits(keep)'
  <2>1. ASSUME NEW d \in Dims, Limit[d] # 0
        PROVE  total'[d] + HeldIn(call', LLMCalls, d) + GrantedIn(grant', d)
                 <= Limit[d] - (IF keep THEN Reserve[d] ELSE 0) + over'[d] + loose'[d]
    <3>1. GrantedIn(grant', d) <= Larger(0, Limit[d] - Reserve[d] - total[d])
      BY <1>2, <2>1 DEF RemainingNormal
    <3>2. total[d] <= Limit[d] - (IF keep THEN Reserve[d] ELSE 0) + over[d] + loose[d]
      <4>1. total[d] + HeldIn(call, LLMCalls, d) + GrantedIn(grant, d)
              <= Limit[d] - (IF keep THEN Reserve[d] ELSE 0) + over[d] + loose[d]
        BY <1>6, <2>1 DEF Fits
      <4>2. QED
        BY <1>0, <1>4, <1>5, <4>1, Amounts
    <3>3. HeldIn(call', LLMCalls, d) = 0
      BY <1>1, <1>4
    <3>4. GrantedIn(grant', d) \in Nat
      BY AmountsNext
    <3>5. QED
      BY <1>0, <1>1, <3>1, <3>2, <3>3, <3>4, Amounts DEF Larger
  <2>2. llmCalls' + Cardinality(Pending(call')) + GrantedIn(grant', "calls")
          <= maxCalls' - (IF keep THEN CallReserve(maxCalls') ELSE 0) + loose'["calls"]
    <3>1. GrantedIn(grant', "calls") <= Larger(0, maxCalls - CallReserve(maxCalls) - llmCalls)
      BY <1>2 DEF RemainingCalls
    <3>2. llmCalls <= maxCalls - (IF keep THEN CallReserve(maxCalls) ELSE 0) + loose["calls"]
      BY <1>0, <1>4, <1>5, <1>6, Amounts DEF Fits
    <3>3. GrantedIn(grant', "calls") \in Nat
      BY AmountsNext
    <3>4. QED
      BY <1>0, <1>1, <1>4, <3>1, <3>2, <3>3, Amounts DEF Larger
  <2>3. QED
    BY <2>1, <2>2 DEF Fits
<1>7. Fits(FALSE)' /\ ReserveFits'
  BY <1>0, <1>1, <1>6 DEF ReserveFits
<1>8. Shares' /\ Quiet' /\ Scoped'
  BY <1>0, <1>1 DEF Shares, Quiet, Scoped
<1>9. QED
  BY <1>7, <1>8 DEF BudgetIInv

(* A step that ran elsewhere comes back with its usage, or is lost.        *)
LEMMA ReturnSteps ==
  ASSUME BudgetIInv, BudgetTypeOK', NEW w \in Workers, Absorb(w) \/ LoseWorker(w) PROVE BudgetIInv'
<1>0. BudgetTypeOK /\ Fits(FALSE) /\ ReserveFits /\ Shares /\ Quiet /\ Scoped
  BY DEF BudgetIInv
<1>1. /\ maxCalls' = maxCalls /\ call' = call /\ open' = open /\ spent' = spent /\ drawn' = drawn
      /\ grant[w].held /\ grant' = [grant EXCEPT ![w] = NoGrant]
  BY DEF Absorb, LoseWorker
<1>2. grant \in [Workers -> GrantRecords]
  BY <1>0 DEF BudgetTypeOK, GrantRecords
<1>3. \A k \in Keys : GrantedIn(grant, k) = grant[w].cap[k] + GrantedIn(grant', k)
  <2>1. ~grant'[w].held /\ \A x \in Workers \ {w} : grant'[x] = grant[x]
    BY <1>1, <1>2 DEF NoGrant
  <2>2. grant[w].held
    BY <1>1
  <2>3. QED
    BY <1>2, <2>1, <2>2, GrantedReturns, Zenon
<1>4. \A k \in Keys : grant[w].cap[k] \in Nat
  BY <1>2 DEF GrantRecords
<1>5. Dims \subseteq Keys /\ "calls" \in Keys
  BY DEF Keys
<1>6. /\ \A d \in Dims : /\ total'[d] + over[d] + loose[d]
                                 <= total[d] + grant[w].cap[d] + over'[d] + loose'[d]
                         /\ over[d] <= over'[d]
      /\ llmCalls' + loose["calls"] <= llmCalls + grant[w].cap["calls"] + loose'["calls"]
  <2>1. CASE Absorb(w)
    BY <1>0, <2>1, AbsorbEffect
  <2>2. CASE LoseWorker(w)
    <3>1. total' = total /\ llmCalls' = llmCalls /\ over' = over /\ loose' = loose
      BY <2>2 DEF LoseWorker
    <3>2. QED
      BY <1>0, <1>4, <1>5, <3>1, Amounts
  <2>3. QED
    BY <2>1, <2>2
<1>7. Booked
  <2>1. ASSUME NEW d \in Dims
        PROVE  total'[d] + HeldIn(call', LLMCalls, d) + GrantedIn(grant', d) + over[d] + loose[d]
                 <= total[d] + HeldIn(call, LLMCalls, d) + GrantedIn(grant, d) + over'[d] + loose'[d]
    <3>1. GrantedIn(grant, d) = grant[w].cap[d] + GrantedIn(grant', d) /\ grant[w].cap[d] \in Nat
      BY <1>3, <1>4, <1>5
    <3>2. total'[d] + over[d] + loose[d] <= total[d] + grant[w].cap[d] + over'[d] + loose'[d]
      BY <1>6
    <3>3. HeldIn(call', LLMCalls, d) = HeldIn(call, LLMCalls, d)
      BY <1>1
    <3>4. QED
      BY <1>0, <3>1, <3>2, <3>3, Amounts, AmountsNext
  <2>2. llmCalls' + Cardinality(Pending(call')) + GrantedIn(grant', "calls") + loose["calls"]
          <= llmCalls + Cardinality(Pending(call)) + GrantedIn(grant, "calls") + loose'["calls"]
    <3>1. GrantedIn(grant, "calls") = grant[w].cap["calls"] + GrantedIn(grant', "calls") /\ grant[w].cap["calls"] \in Nat
      BY <1>3, <1>4, <1>5
    <3>2. Pending(call') = Pending(call)
      BY <1>1
    <3>3. QED
      BY <1>0, <1>6, <3>1, <3>2, Amounts, AmountsNext
  <2>3. maxCalls <= maxCalls'
    BY <1>0, <1>1, Amounts
  <2>4. QED
    BY <2>1, <2>2, <2>3, Zenon DEF Booked
<1>8. Fits(FALSE)' /\ ReserveFits'
  BY <1>0, <1>1, <1>7, BookedFits DEF ReserveFits
<1>9. Shares'
  <2> SUFFICES ASSUME NEW s \in open, NEW d \in Dims, Ceiling[s][d] # 0
               PROVE  spent[s][d] + HeldIn(call, CallersOf(s), d) <= Ceiling[s][d] + over'[d]
    BY <1>1 DEF Shares
  <2>1. spent[s][d] \in Nat /\ Ceiling[s][d] \in Nat
    BY <1>0, BudgetAssumption DEF BudgetTypeOK
  <2>2. spent[s][d] + HeldIn(call, CallersOf(s), d) <= Ceiling[s][d] + over[d]
    BY <1>0 DEF Shares
  <2>3. QED
    BY <1>0, <1>6, <2>1, <2>2, Amounts, AmountsNext
<1>10. Quiet' /\ Scoped'
  BY <1>0, <1>1 DEF Quiet, Scoped, Coordinating
<1>11. QED
  BY <1>8, <1>9, <1>10 DEF BudgetIInv

\* A plan raises the ceiling of calls.
LEMMA PlanSteps ==
  ASSUME BudgetIInv, BudgetTypeOK', Replan \/ Synthesize \/ UNCHANGED budgetVars PROVE BudgetIInv'
<1>0. BudgetTypeOK /\ Fits(FALSE) /\ ReserveFits /\ Shares /\ Quiet /\ Scoped
  BY DEF BudgetIInv
<1>1. /\ total' = total /\ llmCalls' = llmCalls /\ call' = call /\ open' = open
      /\ spent' = spent /\ grant' = grant /\ over' = over /\ loose' = loose /\ drawn' = drawn
  BY DEF Replan, Synthesize, budgetVars
<1>2. maxCalls <= maxCalls'
  <2>1. maxCalls \in Nat
    BY <1>0, Amounts
  <2>2. CASE Replan
    <3>1. PICK m \in CallLimits : maxCalls' = Larger(maxCalls, m)
      BY <2>2 DEF Replan
    <3>2. m \in Nat
      BY BudgetAssumption
    <3>3. QED
      BY <2>1, <3>1, <3>2 DEF Larger
  <2>3. CASE Synthesize \/ UNCHANGED budgetVars
    BY <2>1, <2>3 DEF Synthesize, budgetVars
  <2>4. QED
    BY <2>2, <2>3
<1>3. Booked
  BY <1>0, <1>1, <1>2, Amounts DEF Booked
<1>4. Fits(FALSE)' /\ ReserveFits'
  BY <1>0, <1>1, <1>3, BookedFits DEF ReserveFits
<1>5. Shares' /\ Quiet' /\ Scoped'
  BY <1>0, <1>1 DEF Shares, Quiet, Scoped, Coordinating
<1>6. QED
  BY <1>4, <1>5 DEF BudgetIInv

\* Every step keeps the invariant.
LEMMA BudgetStep == ASSUME BudgetIInv, [BudgetNext]_budgetVars PROVE BudgetIInv'
<1>1. BudgetTypeOK'
  BY BudgetTypeStep DEF BudgetIInv
<1>2. ASSUME NEW c \in LLMCalls, ReserveCall(c) \/ Recheck(c) \/ Poll(c) PROVE BudgetIInv'
  BY <1>1, <1>2, AnswerSteps
<1>3. ASSUME NEW c \in LLMCalls, CommitCall(c) PROVE BudgetIInv'
  BY <1>1, <1>3, CommitSteps
<1>4. ASSUME NEW c \in LLMCalls, ReleaseCall(c) \/ GiveUp(c) PROVE BudgetIInv'
  BY <1>1, <1>4, ReleaseSteps
<1>5. ASSUME NEW s \in Scopes, OpenScope(s) PROVE BudgetIInv'
  BY <1>1, <1>5, OpenSteps
<1>6. ASSUME NEW s \in Scopes, CloseScope(s) PROVE BudgetIInv'
  BY <1>1, <1>6, CloseSteps
<1>7. ASSUME NEW W \in SUBSET Workers, Cardinality(W) >= 2, DispatchBatch(W) PROVE BudgetIInv'
  BY <1>1, <1>7, DispatchSteps
<1>8. ASSUME NEW w \in Workers, Absorb(w) \/ LoseWorker(w) PROVE BudgetIInv'
  BY <1>1, <1>8, ReturnSteps
<1>9. CASE Replan \/ Synthesize \/ UNCHANGED budgetVars
  BY <1>1, <1>9, PlanSteps
<1>10. QED
  BY <1>2, <1>3, <1>4, <1>5, <1>6, <1>7, <1>8, <1>9 DEF BudgetNext

\* A run begins inside its limits.
LEMMA BudgetStarts == BudgetInit => BudgetIInv
<1> SUFFICES ASSUME BudgetInit PROVE BudgetIInv
  OBVIOUS
<1>1. BudgetTypeOK
  BY BudgetTypeInit
<1>2. Coordinating /\ (\A c \in LLMCalls : call[c].st = "idle") /\ open = {}
  BY DEF BudgetInit, Coordinating, NoGrant, NoCall
<1>3. Pending(call) = {} /\ LLMCalls \cap Pending(call) = {} /\ Holders(grant) = {}
  BY <1>2 DEF Pending, Holders, Coordinating
<1>4. /\ \A d \in Dims : HeldIn(call, LLMCalls, d) = 0
      /\ Cardinality(Pending(call)) = 0
      /\ \A k : GrantedIn(grant, k) = 0
  BY <1>3, HeldNothing, GrantedNone, FS_EmptySet
<1>5. llmCalls = 0 /\ \A d \in Dims : total[d] = 0
  BY DEF BudgetInit, Zero
<1>6. ASSUME NEW keep \in BOOLEAN PROVE Fits(keep)
  <2>1. ASSUME NEW d \in Dims
        PROVE  total[d] + HeldIn(call, LLMCalls, d) + GrantedIn(grant, d)
                 <= Limit[d] - (IF keep THEN Reserve[d] ELSE 0) + over[d] + loose[d]
    BY <1>1, <1>4, <1>5, Amounts
  <2>2. llmCalls + Cardinality(Pending(call)) + GrantedIn(grant, "calls")
          <= maxCalls - (IF keep THEN CallReserve(maxCalls) ELSE 0) + loose["calls"]
    BY <1>1, <1>4, <1>5, Amounts
  <2>3. QED
    BY <2>1, <2>2 DEF Fits
<1>7. QED
  BY <1>1, <1>2, <1>6 DEF BudgetIInv, ReserveFits, Quiet, Scoped, Shares

\* The invariant is what the run checks, and more.
LEMMA BudgetImplies == BudgetIInv => BudgetInv
<1> SUFFICES ASSUME BudgetIInv PROVE BudgetInv
  OBVIOUS
<1>0. BudgetTypeOK /\ Fits(FALSE) /\ ReserveFits /\ Shares
  BY DEF BudgetIInv
<1>1. InFlight = Pending(call)
  BY DEF InFlight, Pending
<1>2. \A C, d : Held(C, d) = HeldIn(call, C, d)
  BY HeldIsHeldIn
<1>3. Cardinality(InFlight) = Cardinality(Pending(call))
  BY <1>1, Zenon
<1>4. SpendBounded
  BY <1>0, <1>2, <1>3, Amounts DEF Fits, SpendBounded
<1>5. ReserveKept
  BY <1>0, <1>2, <1>3, Amounts DEF Fits, ReserveFits, ReserveKept
<1>6. ShareKept
  BY <1>0, <1>2 DEF Shares, ShareKept
<1>7. QED
  BY <1>4, <1>5, <1>6 DEF BudgetInv

(* However its calls interleave, a run stays inside its limit: what it has *)
(* committed, what its calls in flight hold and what other processes were  *)
(* granted never exceeds the limit by more than single calls overran their *)
(* estimates; the finalization reserve is whole until something that may   *)
(* use it was authorized; and a step stays inside its share                *)
(* (BudgetController of chat_budget.py, _grant_for of chat_orchestrator).  *)
THEOREM BudgetCorrect == BudgetSpec => []BudgetInv
<1>1. BudgetSpec => []BudgetIInv
  BY BudgetStarts, BudgetStep, PTL DEF BudgetSpec
<1>2. QED
  BY <1>1, BudgetImplies, PTL

-----------------------------------------------------------------------------
(* Lemmas about batches in a log.                                          *)

\* An append leaves what was stored before it where it was.
LEMMA AppendKeeps ==
    ASSUME NEW s \in Seq(Batches), NEW b \in Batches
    PROVE  /\ Append(s, b) \in Seq(Batches) /\ Len(Append(s, b)) = Len(s) + 1
           /\ \A m \in Nat \ {0}, n \in 0..Len(s) : SubSeq(Append(s, b), m, n) = SubSeq(s, m, n)
<1>1. Append(s, b) \in Seq(Batches) /\ Len(Append(s, b)) = Len(s) + 1
  BY AppendProperties
<1>2. ASSUME NEW m \in Nat \ {0}, NEW n \in 0..Len(s)
      PROVE  SubSeq(Append(s, b), m, n) = SubSeq(s, m, n)
  <2>1. <<b>> \in Seq(Batches) /\ Append(s, b) = s \o <<b>>
    BY AppendIsConcat
  <2>2. CASE m <= n
    <3>1. m \in 1..(Len(s) + 1) /\ n \in m-1..Len(s)
      BY <2>2, LenProperties
    <3> QED BY <2>1, <3>1, SubSeqOfConcat1
  <2>3. CASE n < m
    BY <2>3, SubSeqEmpty
  <2> QED BY <2>2, <2>3, LenProperties
<1> QED BY <1>1, <1>2

\* What an append does to the coordinator's batches.
LEMMA MineAppend ==
    ASSUME NEW s \in Seq(Batches), NEW b \in Batches
    PROVE  /\ Mine(s) \subseteq 1..Len(s) /\ Len(s) \in Nat
           /\ \A i \in Mine(s) : Append(s, b)[i] = s[i] /\ s[i] \in Batches
           /\ Append(s, b)[Len(s) + 1] = b
           /\ Mine(Append(s, b)) = IF b.by = Turn THEN Mine(s) \cup {Len(s) + 1} ELSE Mine(s)
<1> DEFINE t == Append(s, b)
<1>1. /\ DOMAIN s = 1..Len(s) /\ Len(s) \in Nat /\ DOMAIN t = 1..(Len(s) + 1)
      /\ t[Len(s) + 1] = b /\ \A i \in 1..Len(s) : t[i] = s[i] /\ s[i] \in Batches
  BY AppendProperties, LenProperties, ElementOfSeq
<1> HIDE DEF t
<1>2. Mine(s) \subseteq 1..Len(s)
  BY <1>1 DEF Mine
<1>3. \A i : i \in Mine(t) <=> (i \in Mine(s) \/ (i = Len(s) + 1 /\ b.by = Turn))
  BY <1>1 DEF Mine
<1> QED BY <1>1, <1>2, <1>3 DEF t

\* The coordinator's batches hold its first n parts, in order, and no more.
HoldsParts(s, n) == InOrder(s, n) /\ \A i \in Mine(s) : s[i].upto <= n

\* A batch of a distributed step disturbs nothing of it...
LEMMA StepBatch ==
    ASSUME NEW s \in Seq(Batches), NEW b \in Batches, b.by # Turn
    PROVE  /\ Mine(Append(s, b)) = Mine(s) /\ \A i \in Mine(s) : Append(s, b)[i] = s[i]
           /\ \A n : HoldsParts(s, n) => HoldsParts(Append(s, b), n)
           /\ ClosesLast(s) => ClosesLast(Append(s, b))
<1> DEFINE t == Append(s, b)
<1>1. Mine(t) = Mine(s) /\ \A i \in Mine(s) : t[i] = s[i]
  BY MineAppend
<1> HIDE DEF t
<1>2. ASSUME NEW n, HoldsParts(s, n) PROVE HoldsParts(t, n)
  BY <1>1, <1>2 DEF HoldsParts, InOrder
<1>3. ClosesLast(s) => ClosesLast(t)
  BY <1>1 DEF ClosesLast
<1> QED BY <1>1, <1>2, <1>3 DEF t

\* ... and the coordinator's next batch continues it.
LEMMA NextBatch ==
    ASSUME NEW s \in Seq(Batches), NEW b \in Batches, b.by = Turn, b.after <= b.upto,
           HoldsParts(s, b.after)
    PROVE  HoldsParts(Append(s, b), b.upto)
<1> DEFINE t == Append(s, b) 
           new == Len(s) + 1
<1>1. /\ Mine(t) = Mine(s) \cup {new} /\ Mine(s) \subseteq 1..Len(s) /\ Len(s) \in Nat
      /\ t[new] = b /\ \A i \in Mine(s) : t[i] = s[i] /\ s[i] \in Batches
  BY MineAppend
<1> HIDE DEF t
<1>2. b.after \in Nat /\ b.upto \in Nat /\ \A i \in Mine(s) : s[i].upto \in Nat /\ s[i].after \in Nat
  BY <1>1, LogAssumption DEF Batches
<1>3. \A i \in Mine(t) : t[i].upto <= b.upto
  BY <1>1, <1>2 DEF HoldsParts
<1>4. ASSUME NEW i \in Mine(t), NEW j \in Mine(t), i < j PROVE t[i].upto <= t[j].after
  BY <1>1, <1>4 DEF HoldsParts, InOrder
<1>5. ASSUME NEW k \in 1..b.upto PROVE \E i \in Mine(t) : t[i].after < k /\ k <= t[i].upto
  <2>1. CASE k <= b.after
    <3>1. k \in 1..b.after
      BY <1>2, <2>1
    <3>2. PICK i \in Mine(s) : s[i].after < k /\ k <= s[i].upto
      BY <3>1 DEF HoldsParts, InOrder
    <3> QED BY <1>1, <3>2
  <2>2. CASE b.after < k
    BY <1>1, <1>2, <2>2
  <2> QED BY <1>2, <2>1, <2>2
<1> QED BY <1>3, <1>4, <1>5 DEF HoldsParts, InOrder, t

-----------------------------------------------------------------------------
(* Types.                                                                  *)

\* The initial state is well-typed.
LEMMA TypeInit == Init => TypeOK
<1> SUFFICES ASSUME Init PROVE TypeOK
  OBVIOUS
<1>1. \A w \in Writers : Rest(w, 0) \in Batches /\ Rest(w, 0).by = w
  BY LogAssumption DEF Rest, Batches
<1>2. /\ buf \in [Writers -> Batches] /\ \A w \in Writers : buf[w].by = w
      /\ \A w \in Writers : buf[w].after <= buf[w].upto
  BY <1>1 DEF Init, Rest
<1>3. <<>> \in Seq(Batches)
  OBVIOUS
<1>4. /\ page \in [Readers -> Seq(Batches)] /\ got \in [Readers -> Seq(Batches)]
      /\ log \in Seq(Batches)
  BY <1>3 DEF Init
<1>5. pc \in [Writers -> Points] /\ flusher \in [Writers -> {"on", "dead", "off"}]
  BY DEF Init, Points
<1>6. /\ row \in [status : Ended \cup {"running", "gone"}, last : Int] /\ row.last >= Unknown
      /\ stop \in BOOLEAN /\ outcome \in Ended /\ settled \subseteq Steps /\ lastSeq \in Nat
  <2>1. Unknown \in Int /\ Unknown >= Unknown
    BY DEF Unknown
  <2>2. row = [status |-> "running", last |-> Unknown]
    BY DEF Init
  <2>3. row \in [status : Ended \cup {"running", "gone"}, last : Int] /\ row.last = Unknown
    BY <2>1, <2>2
  <2> QED BY <2>1, <2>3 DEF Init, Ended
<1>7. /\ cursor \in [Readers -> Nat] /\ rpc \in [Readers -> {"polling", "paged", "done"}]
      /\ ended \in [Readers -> {"no", "gone"} \cup Ended]
  BY DEF Init
<1> QED BY <1>2, <1>4, <1>5, <1>6, <1>7 DEF TypeOK

\* What is in a buffer may be stored, whole, and what then stays is empty.
LEMMA StoreTypes ==
    ASSUME TypeOK, NEW w \in Writers
    PROVE  /\ Append(log, buf[w]) \in Seq(Batches) /\ Len(Append(log, buf[w])) \in Nat
           /\ [buf EXCEPT ![w] = Rest(w, @.upto)] \in [Writers -> Batches]
           /\ \A x \in Writers : LET b == [buf EXCEPT ![w] = Rest(w, @.upto)][x]
                                 IN  b.by = x /\ b.after <= b.upto
<1>1. buf[w] \in Batches /\ log \in Seq(Batches) /\ buf[w].by = w
  BY DEF TypeOK
<1>2. Rest(w, buf[w].upto) \in Batches
  BY <1>1, LogAssumption DEF Rest, Batches
<1>3. Append(log, buf[w]) \in Seq(Batches) /\ Len(Append(log, buf[w])) \in Nat
  BY <1>1, AppendProperties, LenProperties
<1>4. [buf EXCEPT ![w] = Rest(w, @.upto)] \in [Writers -> Batches]
  BY <1>2 DEF TypeOK
<1>5. ASSUME NEW x \in Writers
      PROVE  LET b == [buf EXCEPT ![w] = Rest(w, @.upto)][x] IN b.by = x /\ b.after <= b.upto
  BY <1>2 DEF TypeOK, Rest, Batches
<1> QED BY <1>3, <1>4, <1>5

\* A page is what the log holds after the reader's cursor.
LEMMA PageTypes ==
    ASSUME TypeOK, NEW r \in Readers, ReadEvents(r)
    PROVE  LET n == IF cursor[r] + Page < Len(log) THEN cursor[r] + Page ELSE Len(log)
           IN  /\ page'[r] = SubSeq(log, cursor[r] + 1, n)
               /\ page' = [page EXCEPT ![r] = SubSeq(log, cursor[r] + 1, n)]
               /\ page'[r] \in Seq(Batches) /\ n \in 0..Len(log)
               /\ Len(page'[r]) = IF cursor[r] + 1 <= n THEN n - cursor[r] ELSE 0
<1> DEFINE n == IF cursor[r] + Page < Len(log) THEN cursor[r] + Page ELSE Len(log)
<1>1. cursor[r] \in Nat /\ Len(log) \in Nat /\ n \in 0..Len(log)
  BY LogAssumption, LenProperties DEF TypeOK
<1>2. \A i \in cursor[r] + 1 .. n : log[i] \in Batches
  BY <1>1, ElementOfSeq DEF TypeOK
<1>3. page'[r] = SubSeq(log, cursor[r] + 1, n) /\ page' = [page EXCEPT ![r] = SubSeq(log, cursor[r] + 1, n)]
  BY DEF ReadEvents, TypeOK
<1> HIDE DEF n
<1>4. n \in Int /\ cursor[r] + 1 \in Int
  BY <1>1
<1>5. /\ SubSeq(log, cursor[r] + 1, n) \in Seq(Batches)
      /\ Len(SubSeq(log, cursor[r] + 1, n))
           = IF cursor[r] + 1 <= n THEN n - (cursor[r] + 1) + 1 ELSE 0
  BY <1>2, <1>4, SubSeqProperties
<1>6. Len(page'[r]) = IF cursor[r] + 1 <= n THEN n - cursor[r] ELSE 0
  BY <1>1, <1>3, <1>5
<1> QED BY <1>1, <1>3, <1>5, <1>6 DEF n

\* Every step keeps the types.
LEMMA TypeNext == TypeOK /\ [Next]_vars => TypeOK'
<1> SUFFICES ASSUME TypeOK, [Next]_vars PROVE TypeOK'
  OBVIOUS
<1> USE DEF writeVars, readVars
<1>0. /\ Steps \subseteq Writers /\ Turn \in Writers
      /\ Len(log) \in Nat /\ log \in Seq(Batches) /\ <<>> \in Seq(Batches)
  BY LogAssumption, LenProperties DEF Writers, TypeOK
<1> DEFINE BufOK == buf \in [Writers -> Batches] 
                    /\ \A w \in Writers : buf[w].by = w /\ buf[w].after <= buf[w].upto
           LogOK == log \in Seq(Batches) /\ lastSeq \in Nat
           AtOK  == pc \in [Writers -> Points] /\ flusher \in [Writers -> {"on", "dead", "off"}]
\* What is left to show of a step of the publishers, and of one of a reader.
<1>1. ASSUME UNCHANGED <<row, stop, readVars>>, BufOK', LogOK', AtOK', outcome' \in Ended, settled' \subseteq Steps
      PROVE  TypeOK'
  BY <1>1 DEF TypeOK
<1>2. ASSUME UNCHANGED <<row, stop, log, writeVars>>, cursor' \in [Readers -> Nat],
             rpc' \in [Readers -> {"polling", "paged", "done"}],
             page' \in [Readers -> Seq(Batches)], got' \in [Readers -> Seq(Batches)],
             ended' \in [Readers -> {"no", "gone"} \cup Ended]
      PROVE  TypeOK'
  BY <1>2 DEF TypeOK
<1>3. BufOK /\ LogOK /\ AtOK /\ outcome \in Ended /\ settled \subseteq Steps
  BY DEF TypeOK
<1>4. ASSUME NEW w \in Writers, Interrupted(w) PROVE log' \in Seq(Batches)
  BY <1>0, <1>4, StoreTypes DEF Interrupted
<1>5. ASSUME NEW w \in Writers, Store(w) PROVE log' \in Seq(Batches) /\ Len(log') \in Nat /\ BufOK'
  BY <1>0, <1>5, StoreTypes DEF Store
<1>6. ASSUME NEW w \in Writers, Flush(w) PROVE LogOK' /\ BufOK'
  BY <1>3, <1>5, <1>6 DEF Flush
<1>7. ASSUME NEW w \in Writers, NEW p \in Points, pc' = [pc EXCEPT ![w] = p], 
             \/ UNCHANGED flusher
             \/ \E f \in {"on", "dead", "off"} : flusher' = [flusher EXCEPT ![w] = f]
      PROVE  AtOK'
  BY <1>3, <1>7
<1>8. ASSUME NEW w \in Writers, NEW f \in {"on", "dead", "off"}, UNCHANGED pc,
             flusher' = [flusher EXCEPT ![w] = f]
      PROVE  AtOK'
  BY <1>3, <1>8
<1>9. ASSUME UNCHANGED <<pc, flusher>> PROVE AtOK'
  BY <1>3, <1>9
<1>10. (UNCHANGED buf => BufOK') /\ (UNCHANGED <<log, lastSeq>> => LogOK')
       /\ (log' \in Seq(Batches) /\ UNCHANGED lastSeq => LogOK')
  BY <1>3
<1>11. ASSUME NEW w \in Writers, Render(w) PROVE TypeOK'
  <2>1. buf[w] \in Batches /\ buf[w].upto + 1 \in 0..MaxParts /\ buf[w].by = w
        /\ buf[w].after <= buf[w].upto + 1
    BY <1>11, LogAssumption DEF Render, TypeOK, Batches
  <2>2. [buf[w] EXCEPT !.upto = @ + 1] \in Batches
    BY <2>1 DEF Batches
  <2>3. BufOK'
    BY <1>11, <2>1, <2>2 DEF Render, TypeOK, Batches
  <2> QED BY <1>1, <1>3, <1>9, <1>10, <1>11, <2>3 DEF Render
<1> HIDE DEF BufOK, LogOK, AtOK
<1>12. ASSUME NEW w \in Writers, FlushSome(w) PROVE TypeOK'
  BY <1>1, <1>3, <1>6, <1>9, <1>12 DEF FlushSome
<1>13. ASSUME NEW w \in Writers, FlushFails(w) PROVE TypeOK'
  BY <1>1, <1>3, <1>4, <1>8, <1>10, <1>13 DEF FlushFails
<1>14. CASE TurnNext
  <2>1. CASE FanOut
    <3>1. AtOK'
      BY <1>3, <2>1 DEF FanOut, AtOK, Points
    <3> QED BY <1>1, <1>3, <1>10, <2>1, <3>1 DEF FanOut
  <2>2. CASE FanOutReturns
    BY <1>0, <1>1, <1>3, <1>7, <1>10, <2>2 DEF FanOutReturns, Points
  <2>3. CASE GraphEnds
    BY <1>0, <1>1, <1>3, <1>7, <1>10, <2>3 DEF GraphEnds, Points, Ended
  <2>4. CASE GraphStopped
    BY <1>0, <1>1, <1>3, <1>4, <1>7, <1>10, <2>4 DEF GraphStopped, Points, Ended
  <2>5. CASE PublishClosing
    <3>1. [buf[Turn] EXCEPT !.closes = outcome] \in Batches
      <4>1. buf[Turn] \in Batches /\ outcome \in Ended
        BY <1>0 DEF TypeOK
      <4> QED BY <4>1 DEF Batches
    <3>2. BufOK'
      BY <1>0, <2>5, <3>1 DEF PublishClosing, BufOK, TypeOK, Batches
    <3> QED BY <1>0, <1>1, <1>3, <1>7, <1>10, <2>5, <3>2 DEF PublishClosing, Points
  <2>6. CASE FlushClosing
    BY <1>0, <1>1, <1>3, <1>6, <1>7, <2>6 DEF FlushClosing, Points
  <2>7. CASE Leave
    BY <1>0, <1>1, <1>3, <1>5, <1>7, <1>10, <2>7 DEF Leave, Points
  <2>8. CASE Record
    <3>1. row' \in [status : Ended \cup {"running", "gone"}, last : Int] /\ row'.last >= Unknown
      BY <2>8 DEF Record, CloseRow, TypeOK, Unknown
    <3>2. pc' \in [Writers -> Points]
      BY <1>0, <2>8 DEF Record, TypeOK, Points
    <3> QED BY <2>8, <3>1, <3>2 DEF Record, TypeOK
  <2>9. CASE TurnDies
    BY <1>0, <1>1, <1>3, <1>7, <1>10, <2>9 DEF TurnDies, Points
  <2> QED BY <1>14, <2>1, <2>2, <2>3, <2>4, <2>5, <2>6, <2>7, <2>8, <2>9 DEF TurnNext
<1>15. ASSUME NEW s \in Steps, StepStarts(s) PROVE TypeOK'
  BY <1>0, <1>1, <1>3, <1>7, <1>10, <1>15 DEF StepStarts, Points
<1>16. ASSUME NEW s \in Steps, StepLeaves(s) PROVE TypeOK'
  BY <1>0, <1>1, <1>3, <1>4, <1>7, <1>10, <1>16 DEF StepLeaves, Points
<1>17. ASSUME NEW s \in Steps, StepFlushes(s) PROVE TypeOK'
  BY <1>0, <1>1, <1>3, <1>5, <1>7, <1>10, <1>17 DEF StepFlushes, Points
<1>18. ASSUME NEW s \in Steps, StepTimesOut(s) PROVE TypeOK'
  BY <1>0, <1>1, <1>3, <1>7, <1>9, <1>10, <1>18 DEF StepTimesOut, Points
<1>19. CASE RequestStop \/ Fallback \/ Expired \/ Retired \/ Delete
  <2>1. row' \in [status : Ended \cup {"running", "gone"}, last : Int] /\ row'.last >= Unknown
    BY <1>19 DEF RequestStop, Fallback, Expired, Retired, Delete, CloseRow, TypeOK, Unknown, Ended
  <2>2. stop' \in BOOLEAN /\ log' \in Seq(Batches) /\ UNCHANGED <<writeVars, readVars>>
    BY <1>0, <1>19 DEF RequestStop, Fallback, Expired, Retired, Delete, TypeOK
  <2> QED BY <2>1, <2>2 DEF TypeOK
<1>20. ASSUME NEW r \in Readers, ReadEvents(r) PROVE TypeOK'
  <2>1. page' \in [Readers -> Seq(Batches)]
    BY <1>20, PageTypes DEF ReadEvents, TypeOK
  <2> QED BY <1>2, <1>20, <2>1 DEF ReadEvents, TypeOK
<1>21. ASSUME NEW r \in Readers, ReadStatus(r) PROVE TypeOK'
  <2>1. /\ cursor[r] + Len(page[r]) \in Nat /\ got[r] \o page[r] \in Seq(Batches)
        /\ row.status # "running" /\ Exists => row.status \in Ended
    BY LenProperties, ConcatProperties DEF TypeOK, Exists
  <2>2. cursor' \in [Readers -> Nat] /\ got' \in [Readers -> Seq(Batches)]
    BY <1>21, <2>1 DEF ReadStatus, TypeOK
  <2>3. \/ Polls(r)
        \/ \E how \in {"gone"} \cup Ended : Ends(r, how)
    BY <1>21, <2>1 DEF ReadStatus
  <2>4. /\ rpc' \in [Readers -> {"polling", "paged", "done"}]
        /\ page' \in [Readers -> Seq(Batches)]
        /\ ended' \in [Readers -> {"no", "gone"} \cup Ended]
    <3>1. CASE Polls(r)
      BY <1>0, <3>1 DEF Polls, TypeOK
    <3>2. ASSUME NEW how \in {"gone"} \cup Ended, Ends(r, how)
          PROVE  /\ rpc' \in [Readers -> {"polling", "paged", "done"}]
                 /\ page' \in [Readers -> Seq(Batches)]
                 /\ ended' \in [Readers -> {"no", "gone"} \cup Ended]
      BY <1>0, <3>2 DEF Ends, TypeOK
    <3> QED BY <2>3, <3>1, <3>2
  <2> QED BY <1>2, <1>21, <2>2, <2>4 DEF ReadStatus
<1>22. CASE UNCHANGED vars
  BY <1>22 DEF vars, TypeOK
<1> QED BY <1>11, <1>12, <1>13, <1>14, <1>15, <1>16, <1>17, <1>18, <1>19, <1>20, <1>21, <1>22
        DEF Next
-----------------------------------------------------------------------------
(* The invariant.                                                          *)

TurnPoints == {"driving", "waiting", "closing", "flushing", "leaving", "recording", "returned", "raised"}
StepPoints == {"unscheduled", "queued", "working", "leaving", "ended"}

\* Where the coordinator is tells whether its flusher is at work.
PointsInv ==
    /\ pc[Turn] \in TurnPoints /\ \A s \in Steps : pc[s] \in StepPoints
    /\ pc[Turn] \in {"driving", "waiting"} => outcome = "completed"
    /\ pc[Turn] \in {"recording", "returned", "raised"} => flusher[Turn] = "off"

\* The turn may still end as completed: no append of the coordinator failed.
Sound == outcome = "completed" /\ flusher[Turn] # "dead" /\ pc[Turn] # "raised"

\* While it may, the log and the buffer hold the coordinator's parts between them,
\* last_seq has passed its batches, and so have the closing frames once stored.
Unclosed ==
    /\ pc[Turn] \in {"driving", "waiting", "closing", "flushing"}
    /\ \A i \in Mine(log) : log[i].closes = "nothing"
    /\ buf[Turn].closes = IF pc[Turn] = "flushing" THEN "completed" ELSE "nothing"
Closed ==
    /\ pc[Turn] \in {"flushing", "leaving", "recording", "returned"}
    /\ ClosesLast(log) /\ IsEmpty(buf[Turn])
LogInv ==
    Exists /\ Sound =>
        /\ HoldsParts(log, buf[Turn].after)
        /\ \A i \in Mine(log) : i <= lastSeq
        /\ Unclosed \/ Closed

\* Nobody but the coordinator records a completed turn.
RowInv ==
    row.status = "completed" =>
        pc[Turn] = "returned" /\ outcome = "completed" /\ row.last = lastSeq

\* A page continues what its reader has shown.
PagesFollow ==
    \A r \in Readers : Exists /\ rpc[r] = "paged" =>
        /\ cursor[r] + Len(page[r]) <= Len(log)
        /\ page[r] = SubSeq(log, cursor[r] + 1, cursor[r] + Len(page[r]))

\* A reader that ended is done, and the coordinator was before it.
EndsLast == \A r \in Readers : ended[r] = "completed" => rpc[r] = "done" /\ pc[Turn] = "returned"

TurnLogInv ==
    /\ TypeOK /\ PointsInv /\ LogInv /\ RowInv /\ PagesFollow /\ EndsLast
    /\ ReaderHasPrefix /\ CompletedIsWhole

\* The invariant holds of an empty log.
LEMMA InvInit == Init => TurnLogInv
<1> SUFFICES ASSUME Init PROVE TurnLogInv
  OBVIOUS
<1>1. TypeOK
  BY TypeInit
<1>2. Turn \in Writers /\ Turn \notin Steps /\ Steps \subseteq Writers
  BY LogAssumption DEF Writers
<1>3. PointsInv
  BY <1>2 DEF Init, PointsInv, TurnPoints, StepPoints
<1>4. LogInv
  <2>1. Mine(log) = {}
    BY DEF Init, Mine
  <2>2. buf[Turn].after = 0 /\ buf[Turn].closes = "nothing" /\ pc[Turn] = "driving"
    BY <1>2 DEF Init, Rest
  <2> QED BY <2>1, <2>2 DEF LogInv, HoldsParts, InOrder, Unclosed
<1>5. RowInv /\ PagesFollow /\ EndsLast /\ CompletedIsWhole
  BY DEF Init, RowInv, PagesFollow, EndsLast, CompletedIsWhole
<1>6. ReaderHasPrefix
  <2>1. SubSeq(log, 1, 0) = <<>> /\ Len(log) = 0
    BY SubSeqEmpty DEF Init
  <2> QED BY <2>1 DEF Init, ReaderHasPrefix
<1> QED BY <1>1, <1>3, <1>4, <1>5, <1>6 DEF TurnLogInv

\* Every step leaves the publishers at points that fit the outcome and the flusher.
LEMMA PointsNext == TypeOK /\ PointsInv /\ [Next]_vars => PointsInv'
<1> SUFFICES ASSUME TypeOK, PointsInv, [Next]_vars PROVE PointsInv'
  OBVIOUS
<1> USE DEF writeVars, PointsInv
<1>0. /\ Turn \in Writers /\ Turn \notin Steps /\ Steps \subseteq Writers
      /\ pc \in [Writers -> Points] /\ flusher \in [Writers -> {"on", "dead", "off"}]
  BY LogAssumption DEF Writers, TypeOK
<1>1. ASSUME UNCHANGED <<pc, flusher, outcome>> PROVE PointsInv'
  BY <1>1
<1>2. ASSUME NEW w \in Writers, Render(w) \/ FlushSome(w) PROVE PointsInv'
  BY <1>1, <1>2 DEF Render, FlushSome
<1>3. ASSUME NEW w \in Writers, FlushFails(w) PROVE PointsInv'
  BY <1>0, <1>3 DEF FlushFails
<1>4. CASE TurnNext
  BY <1>0, <1>4 DEF TurnNext, FanOut, FanOutReturns, GraphEnds, GraphStopped, PublishClosing,
                    FlushClosing, Leave, Record, TurnDies, TurnPoints, StepPoints, Writers
<1>5. ASSUME NEW s \in Steps, StepStarts(s) \/ StepLeaves(s) \/ StepFlushes(s) \/ StepTimesOut(s)
      PROVE  PointsInv'
  BY <1>0, <1>5 DEF StepStarts, StepLeaves, StepFlushes, StepTimesOut, StepPoints
<1>6. CASE RequestStop \/ Fallback \/ Expired \/ Retired \/ Delete
  BY <1>1, <1>6 DEF RequestStop, Fallback, Expired, Retired, Delete
<1>7. ASSUME NEW r \in Readers, ReadEvents(r) \/ ReadStatus(r) PROVE PointsInv'
  BY <1>1, <1>7 DEF ReadEvents, ReadStatus
<1>8. CASE UNCHANGED vars
  BY <1>1, <1>8 DEF vars
<1> QED BY <1>2, <1>3, <1>4, <1>5, <1>6, <1>7, <1>8 DEF Next

\* A step in which the coordinator stores nothing: the log stays, or grows by a
\* batch of a distributed step.
LEMMA OthersKeep ==
    ASSUME TypeOK, LogInv, Exists' => Exists, Sound' => Sound,
           buf'[Turn] = buf[Turn], lastSeq' = lastSeq,
           log' = log \/ ~Exists' \/ \E s \in Steps : log' = Append(log, buf[s]),
           \/ pc'[Turn] = pc[Turn]
           \/ {pc[Turn], pc'[Turn]} \subseteq {"driving", "waiting", "closing"}
           \/ pc[Turn] \in {"leaving", "recording"} /\ pc'[Turn] \in {"recording", "returned"}
    PROVE  LogInv'
<1> SUFFICES ASSUME Exists', Sound' PROVE LogInv'
  BY DEF LogInv
<1>1. Exists /\ Sound /\ HoldsParts(log, buf[Turn].after) /\ (\A i \in Mine(log) : i <= lastSeq)
  BY DEF LogInv
<1>2. /\ Mine(log') = Mine(log) /\ \A i \in Mine(log) : log'[i] = log[i]
      /\ HoldsParts(log', buf[Turn].after) /\ (ClosesLast(log) => ClosesLast(log'))
  <2>1. ASSUME NEW s \in Steps, log' = Append(log, buf[s])
        PROVE  /\ Mine(log') = Mine(log) /\ \A i \in Mine(log) : log'[i] = log[i]
               /\ HoldsParts(log', buf[Turn].after) /\ (ClosesLast(log) => ClosesLast(log'))
    <3>1. buf[s] \in Batches /\ buf[s].by # Turn /\ log \in Seq(Batches)
      BY LogAssumption DEF TypeOK, Writers
    <3> QED BY <1>1, <2>1, <3>1, StepBatch
  <2> QED BY <1>1, <2>1
<1>3. Mine(log)' = Mine(log') /\ ClosesLast(log)' = ClosesLast(log')
      /\ HoldsParts(log, buf[Turn].after)' = HoldsParts(log', buf'[Turn].after)
  BY DEF Mine, ClosesLast, HoldsParts, InOrder
<1>4. CASE Unclosed
  BY <1>1, <1>2, <1>3, <1>4 DEF LogInv, Unclosed
<1>5. CASE Closed
  BY <1>1, <1>2, <1>3, <1>5 DEF LogInv, Closed
<1> QED BY <1>1, <1>4, <1>5 DEF LogInv

\* The coordinator's buffer goes to the log, by its flusher or in the closing
\* sequence; when there was nothing in it, nothing changes.
LEMMA TurnFlushes ==
    ASSUME TypeOK, LogInv, Flush(Turn), Exists' => Exists, Sound' => Sound,
           \/ pc'[Turn] = pc[Turn] /\ ~IsEmpty(buf[Turn])
           \/ pc[Turn] = "flushing" /\ pc'[Turn] = "leaving"
    PROVE  LogInv'
<1> SUFFICES ASSUME Exists', Sound' PROVE LogInv'
  BY DEF LogInv
<1> DEFINE b == buf[Turn]
<1>0. b \in Batches /\ b.by = Turn /\ b.after <= b.upto /\ log \in Seq(Batches) /\ Len(log) \in Nat
      /\ lastSeq \in Nat /\ Turn \in Writers /\ b.after \in Nat /\ b.upto \in Nat
  BY LenProperties, LogAssumption DEF TypeOK, Writers, Batches
<1>1. Exists /\ Sound /\ HoldsParts(log, b.after) /\ (\A i \in Mine(log) : i <= lastSeq)
      /\ (Unclosed \/ Closed)
  BY DEF LogInv
<1>2. buf'[Turn] = Rest(Turn, b.upto)
  BY <1>0 DEF Flush, Store, TypeOK
<1>3. buf'[Turn].after = b.upto /\ buf'[Turn].closes = "nothing" /\ IsEmpty(buf[Turn])'
  BY <1>2 DEF Rest, IsEmpty
<1>4. Mine(log)' = Mine(log') /\ ClosesLast(log)' = ClosesLast(log')
      /\ HoldsParts(log, buf[Turn].after)' = HoldsParts(log', buf'[Turn].after)
  BY DEF Mine, ClosesLast, HoldsParts, InOrder
<1>5. CASE IsEmpty(b)
  <2>1. log' = log /\ lastSeq' = lastSeq /\ buf'[Turn].after = b.after
    BY <1>3, <1>5 DEF Flush, Store, IsEmpty
  <2>2. Closed /\ pc'[Turn] = "leaving"
    BY <1>1, <1>5 DEF Unclosed, IsEmpty
  <2>3. Closed'
    BY <1>3, <1>4, <2>1, <2>2 DEF Closed
  <2> QED BY <1>1, <1>4, <2>1, <2>3 DEF LogInv
<1>6. CASE ~IsEmpty(b)
  <2>1. log' = Append(log, b) /\ Unclosed
    BY <1>1, <1>6 DEF Flush, Store, Closed
  <2>2. /\ Mine(log') = Mine(log) \cup {Len(log) + 1} /\ Mine(log) \subseteq 1..Len(log)
        /\ (\A i \in Mine(log) : log'[i] = log[i]) /\ log'[Len(log) + 1] = b
        /\ Len(log') = Len(log) + 1
    BY <1>0, <2>1, MineAppend, AppendProperties
  <2>3. HoldsParts(log', b.upto)
    BY <1>0, <1>1, <2>1, NextBatch
  <2>4. log' # log /\ lastSeq' = Len(log) + 1
    BY <1>0, <2>2 DEF Flush
  <2>5. \A i \in Mine(log') : i <= lastSeq'
    BY <1>0, <2>2, <2>4
  <2>6. CASE b.closes = "nothing"
    <3>1. Unclosed'
      BY <1>3, <1>4, <2>1, <2>2, <2>6 DEF Unclosed
    <3> QED BY <1>3, <1>4, <2>3, <2>5, <3>1 DEF LogInv
  <2>7. CASE b.closes = "completed" /\ pc[Turn] = "flushing"
    <3>1. ClosesLast(log')
      BY <1>0, <2>1, <2>2, <2>7 DEF ClosesLast, Unclosed
    <3>2. Closed'
      BY <1>3, <1>4, <2>7, <3>1 DEF Closed
    <3> QED BY <1>3, <1>4, <2>3, <2>5, <3>2 DEF LogInv
  <2> QED BY <2>1, <2>6, <2>7 DEF Unclosed
<1> QED BY <1>5, <1>6

\* Every step keeps the coordinator's parts in the log and the buffer.
LEMMA LogNext == TypeOK /\ PointsInv /\ LogInv /\ [Next]_vars => LogInv'
<1> SUFFICES ASSUME TypeOK, PointsInv, LogInv, [Next]_vars PROVE LogInv'
  OBVIOUS
<1> USE DEF writeVars, readVars
<1>0. /\ Turn \in Writers /\ Turn \notin Steps /\ Steps \subseteq Writers
      /\ \A w \in Writers : w # Turn => w \in Steps
      /\ pc \in [Writers -> Points] /\ flusher \in [Writers -> {"on", "dead", "off"}]
      /\ buf \in [Writers -> Batches]
  BY LogAssumption DEF Writers, TypeOK
<1>1. ASSUME UNCHANGED <<pc, buf, flusher, lastSeq, outcome>>, row'.status # "gone" => Exists /\ log' = log
      PROVE  LogInv'
  BY <1>1, OthersKeep DEF Exists, Sound
<1>2. ASSUME NEW w \in Writers, Render(w) PROVE LogInv'
  <2>1. CASE w = Turn
    <3>1. buf'[Turn] = [buf[Turn] EXCEPT !.upto = @ + 1]
      BY <1>0, <1>2, <2>1 DEF Render
    <3>2. buf'[Turn].after = buf[Turn].after /\ buf'[Turn].closes = buf[Turn].closes
      BY <1>0, <3>1 DEF Batches
    <3>3. pc[Turn] = "driving"
      BY <1>2, <2>1 DEF Render, PointsInv, TurnPoints
    <3> QED BY <1>2, <3>2, <3>3 DEF Render, LogInv, Unclosed, Closed, Exists, Sound, Mine, HoldsParts,
                                     InOrder
  <2>2. CASE w # Turn
    BY <1>0, <1>2, <2>2, OthersKeep DEF Render, Exists, Sound
  <2> QED BY <2>1, <2>2
<1>3. ASSUME NEW w \in Writers, FlushSome(w) PROVE LogInv'
  <2>1. CASE w = Turn
    BY <1>3, <2>1, TurnFlushes DEF FlushSome, Exists, Sound
  <2>2. CASE w # Turn
    <3>1. buf'[Turn] = buf[Turn] /\ lastSeq' = lastSeq /\ (log' = log \/ log' = Append(log, buf[w]))
      BY <1>0, <1>3, <2>2 DEF FlushSome, Flush, Store
    <3> QED BY <1>0, <1>3, <2>2, <3>1, OthersKeep DEF FlushSome, Exists, Sound
  <2> QED BY <2>1, <2>2
<1>4. ASSUME NEW w \in Writers, FlushFails(w) PROVE LogInv'
  <2>1. CASE w = Turn
    BY <1>0, <1>4, <2>1 DEF FlushFails, LogInv, Sound
  <2>2. CASE w # Turn
    BY <1>0, <1>4, <2>2, OthersKeep DEF FlushFails, Interrupted, Exists, Sound
  <2> QED BY <2>1, <2>2
<1>5. CASE TurnNext
  <2>1. CASE FanOut \/ FanOutReturns \/ GraphEnds
    BY <1>0, <2>1, OthersKeep DEF FanOut, FanOutReturns, GraphEnds, PointsInv, Exists, Sound
  <2>2. CASE GraphStopped
    BY <2>2 DEF GraphStopped, LogInv, Sound
  <2>3. CASE PublishClosing
    <3>1. buf'[Turn] = [buf[Turn] EXCEPT !.closes = outcome]
      BY <1>0, <2>3 DEF PublishClosing
    <3>2. buf'[Turn].after = buf[Turn].after /\ buf'[Turn].closes = outcome
      BY <1>0, <3>1 DEF Batches
    <3>3. pc'[Turn] = "flushing" /\ pc[Turn] = "closing"
      BY <1>0, <2>3 DEF PublishClosing
    <3> QED BY <2>3, <3>2, <3>3 DEF PublishClosing, LogInv, Unclosed, Closed, Exists, Sound, Mine,
                                     HoldsParts, InOrder
  <2>4. CASE FlushClosing
    BY <1>0, <2>4, TurnFlushes DEF FlushClosing, Exists, Sound
  <2>5. CASE Leave
    <3>1. CASE pc'[Turn] = "raised"
      BY <3>1 DEF LogInv, Sound
    <3>2. CASE pc'[Turn] # "raised"
      <4>1. pc[Turn] = "leaving" /\ pc'[Turn] = "recording" /\ Store(Turn)
            /\ (Sound' => Sound) /\ (Exists' => Exists)
        BY <1>0, <2>5, <3>2 DEF Leave, Sound, Exists
      <4>2. ASSUME Exists', Sound' PROVE LogInv'
        <5>1. /\ Exists /\ Sound /\ HoldsParts(log, buf[Turn].after)
              /\ (\A i \in Mine(log) : i <= lastSeq)
          BY <4>1, <4>2 DEF LogInv
        <5>2. Closed
          BY <4>1, <5>1 DEF LogInv, Unclosed
        <5>3. log' = log /\ buf'[Turn] = Rest(Turn, buf[Turn].upto) /\ lastSeq' = lastSeq
          BY <1>0, <2>5, <4>1, <5>2 DEF Store, Closed, Leave
        <5>4. buf'[Turn].after = buf[Turn].after /\ IsEmpty(buf[Turn])'
          BY <5>2, <5>3 DEF Closed, IsEmpty, Rest
        <5> QED BY <4>1, <5>1, <5>2, <5>3, <5>4 DEF LogInv, Closed, ClosesLast, Mine, HoldsParts,
                                                    InOrder
      <4> QED BY <4>2 DEF LogInv
    <3> QED BY <3>1, <3>2
  <2>6. CASE Record
    BY <1>0, <2>6, OthersKeep DEF Record, CloseRow, Exists, Sound
  <2>7. CASE TurnDies
    BY <1>0, <2>7 DEF TurnDies, LogInv, Sound
  <2> QED BY <1>5, <2>1, <2>2, <2>3, <2>4, <2>5, <2>6, <2>7 DEF TurnNext
<1>6. ASSUME NEW s \in Steps, StepStarts(s) \/ StepLeaves(s) \/ StepFlushes(s) \/ StepTimesOut(s)
      PROVE  LogInv'
  <2>1. /\ buf'[Turn] = buf[Turn] /\ pc'[Turn] = pc[Turn] /\ flusher'[Turn] = flusher[Turn]
        /\ lastSeq' = lastSeq /\ outcome' = outcome /\ row' = row
        /\ log' = log \/ log' = Append(log, buf[s])
    BY <1>0, <1>6 DEF StepStarts, StepLeaves, StepFlushes, StepTimesOut, Store, Interrupted
  <2> QED BY <1>6, <2>1, OthersKeep DEF Exists, Sound
<1>7. CASE RequestStop \/ Fallback \/ Expired \/ Retired \/ Delete
  BY <1>1, <1>7 DEF RequestStop, Fallback, Expired, Retired, Delete, CloseRow, Exists
<1>8. ASSUME NEW r \in Readers, ReadEvents(r) \/ ReadStatus(r) PROVE LogInv'
  BY <1>1, <1>8 DEF ReadEvents, ReadStatus, Exists
<1>9. CASE UNCHANGED vars
  BY <1>1, <1>9 DEF vars, Exists
<1> QED BY <1>2, <1>3, <1>4, <1>5, <1>6, <1>7, <1>8, <1>9 DEF Next

\* Once the coordinator has returned, nothing of it moves.
LEMMA ReturnedStays ==
    ASSUME TypeOK, PointsInv, [Next]_vars, pc[Turn] = "returned"
    PROVE  /\ pc'[Turn] = "returned" /\ buf'[Turn] = buf[Turn] /\ lastSeq' = lastSeq
           /\ outcome' = outcome
<1> USE DEF writeVars, readVars, PointsInv
<1>0. /\ Turn \in Writers /\ Turn \notin Steps /\ Steps \subseteq Writers
      /\ \A w \in Writers : w # Turn => w \in Steps
      /\ pc \in [Writers -> Points] /\ buf \in [Writers -> Batches]
  BY LogAssumption DEF Writers, TypeOK
<1>1. ASSUME NEW w \in Writers, Render(w) \/ FlushSome(w) \/ FlushFails(w)
      PROVE  /\ pc'[Turn] = "returned" /\ buf'[Turn] = buf[Turn] /\ lastSeq' = lastSeq
             /\ outcome' = outcome
  BY <1>0, <1>1 DEF Render, FlushSome, FlushFails, Flush, Store
<1>2. ~TurnNext
  BY DEF TurnNext, FanOut, FanOutReturns, GraphEnds, GraphStopped, PublishClosing, FlushClosing,
         Leave, Record, TurnDies
<1>3. ASSUME NEW s \in Steps, StepStarts(s) \/ StepLeaves(s) \/ StepFlushes(s) \/ StepTimesOut(s)
      PROVE  /\ pc'[Turn] = "returned" /\ buf'[Turn] = buf[Turn] /\ lastSeq' = lastSeq
             /\ outcome' = outcome
  BY <1>0, <1>3 DEF StepStarts, StepLeaves, StepFlushes, StepTimesOut, Store
<1> QED BY <1>1, <1>2, <1>3 DEF Next, RequestStop, Fallback, Expired, Retired, Delete, ReadEvents,
                                ReadStatus, vars

\* Every step keeps what a completed row says of the coordinator.
LEMMA RowNext == TypeOK /\ PointsInv /\ RowInv /\ [Next]_vars => RowInv'
<1> SUFFICES ASSUME TypeOK, PointsInv, RowInv, [Next]_vars, row'.status = "completed" PROVE RowInv'
  BY DEF RowInv
<1>1. CASE row' = row
  BY <1>1, ReturnedStays DEF RowInv
<1>2. CASE row' # row
  <2>0. CASE RequestStop \/ Fallback \/ Expired \/ Retired \/ Delete
    BY <1>2, <2>0 DEF RequestStop, Fallback, Expired, Retired, Delete, CloseRow
  <2>1. CASE TurnNext
    <3>1. Record
      BY <1>2, <2>1 DEF TurnNext, FanOut, FanOutReturns, GraphEnds, GraphStopped, PublishClosing,
                        FlushClosing, Leave, TurnDies
    <3>2. Turn \in Writers /\ pc \in [Writers -> Points]
      BY DEF Writers, TypeOK
    <3> QED BY <1>2, <3>1, <3>2 DEF Record, CloseRow, RowInv
  <2> QED BY <1>2, <2>0, <2>1 DEF Next, Render, FlushSome, FlushFails, StepStarts, StepLeaves,
                StepFlushes, StepTimesOut, ReadEvents, ReadStatus, vars
<1> QED BY <1>1, <1>2
-----------------------------------------------------------------------------
(* The readers.                                                            *)

\* While the turn exists its log only grows.
LEMMA LogGrows ==
    ASSUME TypeOK, [Next]_vars, Exists'
    PROVE  /\ Exists /\ Len(log) \in Nat /\ Len(log') >= Len(log)
           /\ \A m \in Nat \ {0}, n \in 0..Len(log) : SubSeq(log', m, n) = SubSeq(log, m, n)
<1> USE DEF writeVars, readVars
<1>0. Steps \subseteq Writers /\ Turn \in Writers /\ log \in Seq(Batches) /\ Len(log) \in Nat
  BY LenProperties DEF Writers, TypeOK
<1>1. Exists /\ (log' = log \/ \E w \in Writers : log' = Append(log, buf[w]))
  <2>1. ASSUME NEW w \in Writers, Render(w) \/ FlushSome(w) \/ FlushFails(w)
        PROVE  row' = row /\ (log' = log \/ log' = Append(log, buf[w]))
    BY <2>1 DEF Render, FlushSome, FlushFails, Flush, Store, Interrupted
  <2>2. CASE TurnNext
    BY <1>0, <2>2 DEF TurnNext, FanOut, FanOutReturns, GraphEnds, GraphStopped, PublishClosing,
       FlushClosing, Leave, Record, TurnDies, Flush, Store, Interrupted, CloseRow, Exists
  <2>3. ASSUME NEW s \in Steps, StepStarts(s) \/ StepLeaves(s) \/ StepFlushes(s) \/ StepTimesOut(s)
        PROVE  row' = row /\ (log' = log \/ log' = Append(log, buf[s]))
    BY <2>3 DEF StepStarts, StepLeaves, StepFlushes, StepTimesOut, Store, Interrupted
  <2>4. CASE RequestStop \/ Fallback \/ Expired \/ Retired \/ Delete
    BY <2>4 DEF RequestStop, Fallback, Expired, Retired, Delete, CloseRow, Exists
  <2> QED BY <1>0, <2>1, <2>2, <2>3, <2>4 DEF Next, ReadEvents, ReadStatus, vars, Exists
<1>2. ASSUME NEW w \in Writers, log' = Append(log, buf[w])
      PROVE  /\ Len(log') = Len(log) + 1
             /\ \A m \in Nat \ {0}, n \in 0..Len(log) : SubSeq(log', m, n) = SubSeq(log, m, n)
  <2>1. buf[w] \in Batches
    BY DEF TypeOK
  <2> QED BY <1>0, <1>2, <2>1, AppendKeeps
<1> QED BY <1>0, <1>1, <1>2

\* A step that is not a reader's own leaves it as it was.
LEMMA ReadersMove ==
    ASSUME TypeOK, [Next]_vars, NEW r \in Readers, ~ReadEvents(r), ~ReadStatus(r)
    PROVE  /\ cursor'[r] = cursor[r] /\ page'[r] = page[r] /\ got'[r] = got[r]
           /\ rpc'[r] = rpc[r] /\ ended'[r] = ended[r]
<1> USE DEF writeVars, readVars
<1>1. ASSUME NEW x \in Readers, ReadEvents(x) \/ ReadStatus(x)
      PROVE  /\ cursor'[r] = cursor[r] /\ page'[r] = page[r] /\ got'[r] = got[r]
             /\ rpc'[r] = rpc[r] /\ ended'[r] = ended[r]
  <2>1. CASE ReadEvents(x)
    BY <2>1 DEF ReadEvents, TypeOK
  <2>2. CASE ReadStatus(x)
    <3>1. cursor'[r] = cursor[r] /\ got'[r] = got[r] /\ x # r
      BY <2>2 DEF ReadStatus, TypeOK
    <3>2. Polls(x) \/ \E how : Ends(x, how)
      BY <2>2 DEF ReadStatus
    <3>3. page'[r] = page[r] /\ rpc'[r] = rpc[r] /\ ended'[r] = ended[r]
      BY <3>1, <3>2 DEF Polls, Ends, TypeOK
    <3> QED BY <3>1, <3>3
  <2> QED BY <1>1, <2>1, <2>2
<1>2. CASE TurnNext
  BY <1>2 DEF TurnNext, FanOut, FanOutReturns, GraphEnds, GraphStopped, PublishClosing,
              FlushClosing, Leave, Record, TurnDies
<1> QED BY <1>1, <1>2 DEF Next, Render, FlushSome, FlushFails, StepStarts, StepLeaves, StepFlushes,
              StepTimesOut, RequestStop, Fallback, Expired, Retired, Delete, vars

\* What a page adds to the batches shown is the next piece of the log.
LEMMA PageContinues ==
    ASSUME TypeOK, ReaderHasPrefix, PagesFollow, NEW r \in Readers, Exists, rpc[r] = "paged"
    PROVE  /\ cursor[r] + Len(page[r]) \in 0..Len(log)
           /\ got[r] \o page[r] = SubSeq(log, 1, cursor[r] + Len(page[r]))
<1> DEFINE n == cursor[r] + Len(page[r])
<1>1. /\ cursor[r] \in Nat /\ Len(log) \in Nat /\ Len(page[r]) \in Nat
      /\ n <= Len(log) /\ page[r] = SubSeq(log, cursor[r] + 1, n) /\ got[r] = SubSeq(log, 1, cursor[r])
      /\ log \in Seq(Batches)
  BY LenProperties DEF TypeOK, ReaderHasPrefix, PagesFollow
<1> HIDE DEF n
<1>2. SubSeq(log, 1, cursor[r]) \o SubSeq(log, cursor[r] + 1, n) = SubSeq(log, 1, n)
  <2>1. 1 \in 1..(Len(log) + 1) /\ cursor[r] \in 1-1..Len(log) /\ n \in cursor[r]..Len(log)
    BY <1>1 DEF n
  <2> QED BY <1>1, <2>1, ConcatAdjacentSubSeq
<1>3. n \in 0..Len(log)
  BY <1>1 DEF n
<1>4. got[r] \o page[r] = SubSeq(log, 1, n)
  BY <1>1, <1>2, Zenon
<1> QED BY <1>3, <1>4 DEF n

\* Every step leaves a reader at a prefix of the log, and its page after it.
LEMMA PrefixNext ==
    TypeOK /\ ReaderHasPrefix /\ PagesFollow /\ [Next]_vars => ReaderHasPrefix' /\ PagesFollow'
<1> SUFFICES ASSUME TypeOK, ReaderHasPrefix, PagesFollow, [Next]_vars, Exists', NEW r \in Readers
    PROVE  /\ cursor'[r] <= Len(log') /\ got'[r] = SubSeq(log', 1, cursor'[r])
           /\ rpc'[r] = "paged" =>
                /\ cursor'[r] + Len(page'[r]) <= Len(log')
                /\ page'[r] = SubSeq(log', cursor'[r] + 1, cursor'[r] + Len(page'[r]))
  BY DEF ReaderHasPrefix, PagesFollow
<1>1. /\ Exists /\ Len(log) \in Nat /\ Len(log') \in Nat /\ Len(log') >= Len(log)
      /\ \A m \in Nat \ {0}, n \in 0..Len(log) : SubSeq(log', m, n) = SubSeq(log, m, n)
      /\ cursor[r] \in Nat /\ Len(page[r]) \in Nat
  BY LogGrows, TypeNext, LenProperties DEF TypeOK
<1>2. cursor[r] \in 0..Len(log) /\ got[r] = SubSeq(log, 1, cursor[r])
  BY <1>1 DEF ReaderHasPrefix
<1>3. CASE ReadEvents(r)
  <2>1. log' = log /\ cursor'[r] = cursor[r] /\ got'[r] = got[r]
    BY <1>3 DEF ReadEvents
  <2> DEFINE n == IF cursor[r] + Page < Len(log) THEN cursor[r] + Page ELSE Len(log)
  <2>2. /\ page'[r] = SubSeq(log, cursor[r] + 1, n) /\ n \in 0..Len(log)
        /\ Len(page'[r]) = IF cursor[r] + 1 <= n THEN n - cursor[r] ELSE 0
    BY <1>3, PageTypes
  <2>3. n >= cursor[r]
    BY <1>1, <1>2, LogAssumption
  <2>4. Len(page'[r]) = n - cursor[r]
    BY <1>1, <2>2, <2>3
  <2> HIDE DEF n
  <2>5. cursor[r] + Len(page'[r]) = n /\ cursor[r] <= Len(log) /\ n <= Len(log)
    BY <1>1, <1>2, <2>2, <2>4
  <2> QED BY <1>2, <2>1, <2>2, <2>5, Zenon
<1>4. CASE ReadStatus(r)
  <2>1. log' = log /\ rpc[r] = "paged" /\ rpc'[r] # "paged"
    BY <1>4 DEF ReadStatus, Polls, Ends, TypeOK
  <2>2. cursor'[r] = cursor[r] + Len(page[r]) /\ got'[r] = got[r] \o page[r]
    BY <1>1, <1>4 DEF ReadStatus, TypeOK
  <2>3. /\ cursor'[r] <= Len(log) /\ got'[r] = SubSeq(log, 1, cursor[r] + Len(page[r]))
    <3>1. /\ cursor[r] + Len(page[r]) \in 0..Len(log)
          /\ got[r] \o page[r] = SubSeq(log, 1, cursor[r] + Len(page[r]))
      BY <1>1, <2>1, PageContinues
    <3>2. cursor'[r] <= Len(log)
      BY <1>1, <2>2, <3>1
    <3> QED BY <2>2, <3>1, <3>2, Zenon
  <2> QED BY <2>1, <2>2, <2>3, Zenon
<1>5. CASE ~ReadEvents(r) /\ ~ReadStatus(r)
  <2>1. /\ cursor'[r] = cursor[r] /\ page'[r] = page[r] /\ got'[r] = got[r] /\ rpc'[r] = rpc[r]
    BY <1>5, ReadersMove
  <2>2. 1 \in Nat \ {0} /\ SubSeq(log', 1, cursor[r]) = SubSeq(log, 1, cursor[r])
    <3>1. cursor[r] \in 0..Len(log) /\ 1 \in Nat \ {0}
      BY <1>2
    <3> QED BY <1>1, <3>1, Zenon
  <2>3. ASSUME rpc[r] = "paged"
        PROVE  /\ cursor[r] + Len(page[r]) <= Len(log')
               /\ page[r] = SubSeq(log', cursor[r] + 1, cursor[r] + Len(page[r]))
    <3>1. cursor[r] + Len(page[r]) \in 0..Len(log) /\ cursor[r] + 1 \in Nat \ {0}
          /\ page[r] = SubSeq(log, cursor[r] + 1, cursor[r] + Len(page[r]))
      <4>1. /\ cursor[r] + Len(page[r]) <= Len(log)
            /\ page[r] = SubSeq(log, cursor[r] + 1, cursor[r] + Len(page[r]))
        BY <1>1, <2>3 DEF PagesFollow
      <4>2. cursor[r] \in Nat /\ Len(page[r]) \in Nat /\ Len(log) \in Nat
        BY <1>1
      <4> QED BY <4>1, <4>2
    <3>2. cursor[r] + Len(page[r]) <= Len(log')
      BY <1>1, <3>1
    <3> QED BY <1>1, <3>1, <3>2, Zenon
  <2> QED BY <1>1, <1>2, <2>1, <2>2, <2>3
<1> QED BY <1>3, <1>4, <1>5

\* A prefix that reaches the coordinator's last batch has all of them.
LEMMA PrefixIsWhole ==
    ASSUME NEW s \in Seq(Batches), NEW n \in 0..Len(s), \A i \in Mine(s) : i <= n
    PROVE  LET t == SubSeq(s, 1, n)
           IN  /\ \A m : InOrder(s, m) => InOrder(t, m)
               /\ ClosesLast(s) => ClosesLast(t)
<1> DEFINE t == SubSeq(s, 1, n)
<1>1. /\ DOMAIN s = 1..Len(s) /\ Len(s) \in Nat /\ n \in Nat
      /\ \A i \in 1..n : s[i] \in Batches
  BY LenProperties, ElementOfSeq
<1>2. /\ t \in Seq(Batches) /\ Len(t) = n /\ \A i \in 1..n : t[i] = s[i]
  <2>1. /\ t \in Seq(Batches) /\ Len(t) = IF 1 <= n THEN n - 1 + 1 ELSE 0
        /\ \A i \in 1..(n - 1 + 1) : t[i] = s[1 + i - 1]
    BY <1>1, SubSeqProperties
  <2> QED BY <1>1, <2>1
<1>3. DOMAIN t = 1..n
  BY <1>2, LenProperties
<1> HIDE DEF t
<1>4. Mine(t) = Mine(s) /\ \A i \in Mine(s) : t[i] = s[i]
  <2>1. \A i : i \in Mine(t) <=> i \in Mine(s)
    BY <1>1, <1>2, <1>3 DEF Mine
  <2> QED BY <1>1, <1>2, <2>1 DEF Mine
<1>5. ASSUME NEW m, InOrder(s, m) PROVE InOrder(t, m)
  BY <1>4, <1>5 DEF InOrder
<1>6. ClosesLast(s) => ClosesLast(t)
  BY <1>4 DEF ClosesLast
<1> QED BY <1>5, <1>6 DEF t

\* A reader ends on a completed turn when it has shown all the coordinator stored.
LEMMA WholeNext ==
    /\ TypeOK /\ PointsInv /\ LogInv /\ RowInv /\ PagesFollow /\ EndsLast
    /\ ReaderHasPrefix /\ CompletedIsWhole /\ [Next]_vars
    => EndsLast' /\ CompletedIsWhole'
<1> SUFFICES ASSUME TypeOK, PointsInv, LogInv, RowInv, PagesFollow, EndsLast, ReaderHasPrefix,
                    CompletedIsWhole, [Next]_vars, NEW r \in Readers, ended'[r] = "completed"
    PROVE  /\ rpc'[r] = "done" /\ pc'[Turn] = "returned"
           /\ InOrder(got'[r], buf'[Turn].upto) /\ ClosesLast(got'[r])
  BY DEF EndsLast, CompletedIsWhole, InOrder, ClosesLast, Mine
<1>1. CASE ended[r] = "completed"
  <2>1. /\ rpc[r] = "done" /\ pc[Turn] = "returned" /\ InOrder(got[r], buf[Turn].upto)
        /\ ClosesLast(got[r])
    BY <1>1 DEF EndsLast, CompletedIsWhole
  <2>2. rpc'[r] = rpc[r] /\ got'[r] = got[r]
    BY <2>1, ReadersMove DEF ReadEvents, ReadStatus
  <2> QED BY <2>1, <2>2, ReturnedStays
<1>2. CASE ended[r] # "completed"
  <2>1. ReadStatus(r) /\ row.status # "gone" /\ row' = row /\ pc' = pc /\ buf' = buf
    BY <1>2, ReadersMove DEF ReadEvents, ReadStatus, Ends, TypeOK, writeVars, Exists
  <2> DEFINE next == cursor[r] + Len(page[r])
  <2>2. /\ row.status = "completed" /\ (row.last = Unknown \/ next >= row.last)
        /\ got'[r] = got[r] \o page[r] /\ rpc'[r] = "done" /\ rpc[r] = "paged" /\ Exists
    BY <1>2, <2>1 DEF ReadStatus, Polls, Ends, TypeOK, Exists
  <2>3. /\ pc[Turn] = "returned" /\ Sound /\ row.last = lastSeq
    BY <2>2 DEF RowInv, PointsInv, Sound
  <2>4. /\ HoldsParts(log, buf[Turn].after) /\ \A i \in Mine(log) : i <= lastSeq
        /\ ClosesLast(log) /\ buf[Turn].after = buf[Turn].upto
    BY <2>2, <2>3 DEF LogInv, Unclosed, Closed, IsEmpty
  <2>5. log \in Seq(Batches) /\ next \in 0..Len(log) /\ got'[r] = SubSeq(log, 1, next)
        /\ lastSeq \in Nat
    BY <2>2, PageContinues DEF TypeOK
  <2> HIDE DEF next
  <2>6. \A i \in Mine(log) : i <= next
    <3>1. next >= lastSeq /\ next \in Nat
      BY <2>2, <2>3, <2>5, LenProperties DEF Unknown
    <3>2. \A i \in Mine(log) : i \in Nat
      BY <2>5, LenProperties DEF Mine
    <3> QED BY <2>4, <2>5, <3>1, <3>2
  <2>7. InOrder(SubSeq(log, 1, next), buf[Turn].upto) /\ ClosesLast(SubSeq(log, 1, next))
    BY <2>4, <2>5, <2>6, PrefixIsWhole DEF HoldsParts
  <2> QED BY <2>1, <2>2, <2>3, <2>5, <2>7
<1> QED BY <1>1, <1>2
-----------------------------------------------------------------------------
\* The invariant holds in every state: what the log and the coordinator's buffer
\* hold, and what each reader has shown of it.
LEMMA TurnLogInvHolds == Spec => []TurnLogInv
<1>1. TurnLogInv /\ [Next]_vars => TurnLogInv'
  <2> SUFFICES ASSUME TurnLogInv, [Next]_vars PROVE TurnLogInv'
    OBVIOUS
  <2>1. TypeOK' /\ PointsInv' /\ LogInv' /\ RowInv'
    BY TypeNext, PointsNext, LogNext, RowNext DEF TurnLogInv
  <2> QED BY <2>1, PrefixNext, WholeNext DEF TurnLogInv
<1> QED BY <1>1, InvInit, PTL DEF Spec

\* The types of the turn's row, its log, the publishers and the readers.
THEOREM TurnLogTyped == Spec => []TypeOK
<1>1. TurnLogInv => TypeOK
  BY DEF TurnLogInv
<1> QED BY <1>1, TurnLogInvHolds, PTL

\* What a reader has shown is the beginning of the log, page after page, whatever
\* is appended between its two reads.
THEOREM ReadersHavePrefix == Spec => []ReaderHasPrefix
<1>1. TurnLogInv => ReaderHasPrefix
  BY DEF TurnLogInv
<1> QED BY <1>1, TurnLogInvHolds, PTL

\* A reader that ended on a completed turn has the whole answer.
THEOREM CompletedTurnsAreWhole == Spec => []CompletedIsWhole
<1>1. TurnLogInv => CompletedIsWhole
  BY DEF TurnLogInv
<1> QED BY <1>1, TurnLogInvHolds, PTL
=============================================================================
