----------------------------- MODULE TurnBudget -----------------------------
(***************************************************************************)
(* The run-level budget of one chat turn: BudgetController of              *)
(* chat_budget.py, the callers that reserve against it (chat_graph.py,     *)
(* chat_orchestrator.py, mcp_builtins/sandbox.py) and the grants handed to *)
(* the steps that run in another process.                                  *)
(*                                                                         *)
(* A model call reserves its estimate, is refused, or waits for calls in   *)
(* flight to settle; when it returns, its actual usage replaces the        *)
(* estimate.  Tokens and cost are the two amounts a run is limited in      *)
(* (Dims), the number of calls is the third.  Amounts are small integers;  *)
(* the estimate of a call is taken from Requests, and its actual usage may *)
(* exceed it by up to Overrun.                                             *)
(***************************************************************************)
EXTENDS Integers, FiniteSets, Functions, Sequences

CONSTANTS
  LLMCalls,   \* the callers of the run, one call in flight each
  KindOf,     \* "work", "delegate", "summary" or "answer", per caller
  ScopeOf,    \* the plan step the caller works for, or NoScope
  Scopes, NoScope,
  Requests,   \* estimates a caller may ask for, records over Dims
  Overrun,    \* by how much an actual usage may exceed its estimate
  Limit, Reserve, SoftLimit,   \* per dimension; a limit of 0 is no limit
  Ceiling,    \* per scope and dimension; 0 is no ceiling
  CallLimits, \* the call ceilings the plans of the run derive
  MaxPolls,   \* polls a waiter makes before its deadline
  Workers,    \* steps that run in another process under a grant
  Waves,      \* dispatcher passes the plan may still need
  Floor       \* the complexity estimate a token slice is not cut below

Dims == {"tokens", "cost"}

ASSUME BudgetAssumption ==
  /\ IsFiniteSet(LLMCalls) /\ IsFiniteSet(Workers)
  /\ KindOf \in [LLMCalls -> {"work", "delegate", "summary", "answer"}]
  /\ ScopeOf \in [LLMCalls -> Scopes \cup {NoScope}]
  /\ NoScope \notin Scopes
  /\ Requests \subseteq [Dims -> Nat]
  /\ Overrun \in Nat /\ MaxPolls \in Nat /\ Floor \in Nat
  /\ Limit \in [Dims -> Nat] /\ Reserve \in [Dims -> Nat]
  /\ SoftLimit \in [Dims -> Nat]
  /\ \A d \in Dims : Reserve[d] <= Limit[d]
  /\ Ceiling \in [Scopes -> [Dims -> Nat]]
  /\ CallLimits \subseteq Nat \ {0} /\ CallLimits # {}
  /\ Waves \subseteq Nat \ {0}

VARIABLES
  total,     \* committed usage per dimension
  llmCalls,  \* committed calls
  maxCalls,  \* the call ceiling, which only rises
  mode,      \* normal, degraded, finalizing or exhausted
  call,      \* per caller: its status, its request, the polls it made
  open,      \* scopes that are open
  spent,     \* committed usage per open scope and dimension
  grant,     \* per worker: the slice it holds, and what the slice bounds
  over,      \* history: usage above what was estimated or granted
  loose,     \* history: usage under a slice that bounded nothing
  drawn,     \* history: a call that may use the reserve was authorized
  gathering  \* the plan still runs; the synthesizer has not been reached

budgetVars ==
  <<total, llmCalls, maxCalls, mode, call, open, spent, grant, over, loose,
    drawn, gathering>>

Finalizing == mode \in {"finalizing", "exhausted"}
Zero == [d \in Dims |-> 0]
NoCall == [st |-> "idle", req |-> Zero, polls |-> 0]
Keys == Dims \cup {"calls"}
NoGrant == [held |-> FALSE, cap |-> [k \in Keys |-> 0], bound |-> {}]

InFlight == {c \in LLMCalls : call[c].st = "inflight"}
AllowsReserve(c) == KindOf[c] \in {"summary", "answer"}
Smaller(a, b) == IF a < b THEN a ELSE b
Larger(a, b) == IF a < b THEN b ELSE a

(* What the calls of C hold in dimension d while they are in flight.       *)
Held(C, d) == SumFunctionOnSet([c \in LLMCalls |-> call[c].req[d]], C \cap InFlight)
CallersOf(s) == {c \in LLMCalls : ScopeOf[c] = s}

(* reserve_llm_calls: kept back from everything but the answer.            *)
CallReserve(m) == Smaller(2, Larger(0, m - 1))

(* What may still be spent outside the finalization reserve.               *)
RemainingNormal(d) == Larger(0, Limit[d] - Reserve[d] - total[d])
RemainingCalls == Larger(0, maxCalls - CallReserve(maxCalls) - llmCalls)

-----------------------------------------------------------------------------
(* _authorize_locked: the tests in the order the code makes them; the      *)
(* first that does not pass answers.                                       *)
Bounded(c, d) == /\ ScopeOf[c] \in open
                 /\ Ceiling[ScopeOf[c]][d] # 0
ScopeOver(c, r, d) ==
  Bounded(c, d) /\ spent[ScopeOf[c]][d] + r[d] > Ceiling[ScopeOf[c]][d]
ScopeHeld(c, r, d) ==
  /\ Bounded(c, d)
  /\ spent[ScopeOf[c]][d] + Held(CallersOf(ScopeOf[c]), d) + r[d]
       > Ceiling[ScopeOf[c]][d]
Room(c, d) == Limit[d] - IF AllowsReserve(c) THEN 0 ELSE Reserve[d]
RunOver(c, r, d) == Limit[d] # 0 /\ total[d] + r[d] > Room(c, d)
\* Mutant: only committed usage counts against the run.
RunHeldNever(c, r, d) == FALSE
RunHeld(c, r, d) ==
  Limit[d] # 0 /\ total[d] + r[d] + Held(LLMCalls, d) > Room(c, d)
CallsOver(c) ==
  llmCalls + Cardinality(InFlight) + 1
    > maxCalls - IF AllowsReserve(c) THEN 0 ELSE CallReserve(maxCalls)

ScopeAnswer(c, r, d) == IF ScopeOver(c, r, d) THEN "share"
                        ELSE IF ScopeHeld(c, r, d) THEN "wait" ELSE "grant"
RunAnswer(c, r, d) == IF RunOver(c, r, d) THEN "spent"
                      ELSE IF RunHeld(c, r, d) THEN "wait" ELSE "grant"
GateAnswer(c) == IF Finalizing /\ ~AllowsReserve(c) THEN "ended"
                 ELSE IF CallsOver(c) THEN "spent" ELSE "grant"

Then(first, next) == IF first = "grant" THEN next ELSE first
Verdict(c, r) ==
  Then(ScopeAnswer(c, r, "tokens"),
  Then(ScopeAnswer(c, r, "cost"),
  Then(GateAnswer(c),
  Then(RunAnswer(c, r, "tokens"), RunAnswer(c, r, "cost")))))

BeginFinalization(m) == IF m = "exhausted" THEN m ELSE "finalizing"

(* The mode after BudgetExceeded: the controller finalizes when the run    *)
(* has no room, then the caller's handler does what it does with the       *)
(* exception -- a worker, the planner, the verifier and the chat loop      *)
(* finalize, the synthesizer marks the run exhausted, a delegated call and *)
(* a summary pass do nothing.                                              *)
AfterExceeded(c, why) ==
  LET m == IF why = "spent" THEN BeginFinalization(mode) ELSE mode
  IN  CASE KindOf[c] = "work"   -> BeginFinalization(m)
        [] KindOf[c] = "answer" -> "exhausted"
        [] OTHER                -> m

(* _refresh_mode_locked, on the ledger a commit leaves.                    *)
RefreshedMode(t, n) ==
  LET crossed == \E d \in Dims : Limit[d] # 0 /\ t[d] >= SoftLimit[d]
      m == IF crossed /\ mode = "normal" THEN "degraded" ELSE mode
      gone == (\E d \in Dims : Limit[d] # 0 /\ t[d] >= Limit[d]) \/ n >= maxCalls
  IN  IF gone THEN "exhausted" ELSE m

-----------------------------------------------------------------------------
BudgetInit ==
  /\ total = Zero /\ llmCalls = 0 /\ mode = "normal"
  /\ maxCalls \in CallLimits
  /\ call = [c \in LLMCalls |-> NoCall]
  /\ open = {}
  /\ spent = [s \in Scopes |-> Zero]
  /\ grant = [w \in Workers |-> NoGrant]
  /\ over = [k \in Keys |-> 0] /\ loose = [k \in Keys |-> 0]
  /\ drawn = FALSE /\ gathering = TRUE

(* The dispatcher waits for its batch: nothing is reserved meanwhile.      *)
Coordinating == \A w \in Workers : ~grant[w].held


(* A step delegates between its own calls, and sums up after its scope is  *)
(* closed; everything without a step comes when no step is running.        *)
MayCall(c) ==
  /\ Coordinating /\ gathering = (KindOf[c] # "answer")
  /\ IF ScopeOf[c] = NoScope THEN KindOf[c] # "summary" => open = {}
     ELSE /\ ScopeOf[c] \in open
          /\ \A o \in CallersOf(ScopeOf[c]) :
               KindOf[o] # KindOf[c] => call[o].st = "idle"

OpenScope(s) ==
  /\ Coordinating /\ gathering /\ s \notin open
  /\ open' = open \cup {s}
  /\ spent' = [spent EXCEPT ![s] = Zero]
  /\ UNCHANGED <<total, llmCalls, maxCalls, mode, call, grant, over, loose, drawn, gathering>>

(* A step's end, however it ends: its scope goes with what is reserved     *)
(* against it, and the calls it still had are cancelled with it.           *)
CloseScope(s) ==
  /\ s \in open
  /\ open' = open \ {s}
  /\ spent' = [spent EXCEPT ![s] = Zero]
  /\ call' = [c \in LLMCalls |-> IF ScopeOf[c] = s THEN NoCall ELSE call[c]]
  /\ UNCHANGED <<total, llmCalls, maxCalls, mode, grant, over, loose, drawn, gathering>>

Settle(c, st, r, p) ==
  call' = [call EXCEPT ![c] = [st |-> st, req |-> r, polls |-> p]]
Admit(c, r) == /\ Settle(c, "inflight", r, 0)
               /\ drawn' = (drawn \/ AllowsReserve(c))
               /\ UNCHANGED mode
Exceed(c, r, why) == /\ Settle(c, "refused", r, 0)
                     /\ mode' = AfterExceeded(c, why)
                     /\ UNCHANGED drawn
Wait(c, r, p) == /\ Settle(c, "waiting", r, p)
                 /\ UNCHANGED <<mode, drawn>>

(* reserve: authorized, refused, or left waiting; with no wait configured  *)
(* contention raises at once.                                              *)
ReserveCall(c) ==
  /\ call[c].st = "idle" /\ MayCall(c)
  /\ \E r \in Requests :
       LET v == Verdict(c, r) IN
         \/ v = "grant" /\ Admit(c, r)
         \/ v = "wait" /\ MaxPolls > 0 /\ Wait(c, r, 0)
         \/ v # "grant" /\ (v = "wait" => MaxPolls = 0) /\ Exceed(c, r, v)
  /\ UNCHANGED <<total, llmCalls, maxCalls, open, spent, grant, over, loose, gathering>>

(* A waiter that was notified, or whose poll came up, authorizes again.    *)
Recheck(c) ==
  /\ call[c].st = "waiting"
  /\ LET r == call[c].req
         v == Verdict(c, r) IN
       \/ v = "grant" /\ Admit(c, r)
       \/ v \notin {"grant", "wait"} /\ Exceed(c, r, v)
  /\ UNCHANGED <<total, llmCalls, maxCalls, open, spent, grant, over, loose, gathering>>

\* Mutant: the deadline is measured anew at every poll.
PollForever(c) ==
  /\ call[c].st = "waiting" /\ Verdict(c, call[c].req) = "wait"
  /\ Wait(c, call[c].req, 0)
  /\ UNCHANGED <<total, llmCalls, maxCalls, open, spent, grant, over, loose, gathering>>
(* A poll that finds the room still taken; the last one is the deadline.   *)
Poll(c) ==
  /\ call[c].st = "waiting" /\ Verdict(c, call[c].req) = "wait"
  /\ IF call[c].polls + 1 < MaxPolls
     THEN Wait(c, call[c].req, call[c].polls + 1)
     ELSE Exceed(c, call[c].req, "wait")
  /\ UNCHANGED <<total, llmCalls, maxCalls, open, spent, grant, over, loose, gathering>>

(* What a call that estimated e may have used: it is off by one either     *)
(* way, or by as much as the output overran the observed mean.             *)
Usage(e) == {[d \in Dims |-> Larger(0, e[d] + k)] : k \in {-1, 0, Overrun}}
Plus(f, g) == [k \in DOMAIN f |-> f[k] + IF k \in DOMAIN g THEN g[k] ELSE 0]
Excess(u, e) == [d \in Dims |-> Larger(0, u[d] - e[d])]

(* commit: the estimate is replaced by the actual, the waiters notified.   *)
CommitCall(c) ==
  /\ call[c].st = "inflight"
  /\ \E u \in Usage(call[c].req) :
       /\ total' = Plus(total, u)
       /\ llmCalls' = llmCalls + 1
       /\ spent' = IF ScopeOf[c] \in open
                   THEN [spent EXCEPT ![ScopeOf[c]] = Plus(@, u)] ELSE spent
       /\ over' = Plus(over, Excess(u, call[c].req))
       /\ mode' = RefreshedMode(Plus(total, u), llmCalls + 1)
  /\ call' = [call EXCEPT ![c] = NoCall]
  /\ UNCHANGED <<maxCalls, open, grant, loose, drawn, gathering>>

(* release or discard: the provider failed, or the call was cancelled.     *)
ReleaseCall(c) ==
  /\ call[c].st = "inflight"
  /\ call' = [call EXCEPT ![c] = NoCall]
  /\ UNCHANGED <<total, llmCalls, maxCalls, mode, open, spent, grant, over, loose, drawn, gathering>>

(* The caller that was refused goes on to whatever it does next.           *)
GiveUp(c) ==
  /\ call[c].st = "refused"
  /\ call' = [call EXCEPT ![c] = NoCall]
  /\ UNCHANGED <<total, llmCalls, maxCalls, mode, open, spent, grant, over, loose, drawn, gathering>>

(* The plan changed: the call ceiling rises with it, and an estimate above *)
(* what is left degrades the run.                                          *)
Replan ==
  /\ Coordinating /\ gathering
  /\ \E m \in CallLimits, more \in BOOLEAN :
       /\ maxCalls' = Larger(maxCalls, m)
       /\ mode' = IF more /\ Limit["tokens"] # 0 /\ mode = "normal"
                  THEN "degraded" ELSE mode
       /\ <<maxCalls', mode'>> # <<maxCalls, mode>>
  /\ UNCHANGED <<total, llmCalls, call, open, spent, grant, over, loose, drawn, gathering>>

(* The plan is through: the synthesizer writes the answer.                 *)
Synthesize ==
  /\ gathering /\ Coordinating /\ open = {}
  /\ \A c \in LLMCalls : call[c].st = "idle"
  /\ gathering' = FALSE
  /\ UNCHANGED <<total, llmCalls, maxCalls, mode, call, open, spent, grant, over,
                 loose, drawn>>

-----------------------------------------------------------------------------
(* _grant_for: one step's slice of what the run has left, for a batch of n *)
(* steps and a plan that still needs k passes.  Where the run is limited   *)
(* in cost, cost is shared by the schedule and tokens and calls only by    *)
(* the width of the batch.                                                 *)
Slice(n, k) ==
  LET costPrimary  == Limit["cost"] # 0
      callsPrimary == Limit["cost"] = 0 /\ Limit["tokens"] = 0
      left == RemainingNormal("tokens")
  IN [tokens |-> IF Limit["tokens"] = 0
                 THEN IF costPrimary THEN 0 ELSE Floor
                 ELSE IF costPrimary THEN left \div n
                 ELSE Smaller(Larger(Floor, left \div (n * k)), left \div n),
      cost   |-> IF costPrimary THEN RemainingNormal("cost") \div (n * k) ELSE 0,
      calls  |-> RemainingCalls \div IF callsPrimary THEN n * k ELSE n]

(* grant_ledger: a limit of zero is no limit, and a share of nothing is    *)
(* zero.  (Amounts are in units of many tokens, so a share of something is *)
(* not; calls are counted one by one.)                                     *)
SliceBounds(n, k) ==
  {d \in Dims : Limit[d] # 0 /\ RemainingNormal(d) # 0}
    \cup {d \in {"calls"} : Slice(n, k).calls # 0}

(* A batch goes to other processes; no call of the run is pending.         *)
DispatchBatch(W) ==
  /\ Coordinating /\ gathering /\ ~Finalizing /\ open = {}
  /\ \A c \in LLMCalls : call[c].st = "idle"
  /\ \E k \in Waves :
       grant' = [w \in Workers |->
                   IF w \in W
                   THEN [held  |-> TRUE,
                         cap   |-> Slice(Cardinality(W), k),
                         bound |-> SliceBounds(Cardinality(W), k)]
                   ELSE NoGrant]
  /\ UNCHANGED <<total, llmCalls, maxCalls, mode, call, open, spent, over, loose, drawn, gathering>>

(* What the worker used: nothing, its slice, one overrun more, and with no *)
(* bound as much as the whole run was given.                               *)
UsedUnder(g, k) ==
  {0} \cup IF k \in g.bound
           THEN {g.cap[k]} \cup IF k = "calls" THEN {} ELSE {g.cap[k] + Overrun}
           ELSE IF k = "calls" THEN {maxCalls} ELSE {Limit[k]}

(* absorb: the actuals of a worker's own ledger, after the fact.           *)
Absorb(w) ==
  /\ grant[w].held
  /\ \E t \in UsedUnder(grant[w], "tokens"), x \in UsedUnder(grant[w], "cost"),
        n \in UsedUnder(grant[w], "calls") :
       LET u == [tokens |-> t, cost |-> x, calls |-> n]
           above == [k \in Keys |-> Larger(0, u[k] - grant[w].cap[k])]
       IN /\ total' = Plus(total, u)
          /\ llmCalls' = llmCalls + n
          /\ over' = Plus(over, [k \in grant[w].bound |-> above[k]])
          /\ loose' = Plus(loose, [k \in Keys \ grant[w].bound |-> above[k]])
          /\ mode' = RefreshedMode(Plus(total, u), llmCalls + n)
  /\ grant' = [grant EXCEPT ![w] = NoGrant]
  /\ UNCHANGED <<maxCalls, call, open, spent, drawn, gathering>>

(* The step failed or its payload is gone: its usage is not absorbed.      *)
LoseWorker(w) ==
  /\ grant[w].held
  /\ grant' = [grant EXCEPT ![w] = NoGrant]
  /\ UNCHANGED <<total, llmCalls, maxCalls, mode, call, open, spent, over, loose, drawn, gathering>>

BudgetNext ==
  \/ \E c \in LLMCalls : \/ ReserveCall(c) \/ Recheck(c) \/ Poll(c)
                         \/ CommitCall(c) \/ ReleaseCall(c) \/ GiveUp(c)
  \/ \E s \in Scopes : OpenScope(s) \/ CloseScope(s)
  \/ \E W \in SUBSET Workers : Cardinality(W) >= 2 /\ DispatchBatch(W)
  \/ \E w \in Workers : Absorb(w) \/ LoseWorker(w)
  \/ Replan \/ Synthesize

BudgetSpec == BudgetInit /\ [][BudgetNext]_budgetVars

(* A waiter wakes at least once per poll: its task is not starved.         *)
BudgetFairness == \A c \in LLMCalls : WF_budgetVars(Recheck(c) \/ Poll(c))
BudgetFairSpec == BudgetSpec /\ BudgetFairness

-----------------------------------------------------------------------------
Statuses == {"idle", "waiting", "inflight", "refused"}
BudgetTypeOK ==
  /\ total \in [Dims -> Nat] /\ llmCalls \in Nat /\ maxCalls \in CallLimits
  /\ mode \in {"normal", "degraded", "finalizing", "exhausted"}
  /\ call \in [LLMCalls -> [st : Statuses, req : [Dims -> Nat], polls : Nat]]
  /\ open \subseteq Scopes /\ spent \in [Scopes -> [Dims -> Nat]]
  /\ grant \in [Workers -> [held : BOOLEAN, cap : [Keys -> Nat], bound : SUBSET Keys]]
  /\ over \in [Keys -> Nat] /\ loose \in [Keys -> Nat] 
  /\ drawn \in BOOLEAN /\ gathering \in BOOLEAN

(* However its calls interleave, a run commits and holds no more than its  *)
(* limit plus what single calls ran over their estimates, and no more      *)
(* calls than the loop guard: authorization and commit never count a call  *)
(* twice or not at all, in this process or in those that hold a grant.     *)
SpendBounded ==
  /\ \A d \in Dims : Limit[d] # 0 =>
       total[d] + Held(LLMCalls, d) <= Limit[d] + over[d] + loose[d]
  /\ llmCalls + Cardinality(InFlight) <= maxCalls + loose["calls"]

(* Until a summary or the answer was authorized, the finalization reserve  *)
(* is whole in every dimension: gathering evidence, in this process or in  *)
(* others, never spends what pays for the answer.                          *)
ReserveKept ==
  ~drawn =>
    /\ \A d \in Dims : Limit[d] # 0 =>
         total[d] + Held(LLMCalls, d) <= Limit[d] - Reserve[d] + over[d] + loose[d]
    /\ llmCalls + Cardinality(InFlight)
         <= maxCalls - CallReserve(maxCalls) + loose["calls"]

(* A step, its delegations included, stays inside its share.               *)
ShareKept ==
  \A s \in open, d \in Dims : Ceiling[s][d] # 0 =>
    spent[s][d] + Held(CallersOf(s), d) <= Ceiling[s][d] + over[d]

(* However its calls interleave, a run stays inside its limit, and no part *)
(* of the turn spends what is set aside for another.                       *)
BudgetInv == SpendBounded /\ ReserveKept /\ ShareKept

(* Every caller that waits for room gets it or is told no.                 *)
WaitersAnswered ==
  \A c \in LLMCalls : call[c].st = "waiting" ~> call[c].st # "waiting"
=============================================================================
