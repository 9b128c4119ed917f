-------------------------- MODULE PlanOrchestration --------------------------
(***************************************************************************)
(* The orchestrated path of a conversation (chat_orchestrator.py): router, *)
(* planner, dispatcher, verifier, synthesizer and the pause for an         *)
(* approval, as nodes of a graph whose state is saved after each of them.  *)
(*                                                                         *)
(* A node is one action: nothing else writes the plan of a conversation    *)
(* while its turn runs, and a turn that dies in a node leaves the plan of  *)
(* the node before.  What a model answers -- the graph of the plan, the    *)
(* items of a mapped step, the outcome of a worker, a verdict -- is chosen *)
(* from small sets.                                                        *)
(***************************************************************************)
EXTENDS PlanShape

CONSTANTS
  RawPlans,      \* graphs the planner may return for the first message
  Replans,       \* ... and may return when it is asked again
  Explored,      \* those whose execution is followed, not only their repair, and
                 \* what it may return for the messages after the first
  MaxSteps,      \* CHAT_ORCHESTRATOR_MAX_STEPS
  MaxParallel,   \* CHAT_ORCHESTRATOR_MAX_PARALLEL
  MaxIterations, \* CHAT_ORCHESTRATOR_MAX_ITERATIONS
  MaxExpansion,  \* CHAT_ORCHESTRATOR_MAX_EXPANSION
  Asks,          \* what a worker may stop for: sets of "confirm" and "elicit"
  Reasons,       \* what a verifier may object to
  MaxTurns,      \* messages of the conversation
  MaxLost        \* bound: batches that are started and that no saved plan knows of

ASSUME PlanAssumption ==
  /\ RawPlans \cup Replans \subseteq Seq(PlannedSteps)
  /\ MaxSteps \in Nat \ {0} /\ MaxParallel \in Nat \ {0}
  /\ MaxIterations \in Nat /\ MaxExpansion \in Nat /\ MaxTurns \in Nat /\ MaxLost \in Nat
  /\ Explored \subseteq RawPlans \cup {<<>>}
  /\ Asks \subseteq (SUBSET {"confirm", "elicit"}) \ {{}}
  /\ "" \notin Reasons

VARIABLES
  phase,    \* the node the turn is at, or "idle" between two turns
  msg,      \* what the message of the turn is: fresh, resume or continue
  turn,     \* messages so far
  raw,      \* the graph the planner returned
  order,    \* the plan's step ids, in plan order
  step,     \* per step id: its state, and what its result says
  iter,     \* retry cycles used
  mode,     \* of the turn's budget: normal, degraded or finalizing
  owner,    \* history: the turn whose message the plan was made for
  batches,  \* history: what identifies the fan-outs of this turn
  attempts, \* history: how often each step was handed to a worker
  lost,     \* history: how often a batch was started that no saved plan knows of
  acted     \* history: steps whose approved action was executed

planVars == <<phase, msg, turn, raw, order, step, iter, mode, owner, batches,
              attempts, lost, acted>>
history == <<owner, batches, attempts, lost, acted>>
saved == <<raw, order, step, iter>>

Phases == {"idle", "router", "planner", "replanner", "planned", "dispatcher",
           "verifier", "pause", "synthesizer"}
Ids == ToSet(order)
With(st) == {s \in Ids : step[s].st = st}
HasPendingPlan == \E s \in Ids : step[s].st \in {"pending", "ran", "failed", "awaiting"}

(* A step as _init_plan leaves it.                                         *)
NewStep(p) ==
  [st |-> "pending", deps |-> p.deps, map |-> p.map, optional |-> p.optional,
   parent |-> NoName, noRetry |-> FALSE, guidance |-> "", reason |-> "",
   res |-> "none", asks |-> {}]
Fallback == <<[id |-> <<1>>, deps |-> {}, map |-> NoName, answer |-> FALSE, optional |-> FALSE]>>
PlanOf(r) == InitPlan(IF r = <<>> THEN Fallback ELSE r)

PlanInit ==
  /\ phase = "idle" /\ msg = "fresh" /\ turn = 0 /\ raw = <<>>
  /\ order = <<>> /\ step = <<>> /\ iter = 0 /\ mode = "normal"
  /\ owner = 0 /\ batches = {} /\ attempts = <<>> /\ lost = 0 /\ acted = {}

-----------------------------------------------------------------------------
(* A message: a request, an approval to resume with, or the button that    *)
(* continues an answer.  A turn has a budget of its own.                   *)
Say(kind) ==
  /\ phase = "idle" /\ turn < MaxTurns
  /\ turn' = turn + 1 /\ msg' = kind /\ phase' = "router" /\ mode' = "normal"
  /\ batches' = {}
  /\ UNCHANGED <<saved, owner, attempts, lost, acted>>

(* router_node: a plan an earlier turn left unfinished is dropped, unless  *)
(* the message resumes it; then the planner keeps it as it is.  Resuming   *)
(* without a plan is the single agent's.                                   *)
Route ==
  /\ phase = "router"
  /\ IF HasPendingPlan /\ msg # "fresh"
     THEN phase' = "dispatcher" /\ UNCHANGED saved
     ELSE /\ phase' \in IF msg = "fresh" THEN {"planner", "idle"} ELSE {"idle"}
          /\ IF HasPendingPlan
             THEN raw' = <<>> /\ order' = <<>> /\ step' = <<>> /\ iter' = 0
             ELSE UNCHANGED saved
  /\ UNCHANGED <<msg, turn, mode, history>>

(* planner_node: the model answers, or fails, or has no budget left.  A    *)
(* graph with problems is sent back once.                                  *)
PlannerAnswers ==
  /\ phase = "planner"
  /\ \E r \in (IF turn = 1 THEN RawPlans ELSE Explored) \cup {<<>>} :
       /\ raw' = Truncated(r, MaxSteps)
       /\ phase' = IF PlanProblems(raw') # {} THEN "replanner" ELSE "planned"
       /\ mode' \in IF r = <<>> THEN {mode, "finalizing"} ELSE {mode}
  /\ attempts' = <<>> /\ lost' = 0 /\ acted' = {}
  /\ UNCHANGED <<msg, turn, order, step, iter, owner, batches>>

(* _replan_invalid_graph: whatever comes back is used, valid or not.       *)
Replan ==
  /\ phase = "replanner" /\ phase' = "planned"
  /\ \/ raw' = raw /\ mode' \in {mode, "finalizing"}
     \/ \E r \in Replans \ {<<>>} : raw' = Truncated(r, MaxSteps) /\ UNCHANGED mode
  /\ UNCHANGED <<msg, turn, order, step, iter, history>>

(* The rest of planner_node: _init_plan.                                   *)
Plan ==
  /\ phase = "planned" /\ raw \in Explored
  /\ LET p == PlanOf(raw)
     IN  /\ order' = [k \in DOMAIN p |-> p[k].id]
         /\ step' = [s \in {p[k].id : k \in DOMAIN p} |->
                       NewStep(p[CHOOSE k \in DOMAIN p : p[k].id = s])]
  /\ attempts' = [s \in DOMAIN step' |-> 0] /\ acted' = {}
  /\ iter' = 0 /\ owner' = turn /\ phase' = "dispatcher"
  /\ UNCHANGED <<msg, turn, raw, mode, batches, lost>>

-----------------------------------------------------------------------------
\* Mutant: with nothing to verify, the plan goes through the verifier all the same.
AfterDispatchAlways(st) == IF "awaiting" \in st THEN "pause" ELSE "verifier"
(* route_from_dispatcher.                                                  *)
AfterDispatch(st) ==
  IF "awaiting" \in st THEN "pause" ELSE IF "ran" \in st THEN "verifier" ELSE "synthesizer"
States(s) == {s[x].st : x \in DOMAIN s}

(* _resume_awaiting_steps, for one step: e is what its question came to,   *)
(* c what its confirmation did.  A claimed action is not claimed again.    *)
Answers(s) ==
  {a \in [e : {"none", "wait", "answered", "refused"},
          c : {"none", "wait", "run", "elicit", "abort"}] :
     /\ (a.e = "none") = ("elicit" \notin step[s].asks)
     /\ (a.c = "none") = ("confirm" \notin step[s].asks \/ a.e \in {"wait", "refused"})
     /\ a.c \in {"run", "elicit"} => s \notin acted}
\* Mutant: an executed action leaves its step for the verifier to judge.
ResumedJudged(r, a) ==
  LET asked == IF a.e = "none" THEN r ELSE [r EXCEPT !.noRetry = TRUE, !.asks = @ \ {"elicit"}]
      Failed == [asked EXCEPT !.st = "failed", !.noRetry = TRUE, !.reason = "ended", !.asks = {}]
  IN  IF a.e = "wait" THEN r
      ELSE IF a.e = "refused" \/ a.c = "abort" THEN Failed
      ELSE CASE a.c = "none"   -> [asked EXCEPT !.st = "ran", !.res = "output"]
             [] a.c = "run"    -> [asked EXCEPT !.st = "ran", !.res = "output", !.asks = {}]
             [] a.c = "elicit" -> [asked EXCEPT !.asks = {"elicit"}]
             [] OTHER          -> asked
Resumed(r, a) ==
  LET asked == IF a.e = "none" THEN r ELSE [r EXCEPT !.noRetry = TRUE, !.asks = @ \ {"elicit"}]
      Failed == [asked EXCEPT !.st = "failed", !.noRetry = TRUE, !.reason = "ended", !.asks = {}]
  IN  IF a.e = "wait" THEN r
      ELSE IF a.e = "refused" \/ a.c = "abort" THEN Failed
      ELSE CASE a.c = "none"   -> [asked EXCEPT !.st = "ran", !.res = "output"]
             [] a.c = "run"    -> [asked EXCEPT !.st = "ran", !.res = "executed", !.asks = {}]
             [] a.c = "elicit" -> [asked EXCEPT !.asks = {"elicit"}]
             [] OTHER          -> asked

Resuming == msg = "resume" /\ With("awaiting") # {}
Resume ==
  /\ phase = "dispatcher" /\ Resuming
  /\ \E a \in [With("awaiting") -> UNION {Answers(s) : s \in With("awaiting")}] :
       /\ \A s \in With("awaiting") : a[s] \in Answers(s)
       /\ step' = [s \in Ids |-> IF s \in DOMAIN a THEN Resumed(step[s], a[s]) ELSE step[s]]
       /\ acted' = acted \cup {s \in DOMAIN a : a[s].c \in {"run", "elicit"}}
  /\ phase' = AfterDispatch(States(step'))
  /\ UNCHANGED <<msg, turn, raw, order, iter, mode, owner, batches, attempts, lost>>

(* With the budget finalizing, what has not passed is skipped.             *)
Wind ==
  /\ phase = "dispatcher" /\ ~Resuming /\ mode = "finalizing"
  /\ step' = [s \in Ids |-> IF step[s].st \in {"pending", "failed"}
                            THEN [step[s] EXCEPT !.st = "skipped", !.res = "budget"] ELSE step[s]]
  /\ phase' = AfterDispatch(States(step'))
  /\ UNCHANGED <<msg, turn, raw, order, iter, mode, history>>

(* Soft limit: optional steps that have not run are left out.              *)
Trimmed(s) ==
  [x \in DOMAIN s |-> IF mode # "normal" /\ s[x].st = "pending" /\ s[x].optional
                      THEN [s[x] EXCEPT !.st = "skipped", !.res = "left out"] ELSE s[x]]

(* _prepare_retries: the same objection twice ends a step; the others go   *)
(* back to pending while retry cycles are left.                            *)
Judged(r) ==
  IF r.st = "failed" /\ ~r.noRetry /\ r.reason # "" /\ r.reason = r.guidance
  THEN [r EXCEPT !.noRetry = TRUE] ELSE r
Retryable(r) == r.st = "failed" /\ ~r.noRetry
Prepared(s) ==
  LET judged == [x \in DOMAIN s |-> Judged(s[x])]
  IN  IF iter >= MaxIterations \/ \A x \in DOMAIN s : ~Retryable(judged[x])
      THEN [steps |-> judged, iter |-> iter]
      ELSE [steps |-> [x \in DOMAIN s |->
              IF Retryable(judged[x])
              THEN [judged[x] EXCEPT !.st = "pending", !.guidance = judged[x].reason]
              ELSE judged[x]],
            iter |-> iter + 1]

(* _expand_mapped_steps: n[p] items are found for a mapped step p whose    *)
(* source passed; a step that maps over an expanded one gets a child per   *)
(* child of it.  No items: it runs as it was written.  A child's name is   *)
(* that of no other step (_child_step_id): it ends in a negative number.   *)
ChildOf(p, item) == Append(p, -item)
Mapped(s) == {p \in DOMAIN s : s[p].st = "pending" /\ s[p].map \in DOMAIN s \ {p}}
ChildrenOf(s, p) == {x \in DOMAIN s : s[x].parent = p}
Child(s, p, extra) ==
  [s[p] EXCEPT !.deps = (@ \ {s[p].map}) \cup extra, !.map = NoName, !.parent = p,
               !.res = "none", !.reason = ""]
ExpandWith(e, p, items, extra) ==
  LET new == [i \in DOMAIN items |-> ChildOf(p, items[i])]
      at == CHOOSE k \in DOMAIN e.order : e.order[k] = p
  IN  [order |-> SubSeq(e.order, 1, at) \o new \o SubSeq(e.order, at + 1, Len(e.order)),
       steps |-> [x \in DOMAIN e.steps \cup ToSet(new) |->
          IF x = p THEN [e.steps[p] EXCEPT !.st = "expanded"]
          ELSE IF x \in ToSet(new) THEN Child(e.steps, p, extra[-Last(x)]) ELSE e.steps[x]]]
ExpandOne(e, p, n) ==
  LET src == e.steps[p].map
      items == Those([i \in 1..MaxExpansion |-> i],
                     {i \in 1..MaxExpansion : ChildOf(src, i) \in ChildrenOf(e.steps, src)})
  IN  IF e.steps[src].st = "expanded"
      THEN ExpandWith(e, p, items, [i \in ToSet(items) |-> {ChildOf(src, i)}])
      ELSE IF e.steps[src].st # "passed" THEN e
      ELSE IF n = 0 THEN [e EXCEPT !.steps[p].map = NoName]
      ELSE ExpandWith(e, p, [i \in 1..n |-> i], [i \in 1..n |-> {}])
Expanded(s, n) ==
  LET After(e, p) == IF p \in DOMAIN n THEN ExpandOne(e, p, n[p]) ELSE e
      done[k \in 0..Len(order)] ==
        IF k = 0 THEN [order |-> order, steps |-> s] ELSE After(done[k - 1], order[k])
  IN  done[Len(order)]

(* _dependency_satisfied and _runnable_steps.                              *)
Satisfied(s, d) ==
  /\ d \in DOMAIN s
  /\ \/ s[d].st = "passed"
     \/ /\ s[d].st = "expanded" /\ ChildrenOf(s, d) # {}
        /\ \A x \in ChildrenOf(s, d) : s[x].st = "passed"
\* Mutant: an expanded step counts as done.
RunnableEarly(o, s) ==
  SelectSeq(o, LAMBDA x : /\ s[x].st = "pending"
                          /\ \A d \in s[x].deps : d \in DOMAIN s /\ s[d].st \in {"passed", "expanded"})
Runnable(o, s) ==
  Those(o, {x \in DOMAIN s : s[x].st = "pending" /\ \A d \in s[x].deps : Satisfied(s, d)})

(* _fail_unreachable_steps.                                                *)
Unreachable(s) ==
  IF States(s) \cap {"ran", "awaiting"} # {} THEN s
  ELSE [x \in DOMAIN s |->
          IF s[x].st = "pending"
          THEN [s[x] EXCEPT !.st = "failed", !.noRetry = TRUE, !.res = "error", !.reason = "unreachable"]
          ELSE s[x]]

(* What a worker comes back with: output for the verifier, an error or a   *)
(* contract failure, or a question that parks the step.                    *)
WorkerResults == [res : {"output", "error", "blocked"}, asks : {{}}] \cup [res : {"asked"}, asks : Asks]

(* The name of a fan-out within its turn: iteration and ids of the batch.  *)
BatchKey(i, batch) == <<i, ToSet(batch)>>

(* A pass of the dispatcher up to its workers: retries, then expansion by  *)
(* n[p] items for a mapped step p whose source passed, then the batch.     *)
Dispatching == phase = "dispatcher" /\ ~Resuming /\ mode # "finalizing"
Found ==
  LET s == Prepared(Trimmed(step)).steps
  IN  [{x \in Mapped(s) : s[s[x].map].st = "passed"} -> 0..MaxExpansion]
Pass(n) ==
  LET p == Prepared(Trimmed(step))
      e == Expanded(p.steps, [x \in Mapped(p.steps) |-> IF x \in DOMAIN n THEN n[x] ELSE 0])
  IN  [order |-> e.order, steps |-> e.steps, iter |-> p.iter,
       batch |-> Firsts(Runnable(e.order, e.steps), MaxParallel)]

(* How often a batch is run: several steps are handed to Temporal, and a   *)
(* start it accepted and did not answer is taken for one it refused: then  *)
(* the steps run here as well.                                             *)
Runs(batch) == IF Len(batch) > 1 THEN {1, 2} ELSE {1}
(* The batch of the pass p is handed to its workers, r times.              *)
Starts(p, r) ==
  LET batch == ToSet(p.batch)
  IN  /\ batch # {}
      /\ attempts' = [x \in batch \cup DOMAIN attempts |->
                        (IF x \in DOMAIN attempts THEN attempts[x] ELSE 0)
                          + IF x \in batch THEN r ELSE 0]
      /\ batches' = batches \cup {BatchKey(p.iter, p.batch)}

(* _dispatch_batch: the pass, its workers and their results.               *)
Dispatch ==
  /\ Dispatching
  /\ \E n \in Found :
       LET p == Pass(n)
           batch == ToSet(p.batch)
       IN /\ order' = p.order /\ iter' = p.iter
          /\ IF batch = {}
             THEN /\ step' = Unreachable(p.steps)
                  /\ UNCHANGED <<batches, attempts, lost>>
             ELSE /\ \E w \in [batch -> WorkerResults] :
                       step' = [x \in DOMAIN p.steps |->
                         IF x \notin batch THEN p.steps[x]
                         ELSE [p.steps[x] EXCEPT
                                 !.st = IF w[x].res = "asked" THEN "awaiting" ELSE "ran",
                                 !.res = w[x].res, !.asks = w[x].asks]]
                  /\ \E r \in Runs(p.batch) : Starts(p, r) /\ lost' = lost + r - 1
                  /\ lost' <= MaxLost
  /\ phase' = AfterDispatch(States(step'))
  /\ UNCHANGED <<msg, turn, raw, mode, owner, acted>>

-----------------------------------------------------------------------------
(* _verify_step: an executed action passes, an error fails, a result is    *)
(* judged by the model.                                                    *)
Verdicts(r) == CASE r.res = "executed" -> {""}
                 [] r.res \in {"error", "blocked"} -> Reasons
                 [] OTHER              -> Reasons \cup {""}
(* route_from_verifier.                                                    *)
AfterVerify(st) ==
  IF "failed" \in st THEN IF iter < MaxIterations THEN "dispatcher" ELSE "synthesizer"
  ELSE IF "pending" \in st THEN "dispatcher" ELSE "synthesizer"

Verify ==
  /\ phase = "verifier"
  /\ \E v \in [With("ran") -> Reasons \cup {""}] :
       /\ \A s \in With("ran") : v[s] \in Verdicts(step[s])
       /\ step' = [s \in Ids |->
            IF s \notin With("ran") THEN step[s]
            ELSE [step[s] EXCEPT !.st = IF v[s] = "" THEN "passed" ELSE "failed", !.reason = v[s]]]
  /\ phase' = AfterVerify(States(step'))
  /\ UNCHANGED <<msg, turn, raw, order, iter, mode, history>>

(* _terminal_status.                                                       *)
TerminalStatus ==
  IF mode = "finalizing" \/ \E s \in Ids : step[s].res = "budget" THEN "budget_exhausted"
  ELSE IF \E s \in Ids : step[s].res = "blocked" THEN "blocked"
  ELSE IF \E s \in Ids : ~step[s].optional /\ step[s].st \notin {"passed", "expanded"}
       THEN "partial" ELSE "completed"

(* synthesizer_node: the answer is written and the plan cleared.           *)
Synthesize ==
  /\ phase = "synthesizer" /\ phase' = "idle"
  /\ order' = <<>> /\ step' = <<>> /\ iter' = 0
  /\ UNCHANGED <<msg, turn, raw, mode, history>>

(* confirmation_pause_node: the plan stays for the turn that resumes it.   *)
Pause ==
  /\ phase = "pause" /\ phase' = "idle"
  /\ UNCHANGED <<msg, turn, mode, history, saved>>

(* The turn is stopped, its process dies, or a node raises (no budget is   *)
(* left to split a mapped step): the plan stays as the node before left    *)
(* it.  Of a resumption the actions stay that were executed, of a pass the *)
(* workers that were started, in a cycle that is not saved: a message that *)
(* resumes the plan or continues the answer starts them once more.         *)
TurnDies ==
  /\ phase # "idle" /\ phase' = "idle"
  /\ acted' \in IF phase = "dispatcher" /\ Resuming
                THEN {acted \cup A : A \in SUBSET {s \in With("awaiting") : "confirm" \in step[s].asks}}
                ELSE {acted}
  /\ \/ UNCHANGED <<batches, attempts, lost>>
     \/ /\ Dispatching
        /\ \E n \in Found : \E r \in Runs(Pass(n).batch) :
             Starts(Pass(n), r) /\ lost' = lost + r
        /\ lost' <= MaxLost
  /\ UNCHANGED <<msg, turn, mode, owner, saved>>

(* The budget of the turn goes down while a node runs (TurnBudget).        *)
BudgetMoves ==
  /\ phase \in {"dispatcher", "verifier"}
  /\ mode' \in IF mode = "normal" THEN {"degraded", "finalizing"} ELSE {"finalizing"} \ {mode}
  /\ UNCHANGED <<phase, msg, turn, history, saved>>

Node == \/ Route \/ PlannerAnswers \/ Replan \/ Plan \/ Resume \/ Wind \/ Dispatch
        \/ Verify \/ Synthesize \/ Pause
PlanNext == (\E k \in {"fresh", "resume", "continue"} : Say(k)) \/ Node \/ TurnDies \/ BudgetMoves

PlanSpec == PlanInit /\ [][PlanNext]_planVars
(* A turn's task does not stay in a node: the node returns, or the turn    *)
(* dies.                                                                   *)
LeavesNode == phase # "idle" /\ phase' \in Phases \ {phase}
PlanFairSpec == PlanSpec /\ WF_phase(LeavesNode)

-----------------------------------------------------------------------------
(* A plan is its order and its steps, a step appears once in it, and the   *)
(* children of a step stand for one that was expanded.                     *)
PlanTypeOK ==
  /\ phase \in Phases
  /\ iter \in 0..MaxIterations /\ mode \in {"normal", "degraded", "finalizing"}
  /\ DOMAIN step = Ids /\ Cardinality(Ids) = Len(order)
  /\ \A s \in Ids :
       /\ step[s].st \in {"pending", "ran", "passed", "failed", "skipped", "expanded", "awaiting"}
       /\ (step[s].st = "awaiting") = (step[s].asks # {})
       /\ step[s].parent # NoName => step[step[s].parent].st = "expanded"

(* What the planner returned becomes a plan that can be walked to its end. *)
(* Repair keeps what it can: it cuts edges only between steps that wait    *)
(* for a cycle, and drops no step but an answer.                           *)
ShapeIsRunnable ==
  phase = "planned" /\ raw # <<>> =>
    LET ids == UniqueIds(raw)
        edges == InitEdges(raw, ids)
        kept == {PlanOf(raw)[k].id : k \in DOMAIN PlanOf(raw)}
    IN  /\ Walkable(PlanOf(raw))
        /\ NeverRunnable(edges) = WaitsForCycle(edges)
        /\ CutsOnlyCycles(edges, BreakCycles(edges, ids))
        /\ \A i \in DOMAIN raw : raw[i].answer \/ ids[i] \in kept

(* A worker starts only when everything its step depends on has passed,    *)
(* the children of an expanded step included, and what passed stays so.    *)
DependenciesFirst ==
  \A s \in Ids : step[s].st \in {"ran", "awaiting", "passed"} =>
    \A d \in step[s].deps : Satisfied(step, d)

(* No step's worker is started more often than the retry cycles allow, in  *)
(* whatever number of turns its plan is carried through, but for the runs  *)
(* that are lost: once for each pass that its turn died in, and once for   *)
(* each fan-out that started unanswered.  Nothing else repeats a worker.   *)
AttemptsBounded == \A s \in DOMAIN attempts : attempts[s] <= 1 + MaxIterations + lost

(* A worker that starts again starts under a new batch name, so the batch  *)
(* is not answered with the results of the attempt it repeats, and never   *)
(* for a step whose approved action was executed: not when its result is   *)
(* judged, nor when the turn died between the execution and the saved plan.*)
(* (Of the two runs of a batch whose fan-out started unanswered only the   *)
(* one in the process goes into the plan.)                                 *)
RestartsAreNew ==
  [][\A s \in DOMAIN attempts \cap DOMAIN attempts' :
       attempts'[s] # attempts[s] => s \notin acted /\ batches' # batches]_planVars

(* A request is never answered with the steps of an earlier one: only a    *)
(* message that resumes a plan runs what another message started.          *)
AbandonedPlanNeverRuns ==
  phase \in {"dispatcher", "verifier", "synthesizer", "pause"} /\ msg = "fresh" =>
    owner = turn

(* A run reported as completed has passed every required step of the plan  *)
(* as it was made, each child of an expanded one included.                 *)
CompletedMeansVerified ==
  phase = "synthesizer" /\ TerminalStatus = "completed" =>
    \A k \in DOMAIN PlanOf(raw) :
      PlanOf(raw)[k].optional \/ Satisfied(step, PlanOf(raw)[k].id)

(* What holds of a plan in every state, over all the turns that carry it.  *)
PlanInv == /\ PlanTypeOK /\ DependenciesFirst /\ AttemptsBounded
           /\ AbandonedPlanNeverRuns /\ CompletedMeansVerified

(* The passes the budget is divided by are the passes the plan takes, as   *)
(* long as its steps pass and none of them is mapped.  (A resumed plan may *)
(* still hold a batch that no pass verified: then there are fewer.)        *)
Left == Those(order, {s \in Ids : step[s].st \notin {"passed", "skipped", "expanded"}})
Waves == RemainingWaves(Left, [s \in Ids |-> step[s].deps], MaxParallel)
WavesForecast ==
  [][(/\ phase = "verifier" /\ phase' \in {"dispatcher", "synthesizer"}
        /\ Cardinality(With("ran")) <= MaxParallel
        /\ \A s \in Ids : step'[s].st \in {"pending", "passed"}) =>
       IF Left' = <<>> THEN Waves = 1 ELSE Waves' = Waves - 1]_planVars

(* A turn that carries a plan comes to its answer or to a pause: retries,  *)
(* expansion and resumption do not keep it going for ever.                 *)
TurnsEnd == phase = "dispatcher" ~> phase = "idle"
=============================================================================
