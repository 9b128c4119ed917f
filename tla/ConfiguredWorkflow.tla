-------------------------- MODULE ConfiguredWorkflow --------------------------
(***************************************************************************)
(* The runs of one user-configured workflow.  Schedules, watch polls and   *)
(* people start runs at any time; a fixed child id admits one execution at *)
(* once (the mutex), another one run that waits (the slot), and any third  *)
(* run is skipped.  Ids, signals, timers and retries are Temporal's.       *)
(***************************************************************************)
EXTENDS Naturals, FiniteSets

CONSTANTS
    Runs,    \* runs (parent executions): the bound on triggers
    NoRun,
    Stages,  \* stages of the definition
    Acts     \* the activities of a stage

ASSUME WorkflowAssumption ==
    /\ NoRun \notin Runs /\ Stages \in Nat \ {0} /\ IsFiniteSet(Acts)

VARIABLES
    pc,        \* where ConfiguredWorkflow.run of each run is
    outcome,   \* the result of each run, "none" until it is known
    asked,     \* runs whose cancel_waiting flag is set
    stopping,  \* runs that a stop request has found waiting
    slot,      \* the run holding the waiting slot
    mutex,     \* the run whose execution is open
    phase,     \* where that execution is
    stage,     \* the stage it has reached
    open,      \* activities in progress, as Temporal sees them
    failed,    \* does the current stage have a failure?
    fresh      \* does check_watch_scan_triggered see a newer sync?

parentVars == <<pc, outcome, asked, stopping, slot>>
execVars == <<mutex, phase, stage, open, failed>>
vars == <<parentVars, execVars, fresh>>

Point == {"idle", "trying", "reserving", "looping", "attempting", "sleeping",
          "releasing", "executing", "done"}
Outcome == {"none", "completed", "failed", "skipped", "canceled"}
Phase == {"closed", "load", "stage", "trigger", "success", "failure"}

Waiting == {r \in Runs : pc[r] \in {"looping", "attempting", "sleeping"}}
Goes(r, p) == pc' = [pc EXCEPT ![r] = p]
Outcomes(r, o) == outcome' = [outcome EXCEPT ![r] = o]

Init ==
    /\ pc = [r \in Runs |-> "idle"] /\ outcome = [r \in Runs |-> "none"]
    /\ asked = {} /\ stopping = {} /\ slot = NoRun
    /\ mutex = NoRun /\ phase = "closed" /\ stage = 1 /\ open = {} /\ failed = FALSE
    /\ fresh = FALSE
-----------------------------------------------------------------------------
(* Triggers *)

\* A schedule fires or a person asks for a run.
Trigger(r) ==
    /\ pc[r] = "idle" /\ Goes(r, "trying")
    /\ UNCHANGED <<outcome, asked, stopping, slot, execVars, fresh>>

\* ConfiguredWorkflowWatchPoll: polls overlap, and each that sees a newer sync
\* starts a run of its own.
PollTriggers(r) ==
    /\ fresh /\ pc[r] = "idle" /\ Goes(r, "trying")
    /\ UNCHANGED <<outcome, asked, stopping, slot, execVars, fresh>>

\* A watched sync completes and bumps its SyncMetadata.
SyncCompletes ==
    /\ fresh' = TRUE
    /\ UNCHANGED <<parentVars, execVars>>
-----------------------------------------------------------------------------
(* ConfiguredWorkflow._run_serialized *)

\* _start_execution: Temporal admits one open child of the mutex id.
Begins(r) ==
    /\ mutex = NoRun /\ mutex' = r
    /\ phase' = "load" /\ stage' = 1 /\ failed' = FALSE /\ UNCHANGED open

TriesFirst(r) ==
    /\ pc[r] = "trying"
    /\ \/ Begins(r) /\ Goes(r, "executing")
       \/ mutex # NoRun /\ Goes(r, "reserving") /\ UNCHANGED execVars
    /\ UNCHANGED <<outcome, asked, stopping, slot, fresh>>

\* Mutant: a run that cannot have the slot queues all the same.
ReservesAnyway(r) ==
    /\ pc[r] = "reserving" /\ Goes(r, "looping")
    /\ slot' = IF slot = NoRun THEN r ELSE slot
    /\ UNCHANGED <<outcome, asked, stopping, execVars, fresh>>
\* The second fixed-id child: the sole waiting position, or nothing.
Reserves(r) ==
    /\ pc[r] = "reserving"
    /\ \/ slot = NoRun /\ slot' = r /\ Goes(r, "looping") /\ UNCHANGED outcome
       \/ slot # NoRun /\ Outcomes(r, "skipped") /\ Goes(r, "done") /\ UNCHANGED slot
    /\ UNCHANGED <<asked, stopping, execVars, fresh>>

\* The head of the waiting loop.
Loops(r) ==
    /\ pc[r] = "looping"
    /\ IF r \in asked THEN Outcomes(r, "canceled") /\ Goes(r, "releasing")
                      ELSE Goes(r, "attempting") /\ UNCHANGED outcome
    /\ UNCHANGED <<asked, stopping, slot, execVars, fresh>>

Attempts(r) ==
    /\ pc[r] = "attempting"
    /\ \/ Begins(r) /\ Goes(r, "releasing")
       \/ mutex # NoRun /\ Goes(r, "sleeping") /\ UNCHANGED execVars
    /\ UNCHANGED <<outcome, asked, stopping, slot, fresh>>

\* Mutant: the wait has no timeout.
WakesForSignal(r) ==
    /\ pc[r] = "sleeping" /\ r \in asked /\ Goes(r, "looping")
    /\ UNCHANGED <<outcome, asked, stopping, slot, execVars, fresh>>
\* The 30-second poll: wait_condition ends on the signal or on its timeout.
Wakes(r) ==
    /\ pc[r] = "sleeping" /\ Goes(r, "looping")
    /\ UNCHANGED <<outcome, asked, stopping, slot, execVars, fresh>>

\* Mutant: the flag is looked at once more when the slot has been released.
ReleasesRechecking(r) ==
    /\ pc[r] = "releasing" /\ slot' = NoRun
    /\ IF r \in asked \/ outcome[r] = "canceled"
       THEN Outcomes(r, "canceled") /\ Goes(r, "done")
       ELSE Goes(r, "executing") /\ UNCHANGED outcome
    /\ UNCHANGED <<asked, stopping, execVars, fresh>>
\* finally: cancel the slot child and wait until it has closed.
Releases(r) ==
    /\ pc[r] = "releasing" /\ slot' = NoRun
    /\ Goes(r, IF outcome[r] = "canceled" THEN "done" ELSE "executing")
    /\ UNCHANGED <<outcome, asked, stopping, execVars, fresh>>

\* The parent returns, or raises, what its execution did.
Returns(r) ==
    /\ pc[r] = "executing" /\ outcome[r] # "none" /\ Goes(r, "done")
    /\ UNCHANGED <<outcome, asked, stopping, slot, execVars, fresh>>

\* cancel_waiting_workflow_run: the history says the run is waiting ...
StopLooks(r) ==
    /\ \/ pc[r] \in {"reserving", "looping", "attempting", "sleeping"}
       \/ pc[r] = "releasing" /\ outcome[r] = "canceled"
    /\ stopping' = stopping \cup {r}
    /\ UNCHANGED <<pc, outcome, asked, slot, execVars, fresh>>

\* ... and then the signal is sent; it reaches a run that is still open.
StopLands(r) ==
    /\ r \in stopping /\ stopping' = stopping \ {r}
    /\ asked' = IF pc[r] # "done" THEN asked \cup {r} ELSE asked
    /\ UNCHANGED <<pc, outcome, slot, execVars, fresh>>
-----------------------------------------------------------------------------
(* _run_configured_workflow, in the execution that holds the mutex *)

Closes(o) == mutex' = NoRun /\ phase' = "closed" /\ Outcomes(mutex, o)

\* load_configured_workflow: the definition and its condition are read now. A
\* load that fails is not recorded: it happens before the try block.
Loads ==
    /\ phase = "load"
    /\ \/ phase' = "stage" /\ open' = Acts /\ UNCHANGED <<mutex, outcome>>
       \/ \E o \in {"skipped", "failed"} : Closes(o) /\ UNCHANGED open
    /\ UNCHANGED <<pc, asked, stopping, slot, stage, failed, fresh>>

\* An activity ends, its retries included. Its timeout makes it end.
ActivityEnds(a) ==
    /\ a \in open /\ open' = open \ {a}
    /\ failed' \in {failed, TRUE}
    /\ UNCHANGED <<parentVars, mutex, phase, stage, fresh>>

\* Mutant: gather without return_exceptions, which raises the first failure.
StageFailsFast ==
    /\ phase = "stage"
    /\ \/ failed /\ phase' = "failure" /\ UNCHANGED <<stage, open>>
       \/ /\ ~failed /\ open = {}
          /\ IF stage < Stages
             THEN stage' = stage + 1 /\ open' = Acts /\ UNCHANGED phase
             ELSE phase' = "trigger" /\ UNCHANGED <<stage, open>>
    /\ UNCHANGED <<parentVars, mutex, failed, fresh>>
\* gather(return_exceptions=True): every activity of the stage has settled.
StageSettles ==
    /\ phase = "stage" /\ open = {}
    /\ \/ failed /\ phase' = "failure" /\ UNCHANGED <<stage, open>>
       \/ /\ ~failed
          /\ IF stage < Stages
             THEN stage' = stage + 1 /\ open' = Acts /\ UNCHANGED phase
             ELSE phase' = "trigger" /\ UNCHANGED <<stage, open>>
    /\ UNCHANGED <<parentVars, mutex, failed, fresh>>

\* trigger_configured_workflows: it fails if a target could not be started.
TriggersOthers ==
    /\ phase = "trigger" /\ phase' \in {"success", "failure"}
    /\ UNCHANGED <<parentVars, mutex, stage, open, failed, fresh>>

\* record_configured_workflow_result also moves last_run_at. Its attempts may
\* run out, with the row written or not.
Records ==
    /\ \/ /\ phase = "success"
          /\ \/ Closes("completed") /\ fresh' = FALSE
             \/ /\ phase' = "failure" /\ fresh' \in {fresh, FALSE}
                /\ UNCHANGED <<mutex, outcome>>
       \/ phase = "failure" /\ Closes("failed") /\ fresh' \in {fresh, FALSE}
    /\ UNCHANGED <<pc, asked, stopping, slot, stage, open, failed>>
-----------------------------------------------------------------------------
Parent(r) ==
    \/ TriesFirst(r) \/ Reserves(r) \/ Loops(r) \/ Attempts(r) \/ Wakes(r)
    \/ Releases(r) \/ Returns(r)
Execution ==
    \/ Loads \/ StageSettles \/ TriggersOthers \/ Records
    \/ \E a \in Acts : ActivityEnds(a)

Next ==
    \/ \E r \in Runs : \/ Trigger(r) \/ PollTriggers(r) \/ Parent(r)
                       \/ StopLooks(r) \/ StopLands(r)
    \/ Execution \/ SyncCompletes

Spec == Init /\ [][Next]_vars

\* Temporal delivers what a workflow waits for: children that start or close,
\* timers, activities that end. Nobody has to trigger, stop or sync anything.
FairSpec == Spec /\ WF_vars(Execution) /\ \A r \in Runs : WF_vars(Parent(r))
-----------------------------------------------------------------------------
(* What serialization guarantees *)

\* Types; an execution is open exactly while the mutex is held
\* (ConfiguredWorkflowExecution).
TypeOK ==
    /\ pc \in [Runs -> Point] /\ outcome \in [Runs -> Outcome]
    /\ asked \subseteq Runs /\ stopping \subseteq Runs
    /\ slot \in Runs \cup {NoRun} /\ mutex \in Runs \cup {NoRun}
    /\ phase \in Phase /\ stage \in 1 .. Stages
    /\ open \subseteq Acts /\ failed \in BOOLEAN
    /\ fresh \in BOOLEAN
    /\ (mutex = NoRun) = (phase = "closed")

\* Two runs of a definition never overlap, their activities included: while an
\* activity is in progress its own run holds the mutex and has not returned.
RunsDoNotOverlap ==
    open # {} => phase = "stage" /\ pc[mutex] \in {"releasing", "executing"}

\* At most one run waits, and it is the one holding the slot.
OneWaiter == \A r \in Waiting : slot = r

\* A stop request can only remove a run that waits: it cannot end an execution,
\* whatever happened between its look at the history and its signal.
StopSparesExecution ==
    \A r \in Runs : outcome[r] = "canceled" => mutex # r /\ pc[r] \in {"releasing", "done"}

\* Every run that was triggered comes to an end, waiters included.
EveryRunEnds == \A r \in Runs : pc[r] = "trying" ~> pc[r] = "done"
=============================================================================
