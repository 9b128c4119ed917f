------------------------------ MODULE ChatTurns ------------------------------
(***************************************************************************)
(* Who owns a conversation: admission of interactive chat turns, the lease *)
(* that is a turn's claim on its thread, the handoff to the Temporal       *)
(* workflow that produces the turn, cancellation, the workflow's fallback  *)
(* finalizer and the expiry sweep.  One (user, thread) pair is modelled:   *)
(* every index and query of the code is scoped to one, except the sweep,   *)
(* which other conversations may run at any time.                          *)
(*                                                                         *)
(* The clock is real time in abstract units.  A deadline that the platform *)
(* or the code promises to meet is an upper bound on Tick.                 *)
(***************************************************************************)
EXTENDS Integers, FiniteSets

CONSTANTS
    Turns,          \* turn ids the store can generate
    Keys,           \* idempotency keys clients choose
    Requests,       \* admission requests being served at once
    NoTurn, NoKey,  \* absent values
    Timeout,        \* CHAT_TURN_TIMEOUT_SECONDS
    CancelBuffer,   \* CHAT_TURN_CANCELLATION_BUFFER_SECONDS
    Retention,      \* CHAT_TURN_RETENTION_SECONDS
    HandoffDelay,   \* longest time from sizing a workflow to its creation
    StopLatency,    \* longest time for a cancellation to stop an activity
    LastAdmission,  \* bound, for TLC: no turn is admitted later
    MaxTime         \* bound, for TLC: the clock stops

ASSUME TimingAssumption ==
    /\ Timeout \in Nat /\ CancelBuffer \in Nat /\ Retention \in Nat
    /\ HandoffDelay \in Nat /\ StopLatency \in Nat
    /\ LastAdmission \in Nat /\ MaxTime \in Nat
    \* The buffer taken off the top of a claim covers what it is there for.
    /\ HandoffDelay + StopLatency < CancelBuffer

ASSUME AbsentAssumption == NoTurn \notin Turns /\ NoKey \notin Keys

VARIABLES
    now,        \* the clock
    session,    \* chat_sessions row: "open", "retiring" (claimed), "deleted"
    touched,    \* its updated_at
    status,     \* chat_turns.status; "free" before the row, "gone" after it
    key,        \* chat_turns.idempotency_key
    expires,    \* chat_turns.expires_at
    stop,       \* chat_turns.cancel_requested
    wf,         \* the turn's Temporal workflow
    deadline,   \* when its execution timeout closes it
    act,        \* its run_chat_turn activity, until its result is used or lost
    heard,      \* has the running activity been cancelled, and has it noticed?
    stopBy,     \* when it has stopped at the latest, if so
    outcome,    \* the status produce_turn is about to record
    req,        \* admission requests in progress
    listed,     \* turns an expiry sweep has listed and not yet deleted
    closer,     \* history: what took the turn out of "running"
    runs        \* history: how often the turn's graph was started

clockVars   == <<now>>
sessionVars == <<session, touched>>
rowVars     == <<status, key, expires, stop, closer>>
wfVars      == <<wf, deadline>>
actVars     == <<act, heard, stopBy, outcome, runs>>
vars == <<now, session, touched, status, key, expires, stop, wf, deadline,
          act, heard, stopBy, outcome, req, listed, closer, runs>>

Terminal == {"completed", "failed", "canceled", "expired"}
Status   == Terminal \cup {"free", "running", "gone"}
Closers  == {"none", "producer", "fallback", "repair", "admission"}
ActPoint == {"none", "queued", "checked", "producing", "closing", "returned", "raised"}
\* A request between two awaits of start_turn: which turn, and what it read.
Serving(pc, t, claim, left, at) ==
    [pc |-> pc, turn |-> t, claim |-> claim, left |-> left, at |-> at]
Request  == [pc : {"idle", "ensure", "handoff"}, turn : Turns \cup {NoTurn},
             claim : Nat, left : Nat, at : Nat]
IdleReq  == Serving("idle", NoTurn, 0, 0, 0)

HasRow(t) == status[t] \notin {"free", "gone"}
\* A worker is executing the activity.
Alive(t)  == act[t] \in {"checked", "producing", "closing"}
Open(t)   == wf[t] \in {"running", "finalizing"}
-----------------------------------------------------------------------------
(* Derived durations.                                                      *)

Larger(a, b)  == IF a >= b THEN a ELSE b
Smaller(a, b) == IF a <= b THEN a ELSE b

\* chat_turn_lease_margin_seconds
Margin == Larger(2 * CancelBuffer, Timeout \div 3)
\* chat_turn_lease_expiry, as a duration
Lease == Timeout + Margin
\* Mutant: a fresh duration.
ExecutionBoundFresh(claim) == Timeout + Margin \div 2
\* chat_turn_execution_bound_seconds: how long a workflow created now may take.
ExecutionBound(claim) ==
    Smaller(Timeout + Margin \div 2, (claim - now) - CancelBuffer)

-----------------------------------------------------------------------------
Init ==
    /\ now = 0 /\ session = "open" /\ touched = 0
    /\ status = [t \in Turns |-> "free"]
    /\ key = [t \in Turns |-> NoKey]
    /\ expires = [t \in Turns |-> 0]
    /\ stop = [t \in Turns |-> FALSE]
    /\ wf = [t \in Turns |-> "none"]
    /\ deadline = [t \in Turns |-> 0]
    /\ act = [t \in Turns |-> "none"]
    /\ heard = [t \in Turns |-> "none"]
    /\ stopBy = [t \in Turns |-> 0]
    /\ outcome = [t \in Turns |-> "none"]
    /\ req = [r \in Requests |-> IdleReq]
    /\ listed = {}
    /\ closer = [t \in Turns |-> "none"]
    /\ runs = [t \in Turns |-> 0]

(* Admission: admit_chat_turn's transaction.                               *)

Lapsed(t) == status[t] = "running" /\ expires[t] <= now

\* A repeated key resolves to the turn it already admitted.
AdmitExisting(r, k, t) ==
    /\ req[r].pc = "idle"
    /\ HasRow(t) /\ key[t] = k
    /\ req' = IF status[t] = "running"
              THEN [req EXCEPT ![r] = Serving("ensure", t, expires[t], 0, 0)]
              ELSE req                \* returned as it is: "existing", "expired"
    /\ UNCHANGED <<clockVars, sessionVars, rowVars, wfVars, actVars, listed>>

\* A new key takes the thread, retiring a holder whose claim has lapsed.  A
\* live holder (the partial unique index) or a retired session refuses it and
\* rolls the whole transaction back.
AdmitNew(r, k, t) ==
    /\ req[r].pc = "idle"
    /\ \A u \in Turns : HasRow(u) => key[u] # k
    /\ session = "open"
    /\ \A u \in Turns : status[u] = "running" => Lapsed(u)
    /\ status[t] = "free"
    /\ now <= LastAdmission
    /\ touched' = now
    /\ status' = [u \in Turns |-> IF u = t THEN "running"
                                  ELSE IF Lapsed(u) THEN "failed" ELSE status[u]]
    /\ closer' = [u \in Turns |-> IF Lapsed(u) THEN "admission" ELSE closer[u]]
    /\ key' = [key EXCEPT ![t] = k]
    /\ expires' = [expires EXCEPT ![t] = now + Lease]
    /\ req' = [req EXCEPT ![r] = Serving("ensure", t, now + Lease, 0, 0)]
    /\ UNCHANGED <<clockVars, session, stop, wfVars, actVars, listed>>

\* Mutant: the last writer wins.
FinishAnyway(t, s, who) ==
    /\ status' = [status EXCEPT ![t] = s]
    /\ expires' = [expires EXCEPT ![t] = now + Retention]
    /\ closer' = [closer EXCEPT ![t] = who]
(* finish_chat_turn: leaves "running" once, and re-stamps expires_at.      *)
Finish(t, s, who) ==
    IF status[t] = "running"
    THEN /\ status' = [status EXCEPT ![t] = s]
         /\ expires' = [expires EXCEPT ![t] = now + Retention]
         /\ closer' = [closer EXCEPT ![t] = who]
    ELSE UNCHANGED <<status, expires, closer>>

(* start_turn after admission, for "created" and for "existing".           *)

\* Too little of the claim is left: the turn is closed instead of started.
EnsureExpired(r) ==
    /\ req[r].pc = "ensure"
    /\ ExecutionBound(req[r].claim) <= 0
    /\ Finish(req[r].turn, "expired", "repair")
    /\ req' = [req EXCEPT ![r] = IdleReq]
    /\ UNCHANGED <<clockVars, sessionVars, key, stop, wfVars, actVars, listed>>

\* The workflow is sized now and created by a later call.
EnsureSized(r) ==
    /\ req[r].pc = "ensure"
    /\ ExecutionBound(req[r].claim) > 0
    /\ req' = [req EXCEPT ![r] = Serving("handoff", req[r].turn, req[r].claim,
                                         ExecutionBound(req[r].claim), now)]
    /\ UNCHANGED <<clockVars, sessionVars, rowVars, wfVars, actVars, listed>>

\* Mutant: ALLOW_DUPLICATE, the default, frees a closed workflow's id.
StartWorkflowAgain(r) ==
    LET t == req[r].turn IN
    /\ req[r].pc = "handoff"
    /\ IF wf[t] \in {"none", "closed"}
       THEN /\ wf' = [wf EXCEPT ![t] = "running"]
            /\ deadline' = [deadline EXCEPT ![t] = now + req[r].left]
            /\ act' = [act EXCEPT ![t] = "queued"]
       ELSE UNCHANGED <<wf, deadline, act>>
    /\ req' = [req EXCEPT ![r] = IdleReq]
    /\ UNCHANGED <<clockVars, sessionVars, rowVars, heard, stopBy, outcome, runs, listed>>
\* start_workflow under REJECT_DUPLICATE: the id is good for one execution.
StartWorkflow(r) ==
    LET t == req[r].turn IN
    /\ req[r].pc = "handoff"
    /\ IF wf[t] = "none"
       THEN /\ wf' = [wf EXCEPT ![t] = "running"]
            /\ deadline' = [deadline EXCEPT ![t] = now + req[r].left]
            /\ act' = [act EXCEPT ![t] = "queued"]
       ELSE UNCHANGED <<wf, deadline, act>>
    /\ req' = [req EXCEPT ![r] = IdleReq]
    /\ UNCHANGED <<clockVars, sessionVars, rowVars, heard, stopBy, outcome, runs, listed>>

\* The request dies, or cannot reach Temporal: the committed turn stays behind.
HandoffFails(r) ==
    /\ req[r].pc \in {"ensure", "handoff"}
    /\ req' = [req EXCEPT ![r] = IdleReq]
    /\ UNCHANGED <<clockVars, sessionVars, rowVars, wfVars, actVars, listed>>
-----------------------------------------------------------------------------
(* The activity: run_chat_turn and produce_turn.                           *)

\* The attempt is over.  A workflow that no longer waits drops its result.
AttemptEnds(t, result) ==
    /\ act' = [act EXCEPT ![t] = IF wf[t] = "running" THEN result ELSE "none"]
    /\ heard' = [heard EXCEPT ![t] = "none"]
    /\ stopBy' = [stopBy EXCEPT ![t] = 0]
    /\ outcome' = [outcome EXCEPT ![t] = "none"]

\* The activity's first read: a turn that is gone or closed is refused.  An
\* identity that no longer resolves, or lost a permission, is refused too.
PickUp(t) ==
    /\ act[t] = "queued"
    /\ \/ /\ status[t] = "running"
          /\ act' = [act EXCEPT ![t] = "checked"]
          /\ UNCHANGED <<heard, stopBy, outcome>>
       \/ AttemptEnds(t, "raised")
    /\ UNCHANGED <<clockVars, sessionVars, rowVars, wfVars, runs, req, listed>>

\* Mutant: the activity trusts the row it read first.
CheckOwnerNever(t) ==
    /\ act[t] = "checked"
    /\ act' = [act EXCEPT ![t] = "producing"]
    /\ runs' = [runs EXCEPT ![t] = @ + 1]
    /\ UNCHANGED <<clockVars, sessionVars, rowVars, wfVars, heard, stopBy,
                   outcome, req, listed>>
\* The ownership check, by get_active_chat_turn, then the graph starts.
CheckOwner(t) ==
    /\ act[t] = "checked"
    /\ \/ /\ status[t] = "running" /\ expires[t] > now
          /\ act' = [act EXCEPT ![t] = "producing"]
          /\ runs' = [runs EXCEPT ![t] = @ + 1]
          /\ UNCHANGED <<heard, stopBy, outcome>>
       \/ /\ status[t] # "running" \/ expires[t] <= now
          /\ AttemptEnds(t, "raised")
          /\ UNCHANGED runs
    /\ UNCHANGED <<clockVars, sessionVars, rowVars, wfVars, req, listed>>

\* The supervisor has an outcome to publish and to record.
Supervised(t, s) ==
    /\ act' = [act EXCEPT ![t] = "closing"]
    /\ outcome' = [outcome EXCEPT ![t] = s]

\* The graph ends by itself, with an answer or with an error.
GraphEnds(t) ==
    /\ act[t] = "producing"
    /\ \E s \in {"completed", "failed"} : Supervised(t, s)
    /\ UNCHANGED <<clockVars, sessionVars, rowVars, wfVars, heard, stopBy, runs, req, listed>>

\* Mutant: the producer notices only that its log is gone or closed.
WatchStopsOnlyLost(t) ==
    /\ act[t] = "producing"
    /\ status[t] # "running"
    /\ Supervised(t, "canceled")
    /\ UNCHANGED <<clockVars, sessionVars, rowVars, wfVars, heard, stopBy, runs, req, listed>>
\* The publisher's cancel watch, or an append that finds no turn, stops it.
WatchStops(t) ==
    /\ act[t] = "producing"
    /\ stop[t] \/ status[t] # "running"
    /\ Supervised(t, "canceled")
    /\ UNCHANGED <<clockVars, sessionVars, rowVars, wfVars, heard, stopBy, runs, req, listed>>

\* Temporal's cancellation arrives, once.  The supervisor turns it into an
\* outcome while it waits for the graph, swallows it while it collects the
\* graph's task, and is unwound by it anywhere else.
HearCancel(t) ==
    /\ Alive(t) /\ heard[t] = "sent"
    /\ \/ /\ act[t] = "producing"
          /\ Supervised(t, "canceled")
          /\ heard' = [heard EXCEPT ![t] = "heard"] /\ UNCHANGED stopBy
       \/ /\ act[t] = "closing"
          /\ heard' = [heard EXCEPT ![t] = "heard"] /\ UNCHANGED <<act, outcome, stopBy>>
       \/ AttemptEnds(t, "raised")
    /\ UNCHANGED <<clockVars, sessionVars, rowVars, wfVars, runs, req, listed>>

\* Closing frames flushed and the outcome recorded, if nobody recorded one.
Close(t) ==
    /\ act[t] = "closing"
    /\ Finish(t, outcome[t], "producer")
    /\ AttemptEnds(t, "returned")
    /\ UNCHANGED <<clockVars, sessionVars, key, stop, wfVars, runs, req, listed>>

\* The worker dies, or the store refuses the closing writes.
ActivityDies(t) ==
    /\ Alive(t)
    /\ AttemptEnds(t, "raised")
    /\ UNCHANGED <<clockVars, sessionVars, rowVars, wfVars, runs, req, listed>>
-----------------------------------------------------------------------------
(* Stopping, and the workflow around the activity.                         *)

\* The workflow goes on without its activity, which is told to stop: at once
\* when no worker has it yet, by StopLatency from now when one is running it.
Abandon(t, next) ==
    /\ wf' = [wf EXCEPT ![t] = next]
    /\ act' = [act EXCEPT ![t] = IF Alive(t) THEN @ ELSE "none"]
    /\ IF Alive(t) /\ heard[t] = "none"
       THEN /\ heard' = [heard EXCEPT ![t] = "sent"]
            /\ stopBy' = [stopBy EXCEPT ![t] = now + StopLatency]
       ELSE UNCHANGED <<heard, stopBy>>

\* request_chat_turn_cancel
RequestStop(t) ==
    /\ status[t] = "running"
    /\ stop' = [stop EXCEPT ![t] = TRUE]
    /\ UNCHANGED <<clockVars, sessionVars, status, key, expires, closer, wfVars,
                   actVars, req, listed>>

\* cancel_turn, which follows a recorded stop and may never land.  The
\* workflow's await fails at once and goes on to its fallback.
CancelWorkflow(t) ==
    /\ stop[t] /\ wf[t] = "running"
    /\ Abandon(t, "finalizing")
    /\ UNCHANGED <<clockVars, sessionVars, rowVars, deadline, outcome, runs, req, listed>>

\* start-to-close or heartbeat timeout of an activity that is still running.
ActivityTimesOut(t) ==
    /\ wf[t] = "running" /\ Alive(t)
    /\ Abandon(t, "finalizing")
    /\ UNCHANGED <<clockVars, sessionVars, rowVars, deadline, outcome, runs, req, listed>>

WorkflowCloses(t) ==
    /\ wf' = [wf EXCEPT ![t] = "closed"]
    /\ deadline' = [deadline EXCEPT ![t] = 0]

\* The activity's own result reaches the workflow.
ActivityResult(t) ==
    /\ wf[t] = "running"
    /\ \/ act[t] = "returned" /\ WorkflowCloses(t)
       \/ act[t] = "raised" /\ wf' = [wf EXCEPT ![t] = "finalizing"] /\ UNCHANGED deadline
    /\ act' = [act EXCEPT ![t] = "none"]
    /\ UNCHANGED <<clockVars, sessionVars, rowVars, heard, stopBy, outcome, runs, req, listed>>

\* finalize_chat_turn.  It read the turn before it writes: a stop that was
\* recorded in between goes unnoticed.
Finalize(t) ==
    /\ wf[t] = "finalizing"
    /\ \E s \in {"failed", "canceled"} :
          (s = "canceled" => stop[t]) /\ Finish(t, s, "fallback")
    /\ WorkflowCloses(t)
    /\ UNCHANGED <<clockVars, sessionVars, key, stop, actVars, req, listed>>

\* Its attempts are exhausted.
FinalizeFails(t) ==
    /\ wf[t] = "finalizing"
    /\ WorkflowCloses(t)
    /\ UNCHANGED <<clockVars, sessionVars, rowVars, actVars, req, listed>>

\* The execution timeout closes the workflow without running its fallback.
WorkflowTimesOut(t) ==
    /\ Open(t) /\ now >= deadline[t]
    /\ Abandon(t, "closed")
    /\ deadline' = [deadline EXCEPT ![t] = 0]
    /\ UNCHANGED <<clockVars, sessionVars, rowVars, outcome, runs, req, listed>>
-----------------------------------------------------------------------------
(* The expiry sweep: one query, then one delete per listed turn.           *)

\* Mutants: no cutoff; only turns that were closed.
SweepListsAll ==
    /\ listed = {}
    /\ listed' = {t \in Turns : HasRow(t)}
    /\ UNCHANGED <<clockVars, sessionVars, rowVars, wfVars, actVars, req>>
SweepListsClosed ==
    /\ listed = {}
    /\ listed' = {t \in Turns : status[t] \in Terminal /\ expires[t] <= now}
    /\ UNCHANGED <<clockVars, sessionVars, rowVars, wfVars, actVars, req>>
SweepLists ==
    /\ listed = {}
    /\ listed' = {t \in Turns : HasRow(t) /\ expires[t] <= now}
    /\ UNCHANGED <<clockVars, sessionVars, rowVars, wfVars, actVars, req>>

SweepDeletes(t) ==
    /\ t \in listed
    /\ listed' = listed \ {t}
    /\ status' = [status EXCEPT ![t] = "gone"]
    /\ expires' = [expires EXCEPT ![t] = 0]
    /\ stop' = [stop EXCEPT ![t] = FALSE]
    /\ UNCHANGED <<clockVars, sessionVars, key, closer, wfVars, actVars, req>>

(* Time passes until something that must happen by now has happened.       *)
Tick ==
    /\ now < MaxTime
    /\ \A t \in Turns : Open(t) => now < deadline[t]
    /\ \A t \in Turns : Alive(t) /\ heard[t] # "none" => now < stopBy[t]
    /\ \A r \in Requests : req[r].pc = "handoff" => now < req[r].at + HandoffDelay
    /\ now' = now + 1
    /\ UNCHANGED <<sessionVars, rowVars, wfVars, actVars, req, listed>>

RequestNext(r) ==
    \/ \E k \in Keys, t \in Turns : AdmitExisting(r, k, t) \/ AdmitNew(r, k, t)
    \/ EnsureExpired(r) \/ EnsureSized(r) \/ StartWorkflow(r) \/ HandoffFails(r)

ActivityNext(t) ==
    \/ PickUp(t) \/ CheckOwner(t) \/ GraphEnds(t) \/ WatchStops(t)
    \/ HearCancel(t) \/ Close(t) \/ ActivityDies(t)

WorkflowNext(t) ==
    \/ CancelWorkflow(t) \/ ActivityTimesOut(t) \/ ActivityResult(t)
    \/ Finalize(t) \/ FinalizeFails(t) \/ WorkflowTimesOut(t)

Next ==
    \/ \E r \in Requests : RequestNext(r)
    \/ \E t \in Turns : ActivityNext(t) \/ WorkflowNext(t) \/ RequestStop(t) \/ SweepDeletes(t)
    \/ SweepLists
    \/ Tick

Spec == Init /\ [][Next]_vars

\* A process that executes an activity keeps executing it: the ownership check,
\* the cancel watch and the closing writes are steps of one running task.  When
\* the graph ends, whether Temporal delivers a cancellation and what clients do
\* are left to chance.
TurnFairness ==
    \A t \in Turns : WF_vars(CheckOwner(t)) /\ WF_vars(WatchStops(t)) /\ WF_vars(Close(t))
FairSpec == Spec /\ TurnFairness

\* Time passes (clients cannot stop it by trying again and again), the platform
\* honours its timeouts, and turns go on finishing somewhere in the deployment,
\* each of which may run the sweep.
Timely ==
    /\ SF_vars(Tick) /\ WF_vars(SweepLists)
    /\ \A t \in Turns : WF_vars(SweepDeletes(t)) /\ WF_vars(WorkflowTimesOut(t))
                         /\ WF_vars(ActivityDies(t) /\ heard[t] # "none")
    /\ \A r \in Requests : WF_vars(StartWorkflow(r))
-----------------------------------------------------------------------------
(* Properties.                                                             *)

\* Types, and the few shapes every other property takes for granted.
TypeOK ==
    /\ now \in Nat /\ touched \in Nat
    /\ session \in {"open", "retiring", "deleted"}
    /\ status \in [Turns -> Status]
    /\ key \in [Turns -> Keys \cup {NoKey}]
    /\ expires \in [Turns -> Nat]
    /\ stop \in [Turns -> BOOLEAN]
    /\ wf \in [Turns -> {"none", "running", "finalizing", "closed"}]
    /\ deadline \in [Turns -> Nat]
    /\ act \in [Turns -> ActPoint]
    /\ heard \in [Turns -> {"none", "sent", "heard"}]
    /\ stopBy \in [Turns -> Nat]
    /\ outcome \in [Turns -> {"none", "completed", "failed", "canceled"}]
    /\ \A t \in Turns : act[t] = "closing" => outcome[t] # "none"
    /\ req \in [Requests -> Request]
    /\ listed \subseteq Turns
    /\ closer \in [Turns -> Closers]
    /\ runs \in [Turns -> Nat]

\* A producer keeps its turn while it works: its row is still running under a
\* claim that has not lapsed, unless its own workflow's fallback or a repeat of
\* its own request closed it.  In particular no other message can retire a turn
\* that is being produced, and no sweep can collect one.
ProducerKeepsTurn ==
    \A t \in Turns : Alive(t) =>
        \/ status[t] = "running" /\ now < expires[t]
        \/ closer[t] \in {"fallback", "repair"}

\* Why a producer keeps its turn (the inductive invariant behind it).  A request
\* sizes the workflow by the claim its turn really has; an open workflow ends,
\* and whatever it then stops has stopped, before that claim lapses; and the
\* sweep holds only lapsed turns.
RequestKnowsClaim(r) == req[r].pc # "idle" =>
    /\ req[r].turn \in Turns /\ status[req[r].turn] # "free"
    /\ status[req[r].turn] = "running" => expires[req[r].turn] = req[r].claim
    /\ req[r].pc = "handoff" => /\ now <= req[r].at + HandoffDelay
                                /\ req[r].at + req[r].left <= req[r].claim - CancelBuffer
WorkflowInsideClaim(t) == Open(t) =>
    /\ now <= deadline[t]
    /\ status[t] = "running" => deadline[t] + StopLatency < expires[t]
ActivityInsideClaim(t) ==
    /\ act[t] = "queued" => wf[t] = "running"
    /\ Alive(t) /\ heard[t] = "none" => wf[t] = "running"
    /\ Alive(t) /\ heard[t] # "none" /\ status[t] = "running" => stopBy[t] < expires[t]
    /\ ~Alive(t) => heard[t] = "none"
    /\ wf[t] = "none" => act[t] = "none"
    /\ status[t] = "free" => wf[t] = "none"
RowClosesOnce(t) ==
    /\ t \in listed => status[t] # "free" /\ (status[t] = "running" => expires[t] <= now)
    /\ status[t] \in {"free", "running"} => closer[t] = "none"
ClaimInv ==
    /\ \A r \in Requests : RequestKnowsClaim(r)
    /\ \A t \in Turns : /\ WorkflowInsideClaim(t) /\ ActivityInsideClaim(t)
                        /\ RowClosesOnce(t)

\* A request is answered once: a turn's graph is started at most once, however
\* often its handoff is repeated, and two turns answer the same idempotency key
\* only when the log of the first had been collected in between.
AnsweredOnce ==
    /\ \A t \in Turns : runs[t] <= 1
    /\ \A t, u \in Turns :
          t # u /\ key[t] = key[u] /\ runs[t] > 0 /\ runs[u] > 0 =>
              status[t] = "gone" \/ status[u] = "gone"

\* A closed turn's outcome is final: late closers (the producer, the fallback,
\* a repair) leave it, and only the collection of the log ends it.
OutcomeIsFinal ==
    [][\A t \in Turns : status[t] \in Terminal =>
          status'[t] \in {status[t], "gone"}]_vars

\* A turn that holds the thread is not collected: neither before its claim
\* lapses, nor from under a producer.
SweepSparesClaims ==
    [][\A t \in Turns : status[t] = "running" /\ status'[t] = "gone" =>
          expires[t] <= now /\ ~Alive(t)]_vars

\* The clock, the workflows, the retries and the sweep implement the contract of
\* ChatTurnContract: one holder at a time, one answer per turn, begun only while
\* the turn holds the conversation.
ContractRow == [t \in Turns |-> IF status[t] = "free" THEN "none"
                                ELSE IF status[t] = "running" THEN "held"
                                ELSE IF status[t] = "gone" THEN "erased" ELSE "closed"]
ContractAnswered == {t \in Turns : runs[t] > 0}
Contract == INSTANCE ChatTurnContract WITH row <- ContractRow, answered <- ContractAnswered
KeepsContract == Contract!Spec

\* A recorded stop ends the run of the producer by itself: the cancellation
\* that goes with it may never reach Temporal.
StopEndsRun == \A t \in Turns : stop[t] /\ Alive(t) ~> ~Alive(t)

\* No turn holds its thread for ever, whatever was lost: a request that died
\* between the commit and the handoff, a worker, the fallback's attempts.
ThreadIsReleased ==
    Timely => \A t \in Turns : status[t] = "running" ~> status[t] # "running"

\* What the partial unique index is there for ("two producers interleaving
\* state on one LangGraph thread").  The code does not keep it: the fallback
\* closes a turn as soon as its workflow is cancelled or its activity timed
\* out, while the activity may still be running.
OneProducer == \A t, u \in Turns : act[t] = "producing" /\ act[u] = "producing" => t = u
=============================================================================
