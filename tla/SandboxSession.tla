--------------------------- MODULE SandboxSession ---------------------------
(***************************************************************************)
(* The sandboxes of one conversation.  A node of a turn (the agent, or a   *)
(* dispatcher around its batch) opens a session: the delegations that run  *)
(* in it at the same time share one sandbox, opened on first use, resumed  *)
(* from the id the thread's checkpoint holds, and suspended or destroyed   *)
(* at the end.  Steps on other machines attach to it.  A turn that was     *)
(* stopped may linger beside the next one (see ChatTurns).  Retirement and *)
(* the reaper's orphan pass destroy what is suspended.                     *)
(***************************************************************************)
EXTENDS Naturals

CONSTANTS
    Owners,         \* turns whose nodes run at once, all but one of them stopped
    Callers,        \* delegations of a node that run at the same time
    Steps,          \* steps on other machines
    MaxSandboxes    \* sandboxes the provider will create: bounds the model

ASSUME SandboxAssumption == MaxSandboxes \in Nat

Sandboxes == 1 .. MaxSandboxes
NoBox == 0

VARIABLES
    box,        \* the provider: what became of each sandbox
    stored,     \* the checkpoint's sandbox_id
    thread,     \* the session record
    node,       \* the node each turn is in, with its session
    caller,     \* delegations on their way into backend()
    step,       \* distributed steps and the sandbox they attach to
    retirer,    \* the retirement of the conversation
    sweep,      \* the orphan pass
    loose       \* left running by a lost process or a failed call

boxVars == <<box, stored, thread, node, caller, step, retirer, sweep, loose>>
outside == <<thread, retirer, sweep>>

NoNode == [at |-> "idle", resume |-> NoBox, box |-> NoBox, closed |-> FALSE,
           keep |-> TRUE, failed |-> FALSE, stopped |-> FALSE, alone |-> TRUE]
NoJob == [at |-> "idle", box |-> NoBox]

Usable(b) == b # NoBox /\ box[b] \in {"running", "paused"}
\* The provider names sandboxes as it creates them.
Fresh(b) == box[b] = "none" /\ \A c \in Sandboxes : box[c] = "none" => b <= c
InNode(t, at) == node[t].at = at
Unlocked(t) == \A c \in Callers : caller[t][c] # "opening"
Holds(t, b) == node[t].box = b
Held(b) == \/ \E t \in Owners : Holds(t, b)
           \/ \E s \in Steps : step[s].at = "attached" /\ step[s].box = b
Becomes(b, s) == box' = [box EXCEPT ![b] = s]

SandboxInit ==
    /\ box = [b \in Sandboxes |-> "none"] /\ stored = NoBox /\ thread = "live"
    /\ node = [t \in Owners |-> NoNode]
    /\ caller = [t \in Owners |-> [c \in Callers |-> "idle"]]
    /\ step = [s \in Steps |-> NoJob]
    /\ retirer = NoJob /\ sweep = NoJob /\ loose = {}
-----------------------------------------------------------------------------
(* The session of a node. *)

\* start_sandbox_session. Its turn is the only one that is not stopped.
StartNode(t) ==
    /\ InNode(t, "idle") /\ thread = "live"
    /\ \A u \in Owners \ {t} : InNode(u, "idle") \/ node[u].stopped
    /\ \A c \in Callers : caller[t][c] = "idle"
    /\ node' = [node EXCEPT ![t] = [NoNode EXCEPT !.at = "open", !.resume = stored,
                            !.alone = \A u \in Owners \ {t} : InNode(u, "idle")]]
    /\ UNCHANGED <<outside, box, stored, caller, step, loose>>

\* A user stops the turn: it is closed for everyone but the process it runs in.
StopTurn(t) ==
    /\ ~InNode(t, "idle") /\ ~node[t].stopped
    /\ node' = [node EXCEPT ![t].stopped = TRUE]
    /\ UNCHANGED <<outside, box, stored, caller, step, loose>>

\* backend: no sandbox yet. A delegation whose sibling raised goes on working.
Ask(t, c) ==
    /\ caller[t][c] = "idle" /\ node[t].box = NoBox
    /\ InNode(t, "open") \/ (node[t].failed /\ ~InNode(t, "idle"))
    /\ caller' = [caller EXCEPT ![t][c] = "waiting"]
    /\ UNCHANGED <<outside, box, stored, node, step, loose>>

\* Under the lock: a closed session refuses, an opened one is shared.
Enter(t, c) ==
    /\ caller[t][c] = "waiting" /\ Unlocked(t)
    /\ caller' = [caller EXCEPT ![t][c] =
          IF node[t].closed \/ InNode(t, "idle") \/ node[t].box # NoBox THEN "idle" ELSE "opening"]
    /\ UNCHANGED <<outside, box, stored, node, step, loose>>

\* open_backend: the stored sandbox if it still exists, a new one otherwise.
Opens(t, b) == IF Usable(node[t].resume) THEN b = node[t].resume ELSE Fresh(b)
OpenBackend(t, c) ==
    /\ caller[t][c] = "opening"
    /\ \E b \in Sandboxes :
          /\ Opens(t, b) /\ Becomes(b, "running")
          /\ node' = [node EXCEPT ![t].box = b]
          /\ loose' = loose \ {b}
    /\ caller' = [caller EXCEPT ![t][c] = "idle"]
    /\ UNCHANGED <<outside, stored, step>>

\* The provider fails, or the delegation's timeout cancels the call: the sandbox
\* may have been created or resumed all the same.
OpenFails(t, c) ==
    /\ caller[t][c] = "opening"
    /\ \/ UNCHANGED <<box, loose>>
       \/ \E b \in Sandboxes : Opens(t, b) /\ Becomes(b, "running") /\ loose' = loose \cup {b}
    /\ caller' = [caller EXCEPT ![t][c] = "idle"]
    /\ UNCHANGED <<outside, stored, node, step>>

\* close_sandbox_session, when the batch and the steps it waits for are done.
CloseNode(t) ==
    /\ InNode(t, "open")
    /\ \A c \in Callers : caller[t][c] = "idle"
    /\ \A s \in Steps : step[s].at = "idle" \/ ~Holds(t, step[s].box)
    /\ node' = [node EXCEPT ![t].at = "closing"]
    /\ UNCHANGED <<outside, box, stored, caller, step, loose>>

\* abandon_sandbox_session: the node raised. Whether the sandbox is the resumed
\* one is asked before the lock; delegations and steps may still be at work.
Resumed(t) == node[t].resume # NoBox /\ node[t].box = node[t].resume
AbandonNode(t) ==
    /\ InNode(t, "open")
    /\ node' = [node EXCEPT ![t].at = "closing", ![t].failed = TRUE, ![t].keep = Resumed(t)]
    /\ UNCHANGED <<outside, box, stored, caller, step, loose>>

\* aclose, under the lock: nothing to tear down, or a sandbox to suspend or kill.
AClose(t) ==
    /\ InNode(t, "closing") /\ Unlocked(t)
    /\ node' = [node EXCEPT ![t].closed = TRUE,
                            ![t].keep = TRUE,
                            ![t].at = IF node[t].box = NoBox THEN "closed"
                                      ELSE IF node[t].keep THEN "pausing" ELSE "killing"]
    /\ UNCHANGED <<outside, box, stored, caller, step, loose>>

\* The thread has nothing to resume; a node that failed does not say so.
Forget(t) == [node EXCEPT ![t].at = IF node[t].failed THEN "closed" ELSE "saving",
                          ![t].box = NoBox]
\* The exit of open_backend. A pause that failed, even if it took effect, is
\* followed by a kill.
Pause(t) ==
    /\ InNode(t, "pausing") /\ Usable(node[t].box)
    /\ Becomes(node[t].box, "paused")
    /\ node' = IF node[t].failed THEN Forget(t) ELSE [node EXCEPT ![t].at = "saving"]
    /\ loose' = loose \ {node[t].box}
    /\ UNCHANGED <<outside, stored, caller, step>>
PauseFails(t) ==
    /\ InNode(t, "pausing")
    /\ \/ UNCHANGED <<box, loose>>
       \/ /\ Usable(node[t].box)
          /\ Becomes(node[t].box, "paused") /\ loose' = loose \ {node[t].box}
    /\ node' = [node EXCEPT ![t].at = "lost"]
    /\ UNCHANGED <<outside, stored, caller, step>>
Kill(t) ==
    /\ node[t].at \in {"killing", "lost"}
    /\ Becomes(node[t].box, "dead") /\ loose' = loose \ {node[t].box}
    /\ node' = Forget(t)
    /\ UNCHANGED <<outside, stored, caller, step>>
KillFails(t) ==
    /\ node[t].at \in {"killing", "lost"}
    /\ loose' = loose \cup {node[t].box}
    /\ node' = Forget(t)
    /\ UNCHANGED <<outside, box, stored, caller, step>>

\* The node's update reaches the checkpoint; empty, it clears the stored id.
Save(t) ==
    /\ InNode(t, "saving")
    /\ stored' = node[t].box
    /\ node' = [node EXCEPT ![t] = NoNode]
    /\ UNCHANGED <<outside, box, caller, step, loose>>
\* A node that opened nothing, or failed, leaves the stored id alone.
LeaveNode(t) ==
    /\ InNode(t, "closed")
    /\ node' = [node EXCEPT ![t] = NoNode]
    /\ UNCHANGED <<outside, box, stored, caller, step, loose>>

\* The process of a turn dies; what it had open, or was opening, stays as it is.
LoseNode(t) ==
    /\ ~InNode(t, "idle")
    /\ \/ UNCHANGED box /\ loose' = loose \cup ({node[t].box} \ {NoBox})
       \/ \E b \in Sandboxes :
             /\ ~Unlocked(t) /\ Opens(t, b) /\ Becomes(b, "running")
             /\ loose' = loose \cup {b}
    /\ node' = [node EXCEPT ![t] = NoNode]
    /\ caller' = [caller EXCEPT ![t] = [c \in Callers |-> "idle"]]
    /\ UNCHANGED <<outside, stored, step>>
-----------------------------------------------------------------------------
(* Steps on other machines, which connect and never create or tear down. *)

\* _shared_sandbox_id: the id of the open sandbox travels with the step.
FanOut(t, s) ==
    /\ InNode(t, "open") /\ node[t].box # NoBox /\ step[s].at = "idle"
    /\ step' = [step EXCEPT ![s] = [at |-> "scheduled", box |-> node[t].box]]
    /\ UNCHANGED <<outside, box, stored, node, caller, loose>>

\* attach_sandbox_session connects on first use, and so resumes what its owner
\* has suspended by then.
Attach(s) ==
    /\ step[s].at = "scheduled" /\ Usable(step[s].box)
    /\ Becomes(step[s].box, "running")
    /\ step' = [step EXCEPT ![s].at = "attached"]
    /\ UNCHANGED <<outside, stored, node, caller, loose>>

\* The step ends, is stopped or lost: the sandbox is left to its owner.
Detach(s) ==
    /\ step[s].at # "idle"
    /\ step' = [step EXCEPT ![s] = NoJob]
    /\ loose' = IF step[s].at = "attached" /\ box[step[s].box] = "running"
                THEN loose \cup {step[s].box} ELSE loose
    /\ UNCHANGED <<outside, box, stored, node, caller>>

\* The provider ends a running sandbox whose lifetime, longer than a turn's, has
\* passed; a suspended one has none.
Expire(b) ==
    /\ box[b] = "running" /\ ~Held(b)
    /\ Becomes(b, "dead") /\ loose' = loose \ {b}
    /\ UNCHANGED <<outside, stored, node, caller, step>>
-----------------------------------------------------------------------------
(* Retirement (see SessionRetirement) and the orphan pass. *)

\* The claim, and the wait until no turn holds the thread.
Claimed ==
    /\ thread = "live" /\ \A t \in Owners : InNode(t, "idle") \/ node[t].stopped
    /\ thread' = "retiring"
    /\ UNCHANGED <<box, stored, node, caller, step, retirer, sweep, loose>>

\* _discard_thread_sandbox; a checkpoint that cannot be read counts as empty.
ReadState ==
    /\ thread = "retiring" /\ retirer.at = "idle"
    /\ \E b \in {stored, NoBox} : retirer' = [at |-> "discard", box |-> b]
    /\ UNCHANGED <<box, stored, thread, node, caller, step, sweep, loose>>
Discard ==
    /\ retirer.at = "discard"
    /\ \/ retirer.box # NoBox /\ Becomes(retirer.box, "dead") /\ loose' = loose \ {retirer.box}
       \/ UNCHANGED <<box, loose>>
    /\ retirer' = [at |-> "checkpoint", box |-> NoBox]
    /\ UNCHANGED <<stored, thread, node, caller, step, sweep>>
DeleteState ==
    /\ retirer.at = "checkpoint"
    /\ stored' = NoBox /\ retirer' = [at |-> "record", box |-> NoBox]
    /\ UNCHANGED <<box, thread, node, caller, step, sweep, loose>>
DeleteSession ==
    /\ retirer.at = "record"
    /\ thread' = "deleted" /\ retirer' = NoJob
    /\ UNCHANGED <<box, stored, node, caller, step, sweep, loose>>
\* A call fails or the process dies; the next attempt begins anew.
RetirerStops ==
    /\ retirer.at # "idle" /\ retirer' = NoJob
    /\ UNCHANGED <<box, stored, thread, node, caller, step, sweep, loose>>

Sweeps(at, b) == sweep' = [at |-> at, box |-> b]
sweepOnly == <<stored, thread, node, caller, step, retirer>>

\* Mutant: the pass collects what a checkpoint names.
ListNamed(b) ==
    /\ sweep.at = "idle" /\ box[b] = "paused" /\ b = stored
    /\ Sweeps("listed", b)
    /\ UNCHANGED <<sweepOnly, box, loose>>
\* list_paused_sandboxes, those that are old enough.
ListPaused(b) ==
    /\ sweep.at = "idle" /\ box[b] = "paused"
    /\ Sweeps("listed", b)
    /\ UNCHANGED <<sweepOnly, box, loose>>
\* Mutant: the pass asks for no session, as if paused meant orphaned.
AskNobody ==
    /\ sweep.at = "listed"
    /\ Sweeps("orphan", sweep.box)
    /\ UNCHANGED <<sweepOnly, box, loose>>
\* _has_live_session; a store that cannot answer counts as live.
AskSession ==
    /\ sweep.at = "listed"
    /\ \/ thread = "deleted" /\ Sweeps("orphan", sweep.box)
       \/ Sweeps("idle", NoBox)
    /\ UNCHANGED <<sweepOnly, box, loose>>
\* sandbox_is_paused, the last look.
LookAgain ==
    /\ sweep.at = "orphan"
    /\ \/ box[sweep.box] = "paused" /\ Sweeps("doomed", sweep.box)
       \/ Sweeps("idle", NoBox)
    /\ UNCHANGED <<sweepOnly, box, loose>>
Reap ==
    /\ sweep.at = "doomed"
    /\ \/ Becomes(sweep.box, "dead") /\ loose' = loose \ {sweep.box}
       \/ UNCHANGED <<box, loose>>
    /\ Sweeps("idle", NoBox)
    /\ UNCHANGED sweepOnly
-----------------------------------------------------------------------------
Session(t) ==
    \/ CloseNode(t) \/ AbandonNode(t) \/ AClose(t) \/ Pause(t) \/ PauseFails(t)
    \/ Kill(t) \/ KillFails(t) \/ Save(t) \/ LeaveNode(t)

SandboxNext ==
    \/ \E t \in Owners :
          \/ StartNode(t) \/ StopTurn(t) \/ Session(t) \/ LoseNode(t)
          \/ \E c \in Callers : Ask(t, c) \/ Enter(t, c) \/ OpenBackend(t, c) \/ OpenFails(t, c)
          \/ \E s \in Steps : FanOut(t, s)
    \/ \E s \in Steps : Attach(s) \/ Detach(s)
    \/ \E b \in Sandboxes : Expire(b) \/ ListPaused(b)
    \/ Claimed \/ ReadState \/ Discard \/ DeleteState \/ DeleteSession \/ RetirerStops
    \/ AskSession \/ LookAgain \/ Reap

SandboxSpec == SandboxInit /\ [][SandboxNext]_boxVars

\* Owners and steps end (they have timeouts), lifetimes pass, and the reaper is
\* scheduled for ever, whose calls do not fail for ever.
SandboxFairness ==
    /\ \A t \in Owners :
          /\ WF_boxVars(Session(t))
          /\ \A c \in Callers :
                WF_boxVars(Enter(t, c)) /\ WF_boxVars(OpenBackend(t, c) \/ OpenFails(t, c))
    /\ \A s \in Steps : WF_boxVars(Detach(s))
    /\ \A b \in Sandboxes : WF_boxVars(Expire(b)) /\ SF_boxVars(ListPaused(b))
    /\ WF_boxVars(AskSession \/ LookAgain \/ Reap)
    /\ SF_boxVars(AskSession /\ sweep'.at = "orphan")
    /\ SF_boxVars(LookAgain /\ sweep'.at = "doomed")
    /\ SF_boxVars(Reap /\ box' # box)
SandboxFairSpec == SandboxSpec /\ SandboxFairness
-----------------------------------------------------------------------------
NodePlaces == {"idle", "open", "closing", "pausing", "killing", "lost", "saving", "closed"}

Nodes == [at : NodePlaces, resume : Sandboxes \cup {NoBox}, box : Sandboxes \cup {NoBox},
          closed : BOOLEAN, keep : BOOLEAN, failed : BOOLEAN, stopped : BOOLEAN, alone : BOOLEAN]
\* A step or a sweep that is at work has a sandbox.
Jobs(places) == {NoJob} \cup [at : places, box : Sandboxes]

\* Types, and that a session holds a sandbox between its opening and its exit.
SandboxTypeOK ==
    /\ box \in [Sandboxes -> {"none", "running", "paused", "dead"}]
    /\ stored \in Sandboxes \cup {NoBox} /\ thread \in {"live", "retiring", "deleted"}
    /\ node \in [Owners -> Nodes]
    /\ caller \in [Owners -> [Callers -> {"idle", "waiting", "opening"}]]
    /\ step \in [Steps -> Jobs({"scheduled", "attached"})]
    /\ sweep \in Jobs({"listed", "orphan", "doomed"})
    /\ retirer \in [at : {"idle", "discard", "checkpoint", "record"}, box : Sandboxes \cup {NoBox}]
    /\ loose \subseteq Sandboxes
    /\ \A t \in Owners :
          /\ node[t].at \in {"idle", "closed"} => node[t].box = NoBox
          /\ node[t].at \in {"pausing", "killing", "lost"} => node[t].box # NoBox

\* SBX-005: a sandbox that runs is one some session or step has in hand: no two
\* delegations open one each, none is opened into a session that was closed, and
\* what stays behind was left by a lost process or a failed call.
NoneRunsUnowned == \A b \in Sandboxes : box[b] = "running" => Held(b) \/ b \in loose

\* What a session hands out stays open until it closes itself, unless a stopped
\* turn lingers beside it: not the steps that share it, nor a sibling's failure,
\* nor the end of an earlier turn, nor the reaper takes it away.
OpenStaysRunning ==
    \A t \in Owners :
        InNode(t, "open") /\ node[t].box # NoBox /\ node[t].alone /\ ~node[t].stopped =>
            box[node[t].box] = "running"

\* What runs is in somebody's hands, and what is in hand runs.
HeldIffRunning == NoneRunsUnowned /\ OpenStaysRunning

\* A conversation that is gone leaves no sandbox behind, running or suspended,
\* whatever failed while it was retired.
OrphansCollected ==
    thread = "deleted" ~> [](\A b \in Sandboxes : ~Usable(b))
=============================================================================
