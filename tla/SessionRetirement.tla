-------------------------- MODULE SessionRetirement --------------------------
(***************************************************************************)
(* The end of a conversation: a user's delete requests and the scheduled   *)
(* reaper of idle sessions, interleaved with everything ChatTurns does.    *)
(* Both claim the session (which closes it to new turns), destroy the      *)
(* thread's checkpoint and sandbox, and delete the session record last.    *)
(***************************************************************************)
EXTENDS ChatTurns

CONSTANTS
    Deleters,   \* delete requests being served at once
    Reapers,    \* sweeps running at once
    Idle        \* CHAT_SESSION_REAP_IDLE_SECONDS

\* The reaper looks at no turn: it relies on a session being idle for longer
\* than any turn can hold it (30 days against 20 minutes by default).
ASSUME IdleAssumption == Idle \in Nat /\ Idle >= Lease

VARIABLES
    retirer,    \* delete requests and sweeps in progress
    destroyed   \* has the thread's checkpoint and sandbox been torn down?

retireVars == <<retirer, destroyed>>
allVars == <<vars, retireVars>>

Retirers == Deleters \cup Reapers
turnVars == <<now, touched, key, wfVars, actVars, req, listed>>

\* updated_at has microseconds: two admissions never leave the same one behind.
Stamp == <<touched, {t \in Turns : status[t] # "free"}>>
Working(pc, turn, stamp) == [pc |-> pc, turn |-> turn, stamp |-> stamp]
Resting == Working("idle", NoTurn, <<0, {}>>)
Goes(c, pc) == retirer' = [retirer EXCEPT ![c].pc = pc]
Rests(c)    == retirer' = [retirer EXCEPT ![c] = Resting]

RInit == Init /\ retirer = [c \in Retirers |-> Resting] /\ destroyed = FALSE
-----------------------------------------------------------------------------
\* _close_session_for_deletion reads the session first.
DeleteReads(c) ==
    /\ c \in Deleters /\ retirer[c].pc = "idle"
    /\ session # "deleted"
    /\ retirer' = [retirer EXCEPT ![c] = Working("read", NoTurn, Stamp)]
    /\ UNCHANGED <<vars, destroyed>>

\* Mutant: the listing skips sessions that are already claimed.
ReaperListsOpen(c) ==
    /\ c \in Reapers /\ retirer[c].pc = "idle"
    /\ session = "open" /\ touched < now - Idle
    /\ retirer' = [retirer EXCEPT ![c] = Working("read", NoTurn, Stamp)]
    /\ UNCHANGED <<vars, destroyed>>
\* reap_idle_sessions lists interactive sessions older than the cutoff, claimed
\* ones included: that is how an interrupted retirement is taken up again.
ReaperLists(c) ==
    /\ c \in Reapers /\ retirer[c].pc = "idle"
    /\ session # "deleted" /\ touched < now - Idle
    /\ retirer' = [retirer EXCEPT ![c] = Working("read", NoTurn, Stamp)]
    /\ UNCHANGED <<vars, destroyed>>

\* Mutant: a claim that does not ask whether the session moved since.
ClaimAnyway(c) ==
    /\ retirer[c].pc = "read"
    /\ session' = "retiring"
    /\ Goes(c, IF c \in Deleters THEN "claimed" ELSE "teardown")
    /\ UNCHANGED <<turnVars, rowVars, destroyed>>
\* claim_chat_session_for_retirement: one conditional update on updated_at.
Claim(c) ==
    /\ retirer[c].pc = "read"
    /\ IF session # "deleted" /\ Stamp = retirer[c].stamp
       THEN /\ session' = "retiring"
            /\ Goes(c, IF c \in Deleters THEN "claimed" ELSE "teardown")
       ELSE Rests(c) /\ UNCHANGED session       \* 503, or kept
    /\ UNCHANGED <<turnVars, rowVars, destroyed>>

\* The delete request looks for a turn that holds the thread.
DeleteLooks(c) ==
    /\ retirer[c].pc = "claimed"
    /\ \/ /\ \A t \in Turns : ~(status[t] = "running" /\ expires[t] > now)
          /\ Goes(c, "teardown")
       \/ \E t \in Turns :
             /\ status[t] = "running" /\ expires[t] > now
             /\ retirer' = [retirer EXCEPT ![c] = Working("stop", t, <<0, {}>>)]
    /\ UNCHANGED <<vars, destroyed>>

\* request_chat_turn_cancel, which finds nothing to do for a closed turn.
DeleteStops(c) ==
    LET t == retirer[c].turn IN
    /\ retirer[c].pc = "stop"
    /\ stop' = [stop EXCEPT ![t] = @ \/ status[t] = "running"]
    /\ Goes(c, "cancel")
    /\ UNCHANGED <<turnVars, session, status, expires, closer, destroyed>>

\* cancel_turn: the workflow is cancelled if there is one and Temporal answers.
DeleteCancels(c) ==
    LET t == retirer[c].turn IN
    /\ retirer[c].pc = "cancel"
    /\ \/ wf[t] = "running" /\ Abandon(t, "finalizing")
       \/ UNCHANGED <<wf, act, heard, stopBy>>
    /\ Goes(c, "await")
    /\ UNCHANGED <<clockVars, sessionVars, rowVars, deadline, outcome, runs, req, listed,
                   destroyed>>

\* Mutant: the request tears down after its patience, stopped or not.
DeleteAwaitsBriefly(c) ==
    /\ retirer[c].pc = "await"
    /\ Goes(c, "teardown")
    /\ UNCHANGED <<vars, destroyed>>
\* await_turn_stopped: until the turn is closed, or 503 after ten seconds.
DeleteAwaits(c) ==
    /\ retirer[c].pc = "await"
    /\ \/ status[retirer[c].turn] # "running" /\ Goes(c, "teardown")
       \/ status[retirer[c].turn] = "running" /\ Rests(c)
    /\ UNCHANGED <<vars, destroyed>>

\* delete_thread_state: the sandbox and the checkpoint.
Destroy(c) ==
    /\ retirer[c].pc = "teardown"
    /\ destroyed' = TRUE
    /\ Goes(c, "record")
    /\ UNCHANGED vars

\* Mutant: the record is deleted as soon as the session is claimed.
DeleteRecordFirst(c) ==
    /\ retirer[c].pc \in {"teardown", "record"}
    /\ session' = "deleted"
    /\ status' = [t \in Turns |-> IF HasRow(t) THEN "gone" ELSE status[t]]
    /\ expires' = [t \in Turns |-> IF HasRow(t) THEN 0 ELSE expires[t]]
    /\ stop' = [t \in Turns |-> FALSE]
    /\ Rests(c)
    /\ UNCHANGED <<turnVars, closer, destroyed>>
\* delete_chat_session: the record, and the turns it makes findable.
DeleteRecord(c) ==
    /\ retirer[c].pc = "record"
    /\ session' = "deleted"
    /\ status' = [t \in Turns |-> IF HasRow(t) THEN "gone" ELSE status[t]]
    /\ expires' = [t \in Turns |-> IF HasRow(t) THEN 0 ELSE expires[t]]
    /\ stop' = [t \in Turns |-> FALSE]
    /\ Rests(c)
    /\ UNCHANGED <<turnVars, closer, destroyed>>

\* Any of these calls may fail, or its process die: what was done stays done.
RetirerFails(c) ==
    /\ retirer[c].pc # "idle"
    /\ Rests(c)
    /\ UNCHANGED <<vars, destroyed>>

Proceeds(c) ==
    \/ DeleteReads(c) \/ ReaperLists(c) \/ Claim(c) \/ DeleteLooks(c) \/ DeleteStops(c)
    \/ DeleteCancels(c) \/ DeleteAwaits(c) \/ Destroy(c) \/ DeleteRecord(c)

RNext ==
    \/ Next /\ UNCHANGED retireVars
    \/ \E c \in Retirers : Proceeds(c) \/ RetirerFails(c)

RSpec == RInit /\ [][RNext]_allVars

\* The reaper is scheduled for ever, and its calls do not fail for ever.
FairReaper ==
    /\ RSpec
    /\ SF_allVars(Tick /\ UNCHANGED retireVars)
    /\ \A t \in Turns : WF_allVars(WorkflowTimesOut(t) /\ UNCHANGED retireVars)
                        /\ WF_allVars(ActivityDies(t) /\ heard[t] # "none" /\ UNCHANGED retireVars)
    /\ \A r \in Requests : WF_allVars(StartWorkflow(r) /\ UNCHANGED retireVars)
    /\ \A c \in Reapers : SF_allVars(ReaperLists(c)) /\ SF_allVars(Claim(c))
                          /\ SF_allVars(Destroy(c)) /\ SF_allVars(DeleteRecord(c))
-----------------------------------------------------------------------------
RTypeOK ==
    /\ TypeOK
    /\ retirer \in [Retirers ->
          [pc : {"idle", "read", "claimed", "stop", "cancel", "await", "teardown", "record"},
           turn : Turns \cup {NoTurn}, stamp : Nat \X SUBSET Turns]]
    /\ destroyed \in BOOLEAN
    /\ \A c \in Retirers : retirer[c].pc \in {"stop", "cancel", "await"} => retirer[c].turn \in Turns
    /\ \A c \in Retirers : retirer[c].pc \notin {"idle", "read"} => session # "open"

\* A conversation's state is never torn down under a turn that holds it: neither
\* a message admitted between the read and the claim, nor a long turn of a
\* session the reaper found idle.
TeardownSparesHolders ==
    [][~destroyed /\ destroyed' => \A t \in Turns : Alive(t) => status[t] # "running"]_allVars

\* The record goes last: while anything of the conversation may be left, the
\* record is there to find it by, whatever failed in between.
RecordGoesLast == session = "deleted" => destroyed

\* What the retirement was begun on is never given up: a claimed session, which
\* takes no more turns, is deleted in the end, whatever failed on the way.
RetirementFinishes == session = "retiring" ~> session = "deleted"
=============================================================================
