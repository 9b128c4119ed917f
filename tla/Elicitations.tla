---------------------------- MODULE Elicitations ----------------------------
(***************************************************************************)
(* Questions an external MCP server asks in the middle of a tool call.  The *)
(* call is parked as a group of rows, one for each question, and the turn  *)
(* ends; the owner answers; a later turn, or a later delegation to the     *)
(* sandbox, claims the whole group and sends the answers with the original *)
(* call.  Turns, delegations, the owner, the clock, the sweep and the      *)
(* deletion of the conversation interleave.                                *)
(***************************************************************************)
EXTENDS Naturals, FiniteSets

CONSTANTS
    Groups,       \* parked calls
    Questions,    \* questions of one call
    Resumers,     \* turns and delegations at work in the conversation
    NoGroup,
    Limit         \* live rows a conversation may have

\* The same transaction counts the rows of the turn (16) and of the conversation
\* (64) and compares both; one of the two limits is modelled.
ASSUME LimitAssumption ==
    Limit \in Nat /\ IsFiniteSet(Groups) /\ IsFiniteSet(Questions) /\ NoGroup \notin Groups

VARIABLES
    thread,     \* the session: "open", "retiring" or "deleted"
    rows,       \* the rows of each group by question; none when it is not stored
    kind,       \* who made the call of a group: "chat", "sandbox", or "none" yet
    lapsed,     \* groups whose expires_at has passed
    gate,       \* the action confirmation the call of a group needs
    bound,      \* groups whose rows name that confirmation
    job,        \* what each turn or delegation is doing
    sent,       \* history: how often a group's answers left for the server
    declined,   \* history: groups with an answer other than "accept"
    parent      \* history: the group whose continuation asked this group's questions

elicitVars == <<thread, rows, kind, lapsed, gate, bound, job, sent, declined, parent>>
storeVars  == <<thread, kind, lapsed, declined, parent>>

Answered == {"accepted", "declined"}             \* a cancel counts as a decline
RowStatus == {"pending", "consumed"} \cup Answered
NoRows   == [q \in {} |-> "pending"]
RowSets  == UNION {[S -> RowStatus] : S \in SUBSET Questions}
\* An action confirmation as ensure_confirmation leaves it (ActionConfirmations).
GateStatus == {"none", "unneeded", "needed", "pending", "approved", "denied", "lapsed", "executed"}

Parked    == {g \in Groups : kind[g] # "none"}
Stored(g) == rows[g] # NoRows
RowsOf(g) == DOMAIN rows[g]
\* Rows that count: consumed ones do, until they expire.
LiveRows == {row \in (Groups \ lapsed) \X Questions : row[2] \in RowsOf(row[1])}
Idle      == [at |-> "idle", group |-> NoGroup]
Rests(r)  == job' = [job EXCEPT ![r] = Idle]
Goes(r, s) == job' = [job EXCEPT ![r].at = s]
IsAt(r, s)  == job[r].at = s

ElicitInit ==
    /\ thread = "open"
    /\ rows = [g \in Groups |-> NoRows]
    /\ kind = [g \in Groups |-> "none"] /\ gate = [g \in Groups |-> "none"]
    /\ lapsed = {} /\ bound = {} /\ declined = {}
    /\ job = [r \in Resumers |-> Idle]
    /\ sent = [g \in Groups |-> 0]
    /\ parent = [g \in Groups |-> NoGroup]
-----------------------------------------------------------------------------
\* create, in one transaction that holds the session's row.
Fits(n)         == thread = "open" /\ Cardinality(LiveRows) + n <= Limit

\* park: the questions of a call are stored, or the call is refused. A subagent
\* of the sandbox had its delegation approved.
Park(g, by, from) ==
    /\ g \notin Parked
    /\ \E S \in (SUBSET Questions) \ {{}} :
          /\ Fits(Cardinality(S))
          /\ rows' = [rows EXCEPT ![g] = [q \in S |-> "pending"]]
    /\ kind' = [kind EXCEPT ![g] = by]
    /\ \E need \in {"unneeded", "needed"} :
          /\ by = "sandbox" => need = "unneeded"
          /\ gate' = [gate EXCEPT ![g] = need]
    /\ parent' = [parent EXCEPT ![g] = from]

\* A first call of a turn or of a sandbox subagent (which looks for a
\* continuation first, see Delegate).
FirstCall(g, by) ==
    /\ Park(g, by, NoGroup)
    /\ UNCHANGED <<thread, lapsed, bound, job, sent, declined>>

\* Mutant: an answer replaces an earlier one.
RespondAgain(g, q, answer) ==
    /\ q \in RowsOf(g) /\ rows[g][q] # "consumed" /\ g \notin lapsed
    /\ rows' = [rows EXCEPT ![g][q] = answer]
    /\ declined' = IF answer = "declined" THEN declined \cup {g} ELSE declined
    /\ UNCHANGED <<thread, kind, lapsed, parent, gate, bound, job, sent>>
\* respond: one conditional update on a pending row that has not expired.
Respond(g, q, answer) ==
    /\ q \in RowsOf(g) /\ rows[g][q] = "pending" /\ g \notin lapsed
    /\ rows' = [rows EXCEPT ![g][q] = answer]
    /\ declined' = IF answer = "declined" THEN declined \cup {g} ELSE declined
    /\ UNCHANGED <<thread, kind, lapsed, parent, gate, bound, job, sent>>

\* The confirmation of a continuation's call is decided, or expires.
Decide(g) ==
    /\ \/ gate[g] = "pending" /\ \E d \in {"approved", "denied"} : gate' = [gate EXCEPT ![g] = d]
       \/ gate[g] \in {"pending", "approved"} /\ gate' = [gate EXCEPT ![g] = "lapsed"]
    /\ UNCHANGED <<storeVars, rows, bound, job, sent>>
-----------------------------------------------------------------------------
\* Every question of the group has an answer that still counts.
Claimable(g) == Stored(g) /\ g \notin lapsed /\ \A q \in RowsOf(g) : rows[g][q] \in Answered

\* resume reads the rows and their statuses: it aborts on a group that is gone,
\* expired or consumed, and waits for answers that are missing.
Resume(r, g) ==
    /\ IsAt(r, "idle") /\ g \in Parked
    /\ Claimable(g)
    /\ job' = [job EXCEPT ![r] = [at |-> "read", group |-> g]]
    /\ UNCHANGED <<storeVars, rows, gate, bound, sent>>

\* It then reads the confirmation the rows name. A delegated call is left to
\* the next delegation, or its group consumed when an answer was not "accept".
Barred(g) == g \in bound /\ gate[g] \in {"denied", "lapsed"}
Check(r) ==
    LET g == job[r].group IN
    /\ IsAt(r, "read")
    /\ IF Barred(g) THEN Rests(r) /\ UNCHANGED rows
       ELSE IF kind[g] = "chat" THEN Goes(r, "gate") /\ UNCHANGED rows
       ELSE /\ Rests(r)
            /\ rows' = IF g \in declined /\ Claimable(g)
                       THEN [rows EXCEPT ![g] = [q \in RowsOf(g) |-> "consumed"]] ELSE rows
    /\ UNCHANGED <<storeVars, gate, bound, sent>>

\* call_tool_for_chat: the confirmation policy of today. An approval is claimed
\* (it counts as executed from here on), a missing one is asked for, and so is
\* one that was spent unless this call raced the one that spent it.
Approve(r) ==
    LET g == job[r].group IN
    /\ IsAt(r, "gate")
    /\ \/ gate[g] = "unneeded" /\ Goes(r, "claim") /\ UNCHANGED gate
       \/ gate[g] = "approved" /\ Goes(r, "claim") /\ gate' = [gate EXCEPT ![g] = "executed"]
       \/ /\ gate[g] \in {"needed", "lapsed", "pending", "executed"}
          /\ Goes(r, "bind") /\ gate' = [gate EXCEPT ![g] = "pending"]
       \/ gate[g] \in {"denied", "executed"} /\ Rests(r) /\ UNCHANGED gate
    /\ UNCHANGED <<storeVars, rows, bound, sent>>
\* bind_confirmation passes over rows that were consumed meanwhile.
Bind(r) ==
    LET g == job[r].group IN
    /\ IsAt(r, "bind")
    /\ bound' = IF Stored(g) /\ \E q \in RowsOf(g) : rows[g][q] # "consumed"
                THEN bound \cup {g} ELSE bound
    /\ Rests(r)
    /\ UNCHANGED <<storeVars, rows, gate, sent>>

\* matching_delegation: an answered row of the very same call. A delegated call
\* runs unconfirmed here; its own confirmation came before the first attempt.
Delegate(r, g) ==
    /\ IsAt(r, "idle") /\ g \in Parked /\ kind[g] = "sandbox"
    /\ Stored(g) /\ g \notin lapsed /\ \E q \in RowsOf(g) : rows[g][q] \in Answered
    /\ job' = [job EXCEPT ![r] = [at |-> "claim", group |-> g]]
    /\ UNCHANGED <<storeVars, rows, gate, bound, sent>>

\* Mutant: the claim trusts the statuses resume has read.
ClaimTrusting(r) ==
    LET g == job[r].group IN
    /\ IsAt(r, "claim")
    /\ rows' = [rows EXCEPT ![g] = [q \in RowsOf(g) |-> "consumed"]]
    /\ sent' = [sent EXCEPT ![g] = @ + 1]
    /\ Goes(r, "call")
    /\ UNCHANGED <<storeVars, gate, bound>>
\* continuation, just before the call: group(claim=True) consumes all rows under
\* their locks or none; without them the call is refused.
Claim(r) ==
    LET g == job[r].group IN
    /\ IsAt(r, "claim")
    /\ IF Claimable(g)
       THEN /\ rows' = [rows EXCEPT ![g] = [q \in RowsOf(g) |-> "consumed"]]
            /\ sent' = [sent EXCEPT ![g] = @ + 1]
            /\ Goes(r, "call")
       ELSE Rests(r) /\ UNCHANGED <<rows, sent>>
    /\ UNCHANGED <<storeVars, gate, bound>>

\* _call_tool_once: the server answers, fails or asks again. Whatever it was,
\* the continuation is not sent a second time, and a declined one ends here.
Returns(r) ==
    /\ IsAt(r, "call")
    /\ Rests(r)
    /\ UNCHANGED <<storeVars, rows, gate, bound, sent>>
AsksAgain(r, g) ==
    /\ IsAt(r, "call") /\ job[r].group \notin declined
    /\ Park(g, kind[job[r].group], job[r].group)
    /\ Rests(r)
    /\ UNCHANGED <<thread, lapsed, bound, sent, declined>>

\* A turn that resumes a confirmation no row names (any more) executes it as a
\* call of its own.
ResumeConfirmed(g) ==
    /\ gate[g] = "approved" /\ (g \notin bound \/ ~Stored(g))
    /\ gate' = [gate EXCEPT ![g] = "executed"]
    /\ UNCHANGED <<storeVars, rows, bound, job, sent>>

\* A worker dies, or a step in between raises.
Dies(r) ==
    /\ job[r].at \notin {"idle", "call"}
    /\ Rests(r)
    /\ UNCHANGED <<storeVars, rows, gate, bound, sent>>
-----------------------------------------------------------------------------
\* All rows of a group expire together.
Expire(g) ==
    /\ g \in Parked \ lapsed
    /\ lapsed' = lapsed \cup {g}
    /\ UNCHANGED <<thread, kind, parent, declined, rows, gate, bound, job, sent>>
\* purge_expired, in the sweep after a turn.
Purge(g) ==
    /\ g \in lapsed /\ Stored(g)
    /\ rows' = [rows EXCEPT ![g] = NoRows]
    /\ UNCHANGED <<storeVars, gate, bound, job, sent>>
\* claim_chat_session_for_retirement, then the deletion of the record, which
\* takes the rows with it.
Retire ==
    /\ thread = "open"
    /\ thread' = "retiring"
    /\ UNCHANGED <<kind, lapsed, parent, declined, rows, gate, bound, job, sent>>
DeleteThread ==
    /\ thread = "retiring"
    /\ thread' = "deleted"
    /\ rows' = [g \in Groups |-> NoRows]
    /\ UNCHANGED <<kind, lapsed, parent, declined, gate, bound, job, sent>>

ResumerNext(r) ==
    \/ \E g \in Groups : Resume(r, g) \/ Delegate(r, g)
    \/ Check(r) \/ Approve(r) \/ Bind(r) \/ Claim(r) \/ Returns(r) \/ Dies(r)
    \/ \E g \in Groups : AsksAgain(r, g)
ElicitNext ==
    \/ \E g \in Groups, by \in {"chat", "sandbox"} : FirstCall(g, by)
    \/ \E g \in Groups, q \in Questions, a \in Answered : Respond(g, q, a)
    \/ \E g \in Groups : Decide(g) \/ ResumeConfirmed(g) \/ Expire(g) \/ Purge(g)
    \/ \E r \in Resumers : ResumerNext(r)
    \/ Retire \/ DeleteThread

ElicitSpec == ElicitInit /\ [][ElicitNext]_elicitVars
-----------------------------------------------------------------------------
\* Types, and that a group with rows or work has been parked.
ElicitTypeOK ==
    /\ thread \in {"open", "retiring", "deleted"}
    /\ rows \in [Groups -> RowSets] /\ gate \in [Groups -> GateStatus]
    /\ kind \in [Groups -> {"none", "chat", "sandbox"}]
    /\ lapsed \subseteq Parked /\ bound \subseteq Parked /\ declined \subseteq Parked
    /\ job \in [Resumers -> [at : {"idle", "read", "gate", "bind", "claim", "call"},
                             group : Groups \cup {NoGroup}]]
    /\ \A r \in Resumers : IF IsAt(r, "idle") THEN job[r] = Idle ELSE job[r].group \in Parked
    /\ \A g \in Groups : Stored(g) => g \in Parked
    /\ sent \in [Groups -> Nat] /\ parent \in [Groups -> Parked \cup {NoGroup}]

\* STO-014: the answers of a group leave for the server once, whichever turns
\* and delegations resume it at the same time, and however the call ended.
AnswersGoOnce == \A g \in Groups : sent[g] <= 1

\* STO-014: a continuation is never sent with some of its answers, and none of
\* them are left to be sent later.
ClaimedTogether ==
    \A g \in Groups : \A p, q \in RowsOf(g) :
        rows[g][p] = "consumed" => rows[g][q] = "consumed"

\* An answer is not replaced by a later one or by a second answer that raced it.
AnswersStand ==
    [][\A g \in Groups : \A q \in RowsOf(g) \cap DOMAIN rows'[g] :
          rows[g][q] # "pending" => rows'[g][q] \in {rows[g][q], "consumed"}]_elicitVars

\* STO-014: calls that run at the same time do not pass the limit together.
LimitHolds == Cardinality(LiveRows) <= Limit

\* A call still at work when its conversation goes leaves no answers behind.
DeletedLeavesNothing == thread = "deleted" => \A g \in Groups : ~Stored(g)

\* AGT-055: a declined request is terminal, the owner is not asked again for it.
DeclineIsTerminal == \A g \in Groups : parent[g] \notin declined

\* What the store and the resuming calls keep between them.
ElicitInv ==
    /\ ElicitTypeOK /\ AnswersGoOnce /\ ClaimedTogether
    /\ LimitHolds /\ DeletedLeavesNothing /\ DeclineIsTerminal
=============================================================================
