------------------------- MODULE ActionConfirmations -------------------------
(***************************************************************************)
(* Approval of one mutating action in one session: the same tool, target   *)
(* and arguments.  Every tool call passes ensure_confirmation, which runs  *)
(* the action under an approval, repeats a denial, or leaves one pending   *)
(* confirmation for the user to decide.  Calls overlap (two browser tabs,  *)
(* a retry, a continuation), decisions arrive from other requests, and a   *)
(* confirmation can expire between any two steps.                          *)
(***************************************************************************)
EXTENDS Naturals, FiniteSets

CONSTANTS
    Callers,       \* tool calls being served at once
    Deciders,      \* decision requests being served at once
    Ids,           \* confirmation ids: the bound on stored confirmations
    NoId,
    Retries,       \* ACTION_CONFIRMATION_DENIAL_RETRIES
    SessionLimit,  \* ACTION_CONFIRMATION_SESSION_DENIAL_LIMIT
    Expiry,        \* may expires_at pass while the calls are served?
    MaxOthers      \* bound on the denials of the session's other actions

ASSUME ConfirmationAssumption ==
    /\ IsFiniteSet(Callers) /\ IsFiniteSet(Ids) /\ NoId \notin Ids
    /\ Retries \in Nat /\ SessionLimit \in Nat \ {0} /\ MaxOthers \in Nat
    /\ Expiry \in BOOLEAN

VARIABLES
    status,  \* the stored status of each confirmation, "free" before it exists
    live,    \* ids whose expires_at has not passed
    others,  \* live denials of the session's other actions
    call,    \* the progress of each tool call
    write,   \* the conditional update each decision request is about to make
    ran      \* history: how often the tool ran under each confirmation

vars == <<status, live, others, call, write, ran>>

Status == {"free", "pending", "approved", "denied", "executed", "expired"}
CallPoint == {"find", "claim", "refetch", "running", "count", "dedup", "insert",
              "recheck", "clear", "done"}

\* `row` is the grant found, `retry` is retry_denied, `second` the second attempt
\* to insert.
Called == [pc : CallPoint, row : Ids \cup {NoId}, retry : BOOLEAN, second : BOOLEAN]
Rested == [pc |-> "done", row |-> NoId, retry |-> TRUE, second |-> FALSE]
NoWrite == [row |-> NoId, from |-> "pending", to |-> "denied"]

InFlight == {k \in Callers : call[k].pc # "done"}
Free == {i \in Ids : status[i] = "free"}
Live(s) == {i \in live : status[i] = s}
Denials == Cardinality(Live("denied"))

Goes(k, pc) == call' = [call EXCEPT ![k].pc = pc]
Answers(k) == call' = [call EXCEPT ![k] = Rested]

Init ==
    /\ status = [i \in Ids |-> "free"] /\ live = {} /\ others = 0
    /\ call = [k \in Callers |-> Rested]
    /\ write = [d \in Deciders |-> NoWrite]
    /\ ran = [i \in Ids |-> 0]
-----------------------------------------------------------------------------
(* ensure_confirmation *)

\* A tool call arrives; the guard on Free is the bound: one id for each call.
Call(k, retry) ==
    /\ k \notin InFlight
    /\ Cardinality(InFlight) < Cardinality(Free)
    /\ call' = [call EXCEPT ![k] = [Rested EXCEPT !.pc = "find", !.retry = retry]]
    /\ UNCHANGED <<status, live, others, write, ran>>

\* The first find_action_confirmation_grant: approvals before denials.
Find(k) ==
    /\ call[k].pc = "find"
    /\ \/ \E i \in Live("approved") :
            call' = [call EXCEPT ![k].pc = "claim", ![k].row = i]
       \/ /\ Live("approved") = {}
          /\ LET next == IF call[k].retry THEN "count" ELSE "dedup"
             IN  \/ \E i \in Live("denied") :
                      call' = [call EXCEPT ![k].pc = next, ![k].row = i]
                 \/ Live("denied") = {} /\ Goes(k, next)
    /\ UNCHANGED <<status, live, others, write, ran>>

\* Mutant: the status read by Find is trusted.
ClaimTrusting(k) ==
    LET i == call[k].row IN
    /\ call[k].pc = "claim"
    /\ status' = [status EXCEPT ![i] = "executed"] /\ Goes(k, "running")
    /\ UNCHANGED <<live, others, write, ran>>
\* claim_action_confirmation_for_execution: one conditional update.
Claim(k) ==
    LET i == call[k].row IN
    /\ call[k].pc = "claim"
    /\ \/ i \in Live("approved")
          /\ status' = [status EXCEPT ![i] = "executed"] /\ Goes(k, "running")
       \/ i \notin Live("approved") /\ Goes(k, "refetch") /\ UNCHANGED status
    /\ UNCHANGED <<live, others, write, ran>>

\* After a failed claim the row is read again, to answer "executed" to the loser
\* of a race and "expired" otherwise.
Refetch(k) ==
    /\ call[k].pc = "refetch" /\ Answers(k)
    /\ UNCHANGED <<status, live, others, write, ran>>

\* The caller runs the tool only after the claim has been committed.
RunTool(k) ==
    LET i == call[k].row IN
    /\ call[k].pc = "running"
    /\ ran' = [ran EXCEPT ![i] = @ + 1] /\ Answers(k)
    /\ UNCHANGED <<status, live, others, write>>

\* Mutant: the action's own denials are not counted.
CountSession(k) ==
    /\ call[k].pc = "count"
    /\ IF Denials + others >= SessionLimit THEN Answers(k) ELSE Goes(k, "dedup")
    /\ UNCHANGED <<status, live, others, write, ran>>
\* count_action_confirmation_denials and the two limits: the call is refused, or
\* is answered with the denial it found.
Count(k) ==
    /\ call[k].pc = "count"
    /\ \/ Denials + others >= SessionLimit /\ Answers(k)
       \/ /\ Denials + others < SessionLimit
          /\ IF call[k].row # NoId /\ Denials > Retries THEN Answers(k)
                                                       ELSE Goes(k, "dedup")
    /\ UNCHANGED <<status, live, others, write, ran>>

\* An identical pending confirmation is returned rather than duplicated; a
\* continuation is answered with the denial it found.
Dedup(k) ==
    /\ call[k].pc = "dedup"
    /\ \/ Live("pending") # {} /\ Answers(k)
       \/ /\ Live("pending") = {}
          /\ IF call[k].row # NoId /\ ~call[k].retry THEN Answers(k)
                                                    ELSE Goes(k, "insert")
    /\ UNCHANGED <<status, live, others, write, ran>>

Indexed == \E i \in Ids : status[i] = "pending"
\* A new confirmation's id; any unused one would do.
NewId == CHOOSE i \in Ids : status[i] = "free"

\* create_action_confirmation: the unique index covers every pending row,
\* expired ones included.
Insert(k) ==
    /\ call[k].pc = "insert"
    /\ \/ Indexed /\ Goes(k, "recheck") /\ UNCHANGED <<status, live>>
       \/ /\ ~Indexed
          /\ status' = [status EXCEPT ![NewId] = "pending"] /\ live' = live \cup {NewId}
          /\ Answers(k)
    /\ UNCHANGED <<others, write, ran>>

\* After a rejected insert: the confirmation that won, or a second attempt;
\* after two the caller is handed the confirmation that was never stored.
Recheck(k) ==
    /\ call[k].pc = "recheck"
    /\ \/ Live("pending") # {} /\ Answers(k)
       \/ Live("pending") = {} /\ IF call[k].second THEN Answers(k) ELSE Goes(k, "clear")
    /\ UNCHANGED <<status, live, others, write, ran>>

\* _expire_matching_pending_action_confirmation.
Clear(k) ==
    /\ call[k].pc = "clear"
    /\ status' = [i \in Ids |->
                    IF status[i] = "pending" /\ i \notin live THEN "expired"
                                                              ELSE status[i]]
    /\ call' = [call EXCEPT ![k].pc = "insert", ![k].second = TRUE]
    /\ UNCHANGED <<live, others, write, ran>>

\* The request is cut off or its process dies between two steps.
CallLost(k) ==
    /\ k \in InFlight
    /\ call' = [call EXCEPT ![k] = Rested]
    /\ UNCHANGED <<status, live, others, write, ran>>
-----------------------------------------------------------------------------
(* decide_confirmation *)

\* The decision request reads the confirmation: a pending one may be decided,
\* and on the owner's page a denial may be reversed.
DecideReads(d, i) ==
    /\ write[d].row = NoId /\ i \in live
    /\ \/ /\ status[i] = "pending"
          /\ \E to \in {"approved", "denied"} :
                write' = [write EXCEPT ![d] = [row |-> i, from |-> "pending", to |-> to]]
       \/ /\ status[i] = "denied"
          /\ write' = [write EXCEPT
                        ![d] = [row |-> i, from |-> "denied", to |-> "approved"]]
    /\ UNCHANGED <<status, live, others, call, ran>>

\* Mutant: the update does not ask for the status that was read.
DecideBlindly(d) ==
    LET w == write[d] IN
    /\ w.row # NoId
    /\ status' = IF w.row \in live THEN [status EXCEPT ![w.row] = w.to] ELSE status
    /\ write' = [write EXCEPT ![d] = NoWrite]
    /\ UNCHANGED <<live, others, call, ran>>
\* decide_action_confirmation: one conditional update, a no-op when it lost.
DecideWrites(d) ==
    LET w == write[d] IN
    /\ w.row # NoId
    /\ status' = IF w.row \in Live(w.from) THEN [status EXCEPT ![w.row] = w.to]
                                           ELSE status
    /\ write' = [write EXCEPT ![d] = NoWrite]
    /\ UNCHANGED <<live, others, call, ran>>

\* expires_at passes, for one confirmation or for a denial of another action.
Expires ==
    /\ Expiry
    /\ \/ /\ \E i \in live : live' = live \ {i}
          /\ UNCHANGED others
       \/ others > 0 /\ others' = others - 1 /\ UNCHANGED live
    /\ UNCHANGED <<status, call, write, ran>>

\* The user denies another action of the session.
OtherDenied ==
    /\ others < MaxOthers /\ others' = others + 1
    /\ UNCHANGED <<status, live, call, write, ran>>

Next ==
    \/ \E k \in Callers :
        \/ \E retry \in BOOLEAN : Call(k, retry)
        \/ Find(k) \/ Claim(k) \/ Refetch(k) \/ RunTool(k) \/ Count(k)
        \/ Dedup(k) \/ Insert(k) \/ Recheck(k) \/ Clear(k) \/ CallLost(k)
    \/ \E d \in Deciders : DecideWrites(d) \/ \E i \in Ids : DecideReads(d, i)
    \/ Expires \/ OtherDenied

Spec == Init /\ [][Next]_vars
-----------------------------------------------------------------------------
(* What the gate guarantees *)

\* Types of the stored confirmations and of the requests in progress
\* (ActionConfirmationRecord, ensure_confirmation).
TypeOK ==
    /\ status \in [Ids -> Status] /\ live \subseteq Ids \ Free
    /\ others \in 0 .. MaxOthers
    /\ call \in [Callers -> Called]
    /\ write \in [Deciders -> [row : Ids \cup {NoId}, from : {"pending", "denied"},
                               to : {"approved", "denied"}]]
    /\ ran \in [Ids -> Nat]

Runners(i) == {k \in Callers : call[k].pc = "running" /\ call[k].row = i}

\* However many calls find the same approval, one of them runs the tool, once,
\* and the approval is spent before it does (claim before execution).
ApprovalRunsOnce ==
    \A i \in Ids :
        /\ ran[i] + Cardinality(Runners(i)) <= 1
        /\ ran[i] + Cardinality(Runners(i)) > 0 => status[i] = "executed"

\* Racing calls for the same action never leave the user two open questions
\* (the lookup before the insert, backed by the unique index).
OnePrompt == Cardinality({i \in Ids : status[i] = "pending"}) <= 1

\* Refused prompts end: calls that had counted before the limit was reached may
\* each add one denial, and no call that starts later adds another.
OvershootIsBounded == Denials <= Retries + 1 + Cardinality(Callers)

\* Whatever is asked at the same time, the user sees one prompt for an action and
\* a bounded number of them after having refused it.
PromptsBounded == OnePrompt /\ OvershootIsBounded

Follows ==
    [free |-> {"pending"}, pending |-> {"approved", "denied", "expired"},
     denied |-> {"approved"}, approved |-> {"executed"},
     executed |-> {}, expired |-> {}]

\* A decision stands: it is made while the confirmation is live, a second
\* request that read "pending" cannot overwrite it, only an owner who saw the
\* denial reverses it, and an approval ends in nothing but its execution.
DecisionsStand ==
    [][\A i \in Ids : status[i] # status'[i] =>
            /\ status'[i] \in Follows[status[i]]
            /\ (status'[i] = "expired") = (status[i] # "free" /\ i \notin live)]_vars
=============================================================================
