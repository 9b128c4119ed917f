------------------------------ MODULE AgentLoop ------------------------------
(***************************************************************************)
(* One turn of the single agent: it asks the model, runs the tools and     *)
(* skills the model calls, cuts the growing context, and ends with one     *)
(* message that is shown and stored.  The model may answer anything, the   *)
(* budget may end at any call.                                             *)
(***************************************************************************)
EXTENDS ContextWindow

CONSTANTS
    Skills, Tools,      \* what the model may call, arguments included
    Unlocks,            \* the tools a rendered skill discloses
    Always,             \* tools disclosed from the start
    MaxActions,         \* CHAT_LLM_MAX_AUTO_ACTIONS
    MaxContinuations,   \* CHAT_LLM_MAX_CONTINUATIONS
    Unknown,            \* a call of something that is not offered
    Histories           \* older exchanges the conversation has

ASSUME AgentAssumption ==
    /\ MaxActions \in Nat \ {0} /\ MaxContinuations \in Nat /\ Histories \subseteq Nat
    /\ Unlocks \in [Skills -> SUBSET Tools] /\ Always \subseteq Tools

VARIABLES
    point,      \* "ask", "synthesis", "extend", "done" or "failed"
    older,      \* exchanges before this turn
    ctx,        \* messages
    disclosed,       \* disclosed_tool_names and the always disclosed
    acted,      \* action_summaries is not empty
    actions,    \* action_count
    used,       \* one-shot retries taken
    told,       \* history: the calls that ran, in their order
    streamed,   \* streamed_response
    answer,     \* response
    cut,        \* finish_reason says the output limit
    broken,     \* response_is_broken
    loops,      \* continuations asked for
    wire,       \* history: text the reader was sent
    since,      \* history: how much of it before the first action
    asks        \* history: model calls

textVars  == <<streamed, answer, wire>>
agentVars == <<point, older, ctx, disclosed, acted, actions, used, told, cut, broken, loops, since, asks, textVars>>

Callable == Skills \cup Tools \cup {Unknown}
\* What a call of the model can come back with. Only a call after an action is
\* offered respond_to_user; its argument may be empty.
Reply ==
    {r \in [text : BOOLEAN, cut : BOOLEAN, leaks : BOOLEAN,
            calls : UNION {[1 .. k -> Callable] : k \in 0 .. 2}, finish : {"no", "empty", "full"}] :
        /\ r.leaks => r.calls = <<>> /\ r.finish = "no"
        /\ r.cut => r.calls = <<>> /\ ~r.leaks}
\* A piece of text, by the call that wrote it.
Prose(n)  == <<"prose", n>>
Said(what) == <<<<what, 0>>>>

AgentInit ==
    /\ older \in Histories
    /\ \E memory \in {<<>>, <<Human("memory")>>} :
          ctx = FlattenSeq([i \in 1 .. older |-> <<Human("old"), Says(<<>>)>>])
                   \o <<Human("question")>> \o memory
    /\ point = "ask" /\ disclosed = Always /\ acted = FALSE /\ actions = 0 /\ used = {}
    /\ told = <<>> /\ streamed = <<>> /\ answer = <<>> /\ cut = FALSE /\ broken = FALSE
    /\ loops = 0 /\ wire = <<>> /\ since = 0 /\ asks = 0
-----------------------------------------------------------------------------
\* Before an action the text streams as it comes, afterwards it is held back.
Streams(r) ==
    /\ asks' = asks + 1
    /\ streamed' = IF r.text /\ ~acted THEN <<Prose(asks')>> ELSE <<>>
Shown == wire \o streamed'

\* finalize_assistant_message: what is stored is made to match what was streamed.
Finalize(text, before) ==
    IF IsPrefix(streamed', text)
    THEN /\ answer' = text
         /\ wire' = before \o SubSeq(text, Len(streamed') + 1, Len(text))
    ELSE answer' = streamed' \o text /\ wire' = before \o text
Ends(text, before, isBroken) ==
    /\ Finalize(text, before) /\ point' = "done" /\ broken' = isBroken

Stays == UNCHANGED <<older, ctx, disclosed, actions, told, cut, loops, since>>
\* A retry that was not taken yet asks the model once more.
Retry(which) ==
    /\ which \notin used
    /\ used' = used \cup {which} /\ wire' = Shown
    /\ Stays /\ UNCHANGED <<point, acted, answer, broken>>

\* Tool-call markup written as text: asked again once, then the turn degrades.
Leak(r) ==
    /\ r.leaks /\ Streams(r)
    /\ \/ Retry("markup")
       \/ /\ "markup" \in used /\ Ends(Said("markup fallback"), Shown, TRUE)
          /\ Stays /\ UNCHANGED <<acted, used>>

Offered(k) == k \in Skills \cup disclosed
\* One call of something not offered blocks the whole reply.
Unavailable(r) ==
    /\ ~r.leaks /\ Streams(r)
    /\ \/ \E i \in DOMAIN r.calls : ~Offered(r.calls[i])
       \/ r.finish # "no" /\ ~acted
    /\ acted' = TRUE /\ since' = IF acted THEN since ELSE Len(Shown)
    /\ Ends(Said("blocked"), Shown, FALSE)
    /\ UNCHANGED <<older, ctx, disclosed, actions, told, cut, loops, used>>

Requested(r) ==
    /\ ~r.leaks /\ (r.finish # "no" => acted)
    /\ \A i \in DOMAIN r.calls : Offered(r.calls[i])

\* No call: an answer, a stall, or nothing.
Answers(r) ==
    /\ Requested(r) /\ r.calls = <<>>
    /\ r.text \/ r.finish = "full"
    /\ ~(acted /\ r.finish = "no" /\ "stall" \notin used)
    /\ asks' = asks + 1
    /\ streamed' = <<Prose(asks')>>
    /\ answer' = streamed' /\ wire' = Shown
    /\ point' = "extend" /\ cut' = r.cut
    /\ UNCHANGED <<older, ctx, disclosed, acted, actions, used, told, broken, loops, since>>
\* Plain text after an action, instead of respond_to_user.
Stall(r) ==
    /\ Requested(r) /\ r.calls = <<>> /\ r.finish = "no" /\ r.text /\ acted
    /\ Streams(r) /\ Retry("stall")
SaysNothing(r) ==
    /\ Requested(r) /\ r.calls = <<>> /\ ~r.text /\ r.finish # "full" /\ Streams(r)
    /\ \/ /\ acted /\ point' = "synthesis" /\ wire' = Shown
          /\ Stays /\ UNCHANGED <<acted, used, answer, broken>>
       \/ ~acted /\ Retry("empty")
       \/ /\ ~acted /\ "empty" \in used /\ Ends(Said("empty fallback"), Shown, TRUE)
          /\ Stays /\ UNCHANGED <<acted, used>>
-----------------------------------------------------------------------------
\* The calls of a reply, as many as the turn may still run, and new ones only.
Ran(k) == \E i \in DOMAIN told : told[i].key = k
Allowed(r) ==
    LET n == IF Len(r.calls) < MaxActions - actions THEN Len(r.calls) ELSE MaxActions - actions
    IN [i \in 1 .. n |-> [n |-> asks + 1, i |-> i, key |-> r.calls[i]]]
Batch(r) ==
    LET calls == Allowed(r)
        upto[i \in 0 .. Len(calls)] ==
          IF i = 0 THEN <<>>
          ELSE IF Ran(calls[i].key) THEN upto[i - 1] ELSE Append(upto[i - 1], calls[i])
    IN  upto[Len(calls)]

Repeats(r) ==
    /\ Requested(r) /\ r.calls # <<>> /\ Batch(r) = <<>> /\ Streams(r)
    /\ \/ Retry("repeat")
       \/ /\ "repeat" \in used /\ Ends(Said("repeat fallback"), Shown, TRUE)
          /\ Stays /\ UNCHANGED <<acted, used>>

\* Mutant: the reply goes back with every call it made.
CallsAll(r, batch) == [i \in DOMAIN r.calls |-> [n |-> asks + 1, i |-> i, key |-> r.calls[i]]]
\* _ai_message_for_tool_results: only the calls that got a result stay.
CallsKept(r, batch) == batch
Exchange(r, batch) ==
    <<Says(CallsKept(r, batch))>> \o [i \in DOMAIN batch |-> Result(batch[i])]
\* The batch runs in parallel; a result may be blocked (approval, sign-in,
\* permission, input), and then the turn ends.
RunBatch(r) ==
    LET batch == Batch(r) IN
    /\ Requested(r) /\ batch # <<>> /\ Streams(r)
    /\ acted' = TRUE /\ actions' = actions + Len(batch)
    /\ told' = told \o batch
    /\ since' = IF acted THEN since ELSE Len(Shown)
    /\ \E c \in Caps : ctx' = Trim(ctx \o Exchange(r, batch), c)
    /\ \/ /\ Ends(Said("blocked"), Shown, FALSE) /\ UNCHANGED disclosed
       \/ /\ disclosed' = disclosed \cup UNION {Unlocks[batch[i].key] : i \in {j \in DOMAIN batch : batch[j].key \in Skills}}
          /\ point' = IF actions' < MaxActions THEN "ask" ELSE "synthesis"
          /\ wire' = Shown /\ UNCHANGED <<answer, broken>>
    /\ UNCHANGED <<older, cut, loops, used>>
-----------------------------------------------------------------------------
Holds == UNCHANGED <<older, ctx, disclosed, acted, actions, used, told, since>>
\* The run budget refuses the call. The reserve is kept for the synthesis.
Exhausted ==
    /\ point = "ask" /\ UNCHANGED streamed
    /\ \/ /\ acted /\ point' = "synthesis" /\ UNCHANGED <<answer, wire, broken>>
       \/ ~acted /\ Ends(Said("empty fallback"), wire, TRUE)
    /\ Holds /\ UNCHANGED <<cut, loops, asks>>

\* The synthesis, and once more when the draft copied the action transcript.
WriteSynthesis(text, again) ==
    /\ point = "synthesis"
    /\ asks' = asks + (IF again THEN 2 ELSE 1)
    /\ streamed' = IF text THEN <<Prose(asks')>> ELSE <<>>
    /\ \/ /\ text /\ answer' = streamed' /\ wire' = Shown
          /\ point' = "extend" /\ cut' \in BOOLEAN /\ UNCHANGED broken
       \/ ~text /\ Ends(Said("work fallback"), wire, TRUE) /\ UNCHANGED cut
    /\ Holds /\ UNCHANGED loops
\* Even the reserve is gone.
ReserveGone ==
    /\ point = "synthesis" /\ UNCHANGED streamed
    /\ Ends(Said("work fallback"), wire, TRUE)
    /\ Holds /\ UNCHANGED <<cut, loops, asks>>

Continuation == ctx \o <<Says(<<>>), Human("continue")>>
\* _auto_continue_answer: an answer the limit cut is extended.
Extend(more) ==
    /\ point = "extend" /\ cut /\ loops < MaxContinuations
    /\ loops' = loops + 1 /\ asks' = asks + 1 /\ cut' = more
    /\ streamed' = Append(streamed, Prose(asks')) /\ answer' = Append(answer, Prose(asks'))
    /\ wire' = Append(wire, Prose(asks'))
    /\ Holds /\ UNCHANGED <<point, broken>>
\* It is whole, or no more of it is coming: nothing was added, the budget or the
\* longest answer is reached.
Deliver ==
    /\ point = "extend" /\ UNCHANGED <<streamed, asks>>
    /\ Ends(IF cut THEN answer \o Said("cut notice") ELSE answer, wire, FALSE)
    /\ Holds /\ UNCHANGED <<cut, loops>>
\* Any other error of the provider ends the turn without a message.
ProviderFails ==
    /\ point \in {"ask", "synthesis", "extend"} /\ (point = "extend" => cut)
    /\ point' = "failed"
    /\ Holds /\ UNCHANGED <<textVars, cut, broken, loops, asks>>

Replied ==
    /\ point = "ask"
    /\ \E r \in Reply :
          Leak(r) \/ Unavailable(r) \/ Answers(r) \/ Stall(r) \/ SaysNothing(r) \/ Repeats(r) \/ RunBatch(r)
AgentNext ==
    \/ Replied \/ Exhausted \/ ReserveGone \/ Deliver \/ ProviderFails
    \/ \E b, again \in BOOLEAN : WriteSynthesis(b, again)
    \/ \E more \in BOOLEAN : Extend(more)
AgentSpec == AgentInit /\ [][AgentNext]_agentVars
-----------------------------------------------------------------------------
\* What a model call may be asked with is well formed, keeps the newest exchange,
\* and loses no call that ran before the condensed message is full: "a digest
\* keeps the finding".
Sound(ms) ==
    /\ Paired(ms)
    /\ \E i \in 0 .. Len(told) :
          /\ Told(ms) = ToSet(SubSeq(told, i + 1, Len(told)))
          /\ i > 0 => ~LineRoom(ms)
RequestsHold ==
    /\ \A ms \in Fitted(ctx) :
          /\ Sound(ms)
          /\ told # <<>> => \E j \in DOMAIN ms : ms[j] = Result(Last(told))
    /\ point = "extend" => \A ms \in Fitted(Continuation) : Sound(ms)
\* No action is run again by a later reply.
NothingRunsAgain ==
    \A i, j \in DOMAIN told : told[i].key = told[j].key => told[i].n = told[j].n
\* The loop ends: each call of the model runs an action or takes a retry.
AsksBounded == asks <= MaxActions + 4 + 2 + MaxContinuations
\* What is stored is what the reader has seen last, and nothing shown after the
\* first action is left out: "we never ship un-retractable text".
StoredIsShown ==
    point = "done" => /\ answer # <<>> /\ IsSuffix(answer, wire)
                      /\ acted => Len(answer) >= Len(wire) - since
\* In the first turn of a conversation the question is in every request.
FirstQuestionKept == older = 0 => \A ms \in Fitted(ctx) : ms[1] = Human("question")

AgentInv == RequestsHold /\ NothingRunsAgain /\ AsksBounded /\ StoredIsShown /\ FirstQuestionKept

\* _trim_inner_loop_messages: "keeping the user's original turn at index 0 ...
\* and the most recent tool exchange intact".
QuestionKept ==
    point \in {"ask", "synthesis"} => \A ms \in Fitted(ctx) : \E i \in DOMAIN ms : ms[i] = Human("question")
=============================================================================
