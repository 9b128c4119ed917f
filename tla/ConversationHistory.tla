------------------------- MODULE ConversationHistory -------------------------
(***************************************************************************)
(* The messages a conversation keeps from turn to turn, what of them the   *)
(* next turn's model is given - the newest whole, the oldest condensed up  *)
(* to a boundary that is stored - and what its owner reads back.           *)
(***************************************************************************)
EXTENDS Integers, Sequences, SequencesExt

CONSTANTS
    Budget,      \* history_token_budget
    BlockShare,     \* the share of it the condensed block may take
    Target,      \* what a compaction cuts the rest back to
    Window,      \* CHAT_LLM_CONTEXT_MAX_MESSAGES
    MaxStored,      \* CHAT_MAX_PERSISTED_MESSAGES
    Sizes,       \* of a message; a line of the condensed block is 1
    MaxMessages  \* bound, for TLC

ASSUME HistoryAssumption ==
    /\ {Budget, BlockShare, Target, Window, MaxStored} \subseteq Nat \ {0}
    /\ BlockShare + Target < Budget /\ Sizes \subseteq 1 .. Target /\ MaxMessages \in Nat

VARIABLES
    kept,       \* messages of the checkpoint
    summary,    \* history_summary: the lines, and covers_through_id
    turn,       \* what the running turn answers: "none" when none runs
    given,      \* the model's context: lines, the rest, the boundary, and whether it moved
    next,       \* the id of the next message
    grown       \* history: how much was said since the boundary moved; -1 before

historyVars == <<kept, summary, turn, given, next, grown>>

\* Resumes and continuations are ephemeral; a failed answer is broken.
Hidden(m)    == m.is \in {"resume", "continue"}
Readable(m)  == m.is \notin {"resume", "continue", "broken"}
IsAnswer(m)  == m.is \in {"answer", "broken"}
Message(what, size) == [id |-> next, is |-> what, size |-> size]
SizeOf(S)    == SumFunctionOnSet([m \in S |-> m.size], S)
Total(ms)    == SizeOf(ToSet(ms))       \* ids differ, and with them the messages
Latest(s, n) == IF Len(s) > n THEN SubSeq(s, Len(s) - n + 1, Len(s)) ELSE s
Empty == [lines |-> <<>>, through |-> 0]
Nothing == [lines |-> <<>>, rest |-> <<>>, through |-> 0, moved |-> FALSE]
Ids(ms) == [i \in DOMAIN ms |-> ms[i].id]

HistoryInit ==
    /\ kept = <<>> /\ summary = Empty /\ turn = "none" /\ given = Nothing /\ next = 1 /\ grown = -1
-----------------------------------------------------------------------------
\* The boundary in what the window still holds; one that fell out is the start.
Covered(ms, s) ==
    IF \E i \in DOMAIN ms : ms[i].id = s.through
    THEN CHOOSE i \in DOMAIN ms : ms[i].id = s.through ELSE 0
After(ms, i) == SubSeq(ms, i + 1, Len(ms))
\* Mutant: it cuts only as far as the budget asks.
CutShort(ms, from) ==
    CHOOSE i \in from .. Len(ms) :
        /\ i >= Len(ms) - 1 \/ Total(After(ms, i)) <= Budget - BlockShare
        /\ \A j \in from .. i - 1 : j < Len(ms) - 1 /\ Total(After(ms, j)) > Budget - BlockShare
\* How far a compaction cuts: to the target, never past the newest message.
CutAt(ms, from) ==
    CHOOSE i \in from .. Len(ms) :
        /\ i >= Len(ms) - 1 \/ Total(After(ms, i)) <= Target
        /\ \A j \in from .. i - 1 : j < Len(ms) - 1 /\ Total(After(ms, j)) > Target
\* _compact_history.
Compact(ms, s) ==
    LET from == Covered(ms, s) IN
    IF Len(s.lines) + Total(After(ms, from)) <= Budget
    THEN [lines |-> s.lines, rest |-> After(ms, from), through |-> s.through, moved |-> FALSE]
    ELSE LET at == CutAt(ms, from)
             lines == Latest(s.lines \o Ids(SubSeq(ms, from + 1, at)), BlockShare)
         IN [lines |-> lines, rest |-> After(ms, at), moved |-> at # from,
             through |-> IF at = 0 THEN 0 ELSE ms[at].id]
\* _llm_context_with_summary.
ReadableOf(ms) ==
    LET upto[i \in 0 .. Len(ms)] ==
          IF i = 0 THEN <<>>
          ELSE IF Readable(ms[i]) THEN Append(upto[i - 1], ms[i]) ELSE upto[i - 1]
    IN  upto[Len(ms)]
InWindow(ms) == Latest(ReadableOf(ms), Window)

\* The owner's message, or the plumbing of a resume or of "Continue response". A
\* resume condenses for itself and stores nothing.
Begin(what, size) ==
    /\ turn = "none" /\ next <= MaxMessages
    /\ LET m == Message(what, size)
           ms == InWindow(Append(kept, m)) IN
       /\ kept' = Append(kept, m)
       /\ next' = next + 1
       /\ turn' = what
       /\ given' = Compact(ms, IF what = "resume" THEN Empty ELSE summary)
       /\ grown' = IF grown >= 0 /\ Readable(m) THEN grown + size ELSE grown
    /\ UNCHANGED summary

\* _trim_messages: the oldest go, and what is kept starts with a user turn.
Trimmed(ms) ==
    LET over == Len(ms) - MaxStored
        Starts(i) == i = Len(ms) - 1 \/ ~IsAnswer(ms[i + 1])
        first == CHOOSE i \in over .. Len(ms) - 1 :
                    Starts(i) /\ \A j \in over .. i - 1 : ~Starts(j)
    IN IF over <= 0 THEN ms ELSE After(ms, first)
\* The turn's message is added, and the boundary stored.
End(what, size) ==
    /\ turn # "none" /\ next <= MaxMessages
    /\ LET m == Message(what, size)
           stores == turn # "resume" /\ given.lines # <<>> IN
       /\ kept' = Trimmed(Append(kept, m))
       /\ next' = next + 1
       /\ summary' = IF stores THEN [lines |-> given.lines, through |-> given.through] ELSE summary
       /\ grown' = LET before == IF stores /\ given.moved THEN 0 ELSE grown
                   IN IF before >= 0 /\ Readable(m) THEN before + size ELSE before
    /\ turn' = "none" /\ given' = Nothing
\* A turn that fails leaves the message that opened it.
Fail == turn # "none" /\ turn' = "none" /\ given' = Nothing /\ UNCHANGED <<kept, summary, next, grown>>

HistoryNext ==
    \/ \E size \in Sizes : Begin("question", size) \/ End("answer", size)
    \/ \E what \in {"resume", "continue"} : Begin(what, 1)
    \/ End("broken", 1)
    \/ Fail
HistorySpec == HistoryInit /\ [][HistoryNext]_historyVars
-----------------------------------------------------------------------------
(* Reading back.                                                           *)

\* _collapse_ephemeral_continuations: each entry is the messages it shows, and a
\* continuation goes into the answer before it, or nowhere.
ShowOne(view, m) ==
    LET shown == view.shown IN
    IF Hidden(m) THEN [merge |-> view.merge \/ m.is = "continue", shown |-> shown]
    ELSE IF view.merge /\ IsAnswer(m)
    THEN [merge |-> FALSE,
          shown |-> IF shown # <<>> /\ IsAnswer(Last(Last(shown)))
                    THEN [shown EXCEPT ![Len(shown)] = Append(@, m)] ELSE shown]
    ELSE [merge |-> FALSE, shown |-> Append(shown, <<m>>)]
Transcript ==
    LET view[i \in 0 .. Len(kept)] ==
          IF i = 0 THEN [merge |-> FALSE, shown |-> <<>>] ELSE ShowOne(view[i - 1], kept[i])
    IN  view[Len(kept)].shown
-----------------------------------------------------------------------------
\* "Condensed rather than dropped": in a turn's context the lines and the messages
\* are in the order they were said, none is in both, the newest message stands
\* whole, and one that is missing had left the window or was shed by a full
\* block for newer ones.
Context == given.lines \o Ids(given.rest)
NothingIsLost ==
    turn \in {"question", "continue"} =>
        LET shown == ToSet(Context)
            readable == InWindow(kept) IN
        /\ \A i, j \in DOMAIN Context : i < j => Context[i] < Context[j]
        /\ readable # <<>> => Last(readable).id = Last(Context)
        /\ \A i \in DOMAIN readable :
              \/ readable[i].id \in shown
              \/ Len(given.lines) >= BlockShare /\ readable[i].id < given.lines[1]
\* A context is within the budget, or it is the newest message alone.
ContextFits == Len(given.lines) + Total(given.rest) <= Budget \/ Len(given.rest) = 1
\* "The boundary moves in chunks rather than on every turn".
MovesInChunks ==
    turn \in {"question", "continue"} /\ given.moved /\ grown >= 0 => grown > Budget - BlockShare - Target
\* The owner reads every message that is no plumbing, in its order and once; only
\* a continuation that lost its answer is left out, and the answer to a question
\* is an entry of its own.
TranscriptIsWhole ==
    LET shown == FlattenSeq(Transcript) IN
    /\ \A i, j \in DOMAIN shown : i < j => shown[i].id < shown[j].id
    /\ \A i \in DOMAIN kept :
          ~Hidden(kept[i]) => \/ \E j \in DOMAIN shown : shown[j] = kept[i]
                              \/ i > 1 /\ Hidden(kept[i - 1])
    /\ \A i \in 2 .. Len(kept) :
          kept[i - 1].is = "question" /\ IsAnswer(kept[i]) =>
              \E j \in DOMAIN Transcript : Transcript[j][1] = kept[i]
\* An answered turn leaves no more than the cap, and what is kept never begins with
\* an answer whose question is gone, unless the cap has room for the answer only.
KeptStartsWithTurn ==
    /\ kept # <<>> /\ IsAnswer(Last(kept)) => Len(kept) <= MaxStored
    /\ kept # <<>> /\ MaxStored > 1 => ~IsAnswer(kept[1])

HistoryInv ==
    NothingIsLost /\ ContextFits /\ MovesInChunks /\ TranscriptIsWhole /\ KeptStartsWithTurn
=============================================================================
