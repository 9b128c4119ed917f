---------------------------- MODULE ContextWindow ----------------------------
(***************************************************************************)
(* The messages of one model call, and how they are cut to a size: the     *)
(* oldest go, an assistant message together with the results of its calls, *)
(* and one condensed message keeps a line for each call that went.         *)
(***************************************************************************)
EXTENDS Integers, Sequences, FiniteSets, SequencesExt

CONSTANTS
    MaxLines,   \* lines of the condensed message at its floor of 200 characters
    Caps        \* sizes a call may be cut to

ASSUME WindowAssumption == MaxLines \in Nat \ {0} /\ Caps \subseteq Nat \ {0}

\* is: what a human message says, "calls" lists the calls an assistant message
\* makes, the one a result answers, or the lines of the condensed message.
Human(what)   == [role |-> "human", is |-> what, calls |-> <<>>]
Says(calls)   == [role |-> "ai", is |-> "said", calls |-> calls]
Result(call)  == [role |-> "tool", is |-> "result", calls |-> <<call>>]
Digest(lines) == [role |-> "human", is |-> "digest", calls |-> lines]
Note == [n |-> 0, i |-> 0, key |-> "note"]      \* a line for an answer, not a call

\* A result is as large as two other messages, the condensed one as one.
Weight(m) == IF m.role = "tool" THEN 2 ELSE 1
DigestWeight == 1
Size(ms) == FoldLeft(LAMBDA sum, m : sum + Weight(m), 0, ms)
Assistants(ms) == Cardinality({i \in DOMAIN ms : ms[i].role = "ai"})

LinesOf(m) ==
    IF m.is = "digest" THEN m.calls
    ELSE IF m.role # "ai" THEN <<>>
    ELSE IF m.calls = <<>> THEN <<Note>> ELSE m.calls
\* The oldest lines are shed.
Newest(lines) ==
    SubSeq(lines, IF Len(lines) > MaxLines THEN Len(lines) - MaxLines + 1 ELSE 1, Len(lines))
Condensed(dropped) ==
    LET lines == FlattenSeq([i \in DOMAIN dropped |-> LinesOf(dropped[i])]) IN
    IF lines = <<>> THEN <<>> ELSE <<Digest(Newest(lines))>>

\* Where the head may be cut off: never between a call and its results.
CutPoints(ms, head) ==
    {i \in head .. Len(ms) : i \in {head, Len(ms)} \/ ms[i + 1].role # "tool"}
KeptHead(ms) == IF ms[1].role = "human" /\ ms[1].is # "digest" THEN 1 ELSE 0

\* _trim_inner_loop_messages.
Trim(ms, cap) ==
    IF Len(ms) <= 4 \/ Size(ms) <= cap THEN ms
    ELSE LET head == KeptHead(ms)
             Rest(i) == SubSeq(ms, i + 1, Len(ms))
             Enough(i) == \/ i = Len(ms) \/ Assistants(Rest(i)) <= 1
                          \/ Size(SubSeq(ms, 1, head)) + Size(Rest(i)) <= cap - DigestWeight
             cut == CHOOSE i \in CutPoints(ms, head) :
                       /\ Enough(i)
                       /\ \A j \in CutPoints(ms, head) : Enough(j) => i <= j
         IN SubSeq(ms, 1, head) \o Condensed(SubSeq(ms, head + 1, cut)) \o Rest(cut)

\* What one call may be asked with: the window may be smaller than the loop's own
\* cap, and a request the provider refuses is cut once more and sent again.
Fitted(ms) ==
    LET fitted == {ms} \cup {Trim(ms, c) : c \in Caps} IN
    fitted \cup {Trim(f, c) : f \in fitted, c \in Caps}
-----------------------------------------------------------------------------
\* Every assistant message is followed by one result for each of its calls, and
\* no result stands without its call: the form every provider insists on.
Paired(ms) ==
    /\ \A i \in DOMAIN ms : ms[i].role = "tool" => i > 1 /\ ms[i - 1].role # "human"
    /\ \A i \in DOMAIN ms : ms[i].role = "ai" =>
          LET k == Len(ms[i].calls) IN
          /\ i + k <= Len(ms)
          /\ \A j \in 1 .. k : ms[i + j] = Result(ms[i].calls[j])
          /\ i + k < Len(ms) => ms[i + k + 1].role # "tool"

\* The calls that can still be told: a result, or a line.
Told(ms) ==
    LET Tells(m) == m.role = "tool" \/ m.is = "digest"
    IN (UNION {ToSet(ms[i].calls) : i \in {j \in DOMAIN ms : Tells(ms[j])}}) \ {Note}
LineRoom(ms) ==
    \A i \in DOMAIN ms : ms[i].is = "digest" => Len(ms[i].calls) < MaxLines
=============================================================================
