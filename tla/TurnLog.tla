------------------------------- MODULE TurnLog -------------------------------
(***************************************************************************)
(* The event log of one chat turn: the coordinating producer and the       *)
(* distributed plan steps that append batches to it, each through a        *)
(* publisher with a periodic flusher; the closing flush and the recorded   *)
(* end; the readers that tail it by pages; and the two other closers of    *)
(* the turn, the workflow's fallback and a successor's admission.          *)
(***************************************************************************)
EXTENDS Integers, Sequences

CONSTANTS
    Steps,      \* plan steps a batch may distribute
    Readers,    \* SSE streams that tail the turn
    Page,       \* batches per read (200)
    MaxParts,   \* bound, for TLC: parts a producer renders
    Turn        \* the coordinating publisher's name

ASSUME LogAssumption ==
    Page \in Nat \ {0} /\ MaxParts \in Nat /\ Turn \notin Steps

VARIABLES
    row,        \* chat_turns: status and last_seq ("none" before it is known)
    stop,       \* cancel_requested
    log,        \* chat_turn_events, by seq: batches
    pc,         \* where each publisher's owner is
    buf,        \* ChatTurnPublisher._buffer: the next batch of each publisher
    flusher,    \* its periodic flush task: "on", "dead" (raised), "off"
    lastSeq,    \* the coordinator's ChatTurnPublisher.last_seq
    outcome,    \* produce_turn's status
    settled,    \* steps whose fan-out result is in
    cursor, page, rpc, ended,       \* the readers
    got         \* history: the batches each reader has shown

writeVars == <<pc, buf, flusher, lastSeq, outcome, settled>>
readVars  == <<cursor, page, got, rpc, ended>>
vars == <<row, stop, log, writeVars, readVars>>

Writers == Steps \cup {Turn}
Unknown == -1                       \* last_seq is NULL
\* A publisher's parts are numbered as it renders them. A batch holds those from
\* after + 1 to upto, and the closing frames (text-end, finish) of an outcome when
\* it `closes` the turn.
Rest(w, n) == [by |-> w, after |-> n, upto |-> n, closes |-> "nothing"]
IsEmpty(b) == b.after = b.upto /\ b.closes = "nothing"
Exists == row.status # "gone"

Init ==
    /\ row = [status |-> "running", last |-> Unknown] /\ stop = FALSE /\ log = <<>>
    /\ pc = [w \in Writers |-> IF w = Turn THEN "driving" ELSE "unscheduled"]
    /\ buf = [w \in Writers |-> Rest(w, 0)]
    /\ flusher = [w \in Writers |-> IF w = Turn THEN "on" ELSE "off"]
    /\ lastSeq = 0 /\ outcome = "completed" /\ settled = {}
    /\ cursor = [r \in Readers |-> 0] /\ page = [r \in Readers |-> <<>>]
    /\ got = [r \in Readers |-> <<>>]
    /\ rpc = [r \in Readers |-> "polling"] /\ ended = [r \in Readers |-> "no"]
-----------------------------------------------------------------------------
(* Publishing.                                                             *)

\* publish: a rendered part is buffered.
Render(w) ==
    /\ pc[w] \in {"driving", "working"} /\ buf[w].upto < MaxParts
    /\ buf' = [buf EXCEPT ![w].upto = @ + 1]
    /\ UNCHANGED <<row, stop, log, pc, flusher, lastSeq, outcome, settled, readVars>>

\* _flush_locked over append_chat_turn_events: the row's lock numbers the batch,
\* and a batch for a turn that is gone is dropped.
Store(w) ==
    /\ log' = IF Exists /\ ~IsEmpty(buf[w]) THEN Append(log, buf[w]) ELSE log
    /\ buf' = [buf EXCEPT ![w] = Rest(w, @.upto)]
Flush(w) ==
    /\ Store(w)
    /\ lastSeq' = IF w = Turn /\ log' # log THEN Len(log') ELSE lastSeq

\* By the flusher, or by publish itself when the batch is full.
FlushSome(w) ==
    /\ flusher[w] = "on" \/ pc[w] \in {"driving", "working"}
    /\ ~IsEmpty(buf[w])
    /\ Flush(w)
    /\ UNCHANGED <<row, stop, pc, flusher, outcome, settled, readVars>>

\* An append that is cancelled, or whose answer is lost: the batch may be in the
\* log and the buffer still holds it.
Interrupted(w) ==
    \/ UNCHANGED log
    \/ Exists /\ ~IsEmpty(buf[w]) /\ log' = Append(log, buf[w])

\* A store error escapes _flush_loop: the task is over, unnoticed for now.
FlushFails(w) ==
    /\ flusher[w] = "on" /\ ~IsEmpty(buf[w])
    /\ Interrupted(w)
    /\ flusher' = [flusher EXCEPT ![w] = "dead"]
    /\ UNCHANGED <<row, stop, pc, buf, lastSeq, outcome, settled, readVars>>
-----------------------------------------------------------------------------
(* The coordinating turn: produce_turn.                                    *)

\* The dispatcher schedules a batch and waits for the fan-out's result.
FanOut ==
    /\ pc[Turn] = "driving"
    /\ \A s \in Steps : pc[s] = "unscheduled"
    /\ pc' = [w \in Writers |-> IF w = Turn THEN "waiting" ELSE "queued"]
    /\ UNCHANGED <<row, stop, log, buf, flusher, lastSeq, outcome, settled, readVars>>

FanOutReturns ==
    /\ pc[Turn] = "waiting" /\ settled = Steps
    /\ pc' = [pc EXCEPT ![Turn] = "driving"]
    /\ UNCHANGED <<row, stop, log, buf, flusher, lastSeq, outcome, settled, readVars>>

GraphEnds ==
    /\ pc[Turn] = "driving"
    /\ \E s \in {"completed", "failed"} : outcome' = s
    /\ pc' = [pc EXCEPT ![Turn] = "closing"]
    /\ UNCHANGED <<row, stop, log, buf, flusher, lastSeq, settled, readVars>>

\* Stopped, wherever the graph is: by the cancel watch, by an append that found
\* no turn, or by Temporal.  Cancelling the fan-out is asked for and not awaited.
GraphStopped ==
    /\ pc[Turn] \in {"driving", "waiting"}
    /\ Interrupted(Turn)
    /\ outcome' = "canceled"
    /\ pc' = [pc EXCEPT ![Turn] = "closing"]
    /\ UNCHANGED <<row, stop, buf, flusher, lastSeq, settled, readVars>>

\* The closing frames are published, then flushed for their sequence number.
PublishClosing ==
    /\ pc[Turn] = "closing"
    /\ buf' = [buf EXCEPT ![Turn].closes = outcome]
    /\ pc' = [pc EXCEPT ![Turn] = "flushing"]
    /\ UNCHANGED <<row, stop, log, flusher, lastSeq, outcome, settled, readVars>>

\* Mutant: the closing flush is left to __aexit__.
FlushClosingLate ==
    /\ pc[Turn] = "flushing"
    /\ pc' = [pc EXCEPT ![Turn] = "leaving"]
    /\ UNCHANGED <<row, stop, log, buf, flusher, lastSeq, outcome, settled, readVars>>
FlushClosing ==
    /\ pc[Turn] = "flushing"
    /\ Flush(Turn)
    /\ pc' = [pc EXCEPT ![Turn] = "leaving"]
    /\ UNCHANGED <<row, stop, flusher, outcome, settled, readVars>>

\* __aexit__ stops the flusher and flushes; what the flusher died of is raised
\* instead.  last_seq was taken before.
Leave ==
    /\ pc[Turn] = "leaving"
    /\ \/ /\ flusher[Turn] = "dead"
          /\ pc' = [pc EXCEPT ![Turn] = "raised"]
          /\ UNCHANGED <<log, buf>>
       \/ /\ flusher[Turn] = "on"
          /\ pc' = [pc EXCEPT ![Turn] = "recording"]
          /\ Store(Turn)
    /\ flusher' = [flusher EXCEPT ![Turn] = "off"]
    /\ UNCHANGED <<row, stop, lastSeq, outcome, settled, readVars>>

\* finish_chat_turn
CloseRow(s, last) ==
    row' = IF row.status = "running" THEN [status |-> s, last |-> last] ELSE row

Record ==
    /\ pc[Turn] = "recording"
    /\ CloseRow(outcome, lastSeq)
    /\ pc' = [pc EXCEPT ![Turn] = "returned"]
    /\ UNCHANGED <<stop, log, buf, flusher, lastSeq, outcome, settled, readVars>>

\* The worker dies, or a write of the closing sequence fails.
TurnDies ==
    /\ pc[Turn] \notin {"returned", "raised"}
    /\ pc' = [pc EXCEPT ![Turn] = "raised"]
    /\ flusher' = [flusher EXCEPT ![Turn] = "off"]
    /\ UNCHANGED <<row, stop, log, buf, lastSeq, outcome, settled, readVars>>
-----------------------------------------------------------------------------
(* A distributed step: run_distributed_step.                               *)

\* The step checks that the turn is still running before it does anything.
StepStarts(s) ==
    /\ pc[s] = "queued"
    /\ IF row.status = "running" /\ ~stop
       THEN /\ pc' = [pc EXCEPT ![s] = "working"]
            /\ flusher' = [flusher EXCEPT ![s] = "on"]
            /\ UNCHANGED settled
       ELSE /\ pc' = [pc EXCEPT ![s] = "ended"]
            /\ settled' = settled \cup {s}
            /\ UNCHANGED flusher
    /\ UNCHANGED <<row, stop, log, buf, lastSeq, outcome, readVars>>

\* The work is over, or the step's own watch saw the turn stopped.
StepLeaves(s) ==
    /\ pc[s] = "working"
    /\ Interrupted(s)
    /\ pc' = [pc EXCEPT ![s] = "leaving"]
    /\ UNCHANGED <<row, stop, buf, flusher, lastSeq, outcome, settled, readVars>>

\* What is queued and buffered is still published on the way out, unless the
\* flusher had died.
StepFlushes(s) ==
    /\ pc[s] = "leaving"
    /\ IF flusher[s] = "dead" THEN UNCHANGED <<log, buf>> ELSE Store(s)
    /\ pc' = [pc EXCEPT ![s] = "ended"]
    /\ flusher' = [flusher EXCEPT ![s] = "off"]
    /\ settled' = settled \cup {s}
    /\ UNCHANGED <<row, stop, lastSeq, outcome, readVars>>

\* Temporal settles the step without it: its worker is gone, or it is late.
StepTimesOut(s) ==
    /\ pc[s] \in {"queued", "working", "leaving"} /\ s \notin settled
    /\ settled' = settled \cup {s}
    /\ \/ pc' = [pc EXCEPT ![s] = "ended"] /\ flusher' = [flusher EXCEPT ![s] = "off"]
       \/ pc[s] # "queued" /\ UNCHANGED <<pc, flusher>>
    /\ UNCHANGED <<row, stop, log, buf, lastSeq, outcome, readVars>>
-----------------------------------------------------------------------------
(* Everyone else who writes the turn's row.                                *)

RequestStop ==
    /\ row.status = "running" /\ ~stop
    /\ stop' = TRUE
    /\ UNCHANGED <<row, log, writeVars, readVars>>

\* finalize_chat_turn knows no last_seq: it records none as zero.  It read the
\* row before it writes: a stop recorded in between goes unnoticed.
Fallback ==
    /\ row.status = "running"
    /\ \E s \in {"failed", "canceled"} : (s = "canceled" => stop) /\ CloseRow(s, 0)
    /\ UNCHANGED <<stop, log, writeVars, readVars>>

\* A repeat of the request finds too little of the claim left.
Expired ==
    /\ row.status = "running"
    /\ CloseRow("expired", 0)
    /\ UNCHANGED <<stop, log, writeVars, readVars>>

\* A successor retires a lapsed turn and leaves last_seq unset.  Its producer is
\* gone by then (ChatTurns!ProducerKeepsTurn).
Retired ==
    /\ row.status = "running" /\ pc[Turn] = "raised"
    /\ CloseRow("failed", Unknown)
    /\ UNCHANGED <<stop, log, writeVars, readVars>>

\* The sweep, or the deletion of the conversation.
Delete ==
    /\ Exists
    /\ row' = [status |-> "gone", last |-> Unknown] /\ log' = <<>>
    /\ UNCHANGED <<stop, writeVars, readVars>>
-----------------------------------------------------------------------------
(* Readers: tail_turn over read_chat_turn_events.                          *)

\* Mutant: pages that start at the cursor instead of after it.
ReadEventsAgain(r) ==
    /\ rpc[r] = "polling"
    /\ page' = [page EXCEPT ![r] = SubSeq(log, IF cursor[r] = 0 THEN 1 ELSE cursor[r],
                                              IF cursor[r] + Page < Len(log)
                                              THEN cursor[r] + Page ELSE Len(log))]
    /\ rpc' = [rpc EXCEPT ![r] = "paged"]
    /\ UNCHANGED <<row, stop, log, writeVars, cursor, got, ended>>
\* The events are read first...
ReadEvents(r) ==
    /\ rpc[r] = "polling"
    /\ page' = [page EXCEPT ![r] = SubSeq(log, cursor[r] + 1,
                                          IF cursor[r] + Page < Len(log)
                                          THEN cursor[r] + Page ELSE Len(log))]
    /\ rpc' = [rpc EXCEPT ![r] = "paged"]
    /\ UNCHANGED <<row, stop, log, writeVars, cursor, got, ended>>

Polls(r) ==
    /\ rpc' = [rpc EXCEPT ![r] = "polling"]
    /\ page' = [page EXCEPT ![r] = <<>>]
    /\ UNCHANGED ended
Ends(r, how) ==
    /\ ended' = [ended EXCEPT ![r] = how]
    /\ rpc' = [rpc EXCEPT ![r] = "done"]
    /\ page' = [page EXCEPT ![r] = <<>>]

\* Mutant: a reader that waits for a last_seq nobody recorded.
ReadStatusKnown(r) ==
    LET next == cursor[r] + Len(page[r]) IN
    /\ rpc[r] = "paged"
    /\ IF ~Exists THEN Ends(r, "gone") /\ UNCHANGED <<cursor, got>>
       ELSE /\ got' = [got EXCEPT ![r] = @ \o page[r]]
            /\ cursor' = [cursor EXCEPT ![r] = next]
            /\ IF row.status # "running" /\ row.last # Unknown /\ next >= row.last
               THEN Ends(r, row.status) ELSE Polls(r)
    /\ UNCHANGED <<row, stop, log, writeVars>>
\* ... then the status, so that the status cannot overtake the final batches.
\* It takes a closed turn and a cursor at its last_seq to end.
ReadStatus(r) ==
    LET next == cursor[r] + Len(page[r]) IN
    /\ rpc[r] = "paged"
    /\ IF ~Exists THEN Ends(r, "gone") /\ UNCHANGED <<cursor, got>>
       ELSE /\ got' = [got EXCEPT ![r] = @ \o page[r]]
            /\ cursor' = [cursor EXCEPT ![r] = next]
            /\ IF row.status # "running" /\ (row.last = Unknown \/ next >= row.last)
               THEN Ends(r, row.status) ELSE Polls(r)
    /\ UNCHANGED <<row, stop, log, writeVars>>
-----------------------------------------------------------------------------
TurnNext ==
    \/ FanOut \/ FanOutReturns \/ GraphEnds \/ GraphStopped
    \/ PublishClosing \/ FlushClosing \/ Leave \/ Record \/ TurnDies

Next ==
    \/ \E w \in Writers : Render(w) \/ FlushSome(w) \/ FlushFails(w)
    \/ TurnNext
    \/ \E s \in Steps : StepStarts(s) \/ StepLeaves(s) \/ StepFlushes(s) \/ StepTimesOut(s)
    \/ RequestStop \/ Fallback \/ Expired \/ Retired \/ Delete
    \/ \E r \in Readers : ReadEvents(r) \/ ReadStatus(r)

Spec == Init /\ [][Next]_vars

\* A reader polls for as long as its client listens.
FairSpec == Spec /\ \A r \in Readers : WF_vars(ReadEvents(r)) /\ WF_vars(ReadStatus(r))
-----------------------------------------------------------------------------
Ended == {"completed", "failed", "canceled", "expired"}
Batches == [by : Writers, after : Nat, upto : 0..MaxParts,
            closes : {"nothing"} \cup Ended]
Points == {"driving", "waiting", "closing", "flushing", "leaving", "recording", "returned",
           "raised", "unscheduled", "queued", "working", "ended"}

TypeOK ==
    /\ row \in [status : Ended \cup {"running", "gone"}, last : Int]
    /\ row.last >= Unknown
    /\ stop \in BOOLEAN /\ outcome \in Ended /\ settled \subseteq Steps
    /\ pc \in [Writers -> Points]
    /\ flusher \in [Writers -> {"on", "dead", "off"}]
    /\ buf \in [Writers -> Batches]
    /\ \A w \in Writers : buf[w].by = w /\ buf[w].after <= buf[w].upto
    /\ log \in Seq(Batches) /\ lastSeq \in Nat
    /\ cursor \in [Readers -> Nat] /\ rpc \in [Readers -> {"polling", "paged", "done"}]
    /\ page \in [Readers -> Seq(Batches)] /\ got \in [Readers -> Seq(Batches)]
    /\ ended \in [Readers -> {"no", "gone"} \cup Ended]

\* What a reader has shown is the log's beginning: no batch twice, none missed,
\* none out of order, whoever appended in the meantime.
ReaderHasPrefix ==
    \A r \in Readers : Exists =>
        /\ cursor[r] <= Len(log)
        /\ got[r] = SubSeq(log, 1, cursor[r])

\* The coordinator's batches of a sequence.
Mine(s) == {i \in DOMAIN s : s[i].by = Turn}
\* They hold its first n parts in order, none twice...
InOrder(s, n) ==
    /\ \A i, j \in Mine(s) : i < j => s[i].upto <= s[j].after
    /\ \A k \in 1..n : \E i \in Mine(s) : s[i].after < k /\ k <= s[i].upto
\* ... and the closing frames come in the last of them only.
ClosesLast(s) ==
    /\ \E i \in Mine(s) : s[i].closes = "completed"
    /\ \A i, j \in Mine(s) : i < j => s[i].closes = "nothing"

\* A reader that ended on a completed turn has the whole answer: every part the
\* coordinator rendered, in order, and the closing frames after them.
CompletedIsWhole ==
    \A r \in Readers : ended[r] = "completed" =>
        InOrder(got[r], buf[Turn].upto) /\ ClosesLast(got[r])

\* A reader is not left waiting: once the turn is closed or gone, whoever closed
\* it, every reader comes to an end.
ReadersEnd == \A r \in Readers : row.status # "running" ~> rpc[r] = "done"
=============================================================================
