------------------------- MODULE ConversationProofs -------------------------
(***************************************************************************)
(* Proofs about ChatTurns, for every number of turns and requests and for  *)
(* every value of the durations that satisfies TimingAssumption; and about *)
(* SessionRetirement: what holds of the turns still holds while            *)
(* conversations are deleted, and nothing is torn down under a turn or     *)
(* before its record may go, for any number of requests, sweeps and turns, *)
(* wherever a call fails.                                                  *)
(***************************************************************************)
EXTENDS SessionRetirement, TLAPS

(* The durations are what the type invariant takes them for.               *)
LEMMA LeaseIsNat == Lease \in Nat /\ Margin \in Nat
BY TimingAssumption, SMT DEF Lease, Margin, Larger

\* A workflow is sized so that it is over one buffer before the claim it runs
\* under lapses: chat_turn_execution_bound_seconds.
LEMMA BoundLeavesTheBuffer ==
    ASSUME NEW claim \in Nat, now \in Nat
    PROVE  /\ ExecutionBound(claim) \in Int
           /\ now + ExecutionBound(claim) <= claim - CancelBuffer
BY LeaseIsNat, TimingAssumption, SMT DEF ExecutionBound, Smaller

-----------------------------------------------------------------------------
\* finish_chat_turn keeps the columns it writes in their types.
LEMMA FinishTypes ==
  ASSUME TypeOK, NEW t, NEW s \in Terminal, NEW who \in Closers, Finish(t, s, who)
  PROVE  status' \in [Turns -> Status] /\ expires' \in [Turns -> Nat]
         /\ closer' \in [Turns -> Closers]
BY TimingAssumption, SMT DEF TypeOK, Finish, Status

\* The initial state is well-typed, and every step keeps it so.
LEMMA TypeInit == Init => TypeOK
BY AbsentAssumption, SMT DEF Init, TypeOK, ActPoint, Request, IdleReq, Serving, Closers, Status, Terminal

\* Every step keeps the types.
LEMMA TypeNext == TypeOK /\ [Next]_vars => TypeOK'
<1> SUFFICES ASSUME TypeOK, [Next]_vars PROVE TypeOK'
  OBVIOUS
<1> USE TimingAssumption, LeaseIsNat
        DEF TypeOK, ActPoint, Request, clockVars, sessionVars, rowVars, wfVars, actVars
<1>1. ASSUME NEW r \in Requests, RequestNext(r) PROVE TypeOK'
  <2>1. ASSUME NEW k \in Keys, NEW t \in Turns, AdmitExisting(r, k, t) PROVE TypeOK'
    BY <2>1, SMT DEF AdmitExisting, Serving
  <2>2. ASSUME NEW k \in Keys, NEW t \in Turns, AdmitNew(r, k, t) PROVE TypeOK'
    BY <2>2, SMT DEF AdmitNew, Serving, Status, Terminal, Closers
  <2>3. CASE EnsureExpired(r)
    <3>1. /\ status' \in [Turns -> Status] /\ expires' \in [Turns -> Nat]
          /\ closer' \in [Turns -> Closers]
      BY <2>3, FinishTypes, SMT DEF EnsureExpired, Terminal, Closers
    <3>2. req' \in [Requests -> Request]
      BY <2>3, SMT DEF EnsureExpired, IdleReq, Serving
    <3> QED BY <2>3, <3>1, <3>2, SMT DEF EnsureExpired
  <2>4. CASE EnsureSized(r)
    <3>1. ExecutionBound(req[r].claim) \in Nat
      BY <2>4, BoundLeavesTheBuffer, SMT DEF EnsureSized
    <3> QED BY <2>4, <3>1, SMT DEF EnsureSized, Serving
  <2>5. CASE StartWorkflow(r)
    <3>1. req[r].turn \in Turns \cup {NoTurn} /\ req[r].left \in Nat
      BY <1>1, SMT
    <3>2. req' \in [Requests -> Request]
      BY <2>5, SMT DEF StartWorkflow, IdleReq, Serving
    <3>3. CASE wf[req[r].turn] = "none"
      <4>1. now + req[r].left \in Nat
        BY <3>1, SMT
      <4>2. wf' \in [Turns -> {"none", "running", "finalizing", "closed"}]
        BY <2>5, <3>3, SMT DEF StartWorkflow
      <4>3. deadline' \in [Turns -> Nat] /\ act' \in [Turns -> ActPoint]
        BY <2>5, <3>3, <4>1, SMT DEF StartWorkflow
      <4>4. \A t \in Turns : act'[t] = "closing" => outcome'[t] # "none"
        BY <2>5, <3>3, SMT DEF StartWorkflow
      <4> QED BY <2>5, <3>2, <4>2, <4>3, <4>4 DEF StartWorkflow
    <3>4. CASE wf[req[r].turn] # "none"
      BY <2>5, <3>2, <3>4, SMT DEF StartWorkflow
    <3> QED BY <3>3, <3>4
  <2>6. CASE HandoffFails(r)
    BY <2>6, SMT DEF HandoffFails, IdleReq, Serving
  <2> QED BY <1>1, <2>1, <2>2, <2>3, <2>4, <2>5, <2>6 DEF RequestNext
<1>2. ASSUME NEW t \in Turns, ActivityNext(t) PROVE TypeOK'
  <2>1. CASE PickUp(t)
    BY <2>1, SMT DEF PickUp, AttemptEnds
  <2>2. CASE CheckOwner(t)
    BY <2>2, SMT DEF CheckOwner, AttemptEnds
  <2>3. CASE GraphEnds(t)
    BY <2>3, SMT DEF GraphEnds, Supervised
  <2>4. CASE WatchStops(t)
    BY <2>4, SMT DEF WatchStops, Supervised
  <2>5. CASE HearCancel(t)
    BY <2>5, SMT DEF HearCancel, Supervised, AttemptEnds
  <2>6. CASE Close(t)
    BY <2>6, SMT DEF Close, Finish, AttemptEnds, Status, Terminal, Closers
  <2>7. CASE ActivityDies(t)
    BY <2>7, SMT DEF ActivityDies, AttemptEnds
  <2> QED BY <1>2, <2>1, <2>2, <2>3, <2>4, <2>5, <2>6, <2>7 DEF ActivityNext
<1>3. ASSUME NEW t \in Turns, WorkflowNext(t) PROVE TypeOK'
  <2>1. CASE CancelWorkflow(t)
    BY <2>1, SMT DEF CancelWorkflow, Abandon
  <2>2. CASE ActivityTimesOut(t)
    BY <2>2, SMT DEF ActivityTimesOut, Abandon
  <2>3. CASE ActivityResult(t)
    BY <2>3, SMT DEF ActivityResult, WorkflowCloses
  <2>4. CASE Finalize(t)
    BY <2>4, SMT DEF Finalize, WorkflowCloses, Finish, Status, Terminal, Closers
  <2>5. CASE FinalizeFails(t)
    BY <2>5, SMT DEF FinalizeFails, WorkflowCloses
  <2>6. CASE WorkflowTimesOut(t)
    BY <2>6, SMT DEF WorkflowTimesOut, Abandon
  <2> QED BY <1>3, <2>1, <2>2, <2>3, <2>4, <2>5, <2>6 DEF WorkflowNext
<1>4. ASSUME NEW t \in Turns, RequestStop(t) PROVE TypeOK'
  BY <1>4, SMT DEF RequestStop
<1>5. ASSUME NEW t \in Turns, SweepDeletes(t) PROVE TypeOK'
  BY <1>5, SMT DEF SweepDeletes, Status
<1>6. CASE SweepLists
  BY <1>6, SMT DEF SweepLists
<1>7. CASE Tick
  BY <1>7, SMT DEF Tick
<1>8. CASE UNCHANGED vars
  BY <1>8, SMT DEF vars
<1> QED BY <1>1, <1>2, <1>3, <1>4, <1>5, <1>6, <1>7, <1>8 DEF Next

\* Every step of every actor keeps the rows, the workflows and the requests in
\* the shapes the code expects, whatever the durations.
THEOREM TypeCorrect == Spec => []TypeOK
BY TypeInit, TypeNext, PTL DEF Spec
-----------------------------------------------------------------------------
\* The claim invariant holds at first, and every step keeps it.
LEMMA ClaimInit == Init => ClaimInv
BY SMT DEF Init, ClaimInv, RequestKnowsClaim, WorkflowInsideClaim, ActivityInsideClaim,
           RowClosesOnce, Open, Alive, IdleReq, Serving

\* Every step keeps what a claim stands for.
LEMMA ClaimNext == TypeOK /\ ClaimInv /\ [Next]_vars => ClaimInv'
<1> SUFFICES ASSUME TypeOK, ClaimInv, [Next]_vars PROVE ClaimInv'
  OBVIOUS
<1> USE TimingAssumption, AbsentAssumption, LeaseIsNat
        DEF TypeOK, ActPoint, Request, clockVars, sessionVars, rowVars, wfVars, actVars,
            ClaimInv, RequestKnowsClaim, WorkflowInsideClaim, ActivityInsideClaim,
            RowClosesOnce, Open, Alive
<1>1. ASSUME NEW r \in Requests, RequestNext(r) PROVE ClaimInv'
  <2>1. ASSUME NEW k \in Keys, NEW t \in Turns, AdmitExisting(r, k, t) PROVE ClaimInv'
    BY <2>1, SMT DEF AdmitExisting, Serving
  <2>2. ASSUME NEW k \in Keys, NEW t \in Turns, AdmitNew(r, k, t) PROVE ClaimInv'
    BY <2>2, SMT DEF AdmitNew, Lapsed, HasRow, Serving
  <2>3. CASE EnsureExpired(r)
    BY <2>3, SMT DEF EnsureExpired, Finish, IdleReq, Serving
  <2>4. CASE EnsureSized(r)
    <3>1. /\ ExecutionBound(req[r].claim) \in Nat
          /\ now + ExecutionBound(req[r].claim) <= req[r].claim - CancelBuffer
      BY <2>4, BoundLeavesTheBuffer, SMT DEF EnsureSized
    <3>2. ASSUME NEW q \in Requests PROVE RequestKnowsClaim(q)'
      BY <2>4, <3>1, SMTT(30) DEF EnsureSized, Serving
    <3> QED BY <2>4, <3>2, SMT DEF EnsureSized
  <2>5. CASE StartWorkflow(r)
    BY <2>5, SMT DEF StartWorkflow, IdleReq, Serving
  <2>6. CASE HandoffFails(r)
    BY <2>6, SMT DEF HandoffFails, IdleReq, Serving
  <2> QED BY <1>1, <2>1, <2>2, <2>3, <2>4, <2>5, <2>6 DEF RequestNext
<1>2. ASSUME NEW t \in Turns, ActivityNext(t) PROVE ClaimInv'
  <2>1. CASE PickUp(t)
    BY <2>1, SMT DEF PickUp, AttemptEnds
  <2>2. CASE CheckOwner(t)
    BY <2>2, SMT DEF CheckOwner, AttemptEnds
  <2>3. CASE GraphEnds(t)
    BY <2>3, SMT DEF GraphEnds, Supervised
  <2>4. CASE WatchStops(t)
    BY <2>4, SMT DEF WatchStops, Supervised
  <2>5. CASE HearCancel(t)
    BY <2>5, SMT DEF HearCancel, Supervised, AttemptEnds
  <2>6. CASE Close(t)
    BY <2>6, SMT DEF Close, Finish, AttemptEnds
  <2>7. CASE ActivityDies(t)
    BY <2>7, SMT DEF ActivityDies, AttemptEnds
  <2> QED BY <1>2, <2>1, <2>2, <2>3, <2>4, <2>5, <2>6, <2>7 DEF ActivityNext
<1>3. ASSUME NEW t \in Turns, WorkflowNext(t) PROVE ClaimInv'
  <2>1. CASE CancelWorkflow(t)
    BY <2>1, SMT DEF CancelWorkflow, Abandon
  <2>2. CASE ActivityTimesOut(t)
    BY <2>2, SMT DEF ActivityTimesOut, Abandon
  <2>3. CASE ActivityResult(t)
    BY <2>3, SMT DEF ActivityResult, WorkflowCloses
  <2>4. CASE Finalize(t)
    BY <2>4, SMT DEF Finalize, WorkflowCloses, Finish
  <2>5. CASE FinalizeFails(t)
    BY <2>5, SMT DEF FinalizeFails, WorkflowCloses
  <2>6. CASE WorkflowTimesOut(t)
    BY <2>6, SMT DEF WorkflowTimesOut, Abandon
  <2> QED BY <1>3, <2>1, <2>2, <2>3, <2>4, <2>5, <2>6 DEF WorkflowNext
<1>4. ASSUME NEW t \in Turns, RequestStop(t) PROVE ClaimInv'
  BY <1>4, SMT DEF RequestStop
<1>5. ASSUME NEW t \in Turns, SweepDeletes(t) PROVE ClaimInv'
  BY <1>5, SMT DEF SweepDeletes
<1>6. CASE SweepLists
  BY <1>6, SMT DEF SweepLists, HasRow
<1>7. CASE Tick
  BY <1>7, SMT DEF Tick
<1>8. CASE UNCHANGED vars
  BY <1>8, SMT DEF vars
<1> QED BY <1>1, <1>2, <1>3, <1>4, <1>5, <1>6, <1>7, <1>8 DEF Next
-----------------------------------------------------------------------------
\* What the claim invariant gives a producer.
LEMMA ProducerInit == Init => ProducerKeepsTurn
BY SMT DEF Init, ProducerKeepsTurn, Alive

\* Every step keeps a producer on a turn that is its own.
LEMMA ProducerNext ==
    TypeOK /\ ClaimInv /\ ProducerKeepsTurn /\ [Next]_vars => ProducerKeepsTurn'
<1> SUFFICES ASSUME TypeOK, ClaimInv, ProducerKeepsTurn, [Next]_vars
             PROVE  ProducerKeepsTurn'
  OBVIOUS
<1> USE TimingAssumption, AbsentAssumption
        DEF TypeOK, ActPoint, Request, clockVars, sessionVars, rowVars, wfVars, actVars,
            ClaimInv, WorkflowInsideClaim, ActivityInsideClaim,
            RowClosesOnce, Open, Alive, ProducerKeepsTurn
<1>1. ASSUME NEW r \in Requests, RequestNext(r) PROVE ProducerKeepsTurn'
  <2>1. ASSUME NEW k \in Keys, NEW t \in Turns, AdmitExisting(r, k, t) PROVE ProducerKeepsTurn'
    BY <2>1, SMT DEF AdmitExisting, Serving
  <2>2. ASSUME NEW k \in Keys, NEW t \in Turns, AdmitNew(r, k, t) PROVE ProducerKeepsTurn'
    <3>1. \A u \in Turns : Alive(u) => status[u] # "free" /\ ~Lapsed(u)
      BY SMT DEF Lapsed
    <3>2. ASSUME NEW u \in Turns, Alive(u)
          PROVE  status'[u] = status[u] /\ closer'[u] = closer[u] /\ expires'[u] = expires[u]
      BY <2>2, <3>1, <3>2, SMT DEF AdmitNew
    <3> QED BY <2>2, <3>2, SMT DEF AdmitNew
  <2>3. CASE EnsureExpired(r)
    BY <2>3, SMT DEF EnsureExpired, Finish, IdleReq, Serving
  <2>4. CASE EnsureSized(r)
    BY <2>4, SMT DEF EnsureSized, Serving
  <2>5. CASE StartWorkflow(r)
    BY <2>5, SMT DEF StartWorkflow, IdleReq, Serving
  <2>6. CASE HandoffFails(r)
    BY <2>6, SMT DEF HandoffFails, IdleReq, Serving
  <2> QED BY <1>1, <2>1, <2>2, <2>3, <2>4, <2>5, <2>6 DEF RequestNext
<1>2. ASSUME NEW t \in Turns, ActivityNext(t) PROVE ProducerKeepsTurn'
  <2>1. CASE PickUp(t)
    BY <2>1, SMT DEF PickUp, AttemptEnds
  <2>2. CASE CheckOwner(t)
    BY <2>2, SMT DEF CheckOwner, AttemptEnds
  <2>3. CASE GraphEnds(t)
    BY <2>3, SMT DEF GraphEnds, Supervised
  <2>4. CASE WatchStops(t)
    BY <2>4, SMT DEF WatchStops, Supervised
  <2>5. CASE HearCancel(t)
    BY <2>5, SMT DEF HearCancel, Supervised, AttemptEnds
  <2>6. CASE Close(t)
    BY <2>6, SMT DEF Close, Finish, AttemptEnds
  <2>7. CASE ActivityDies(t)
    BY <2>7, SMT DEF ActivityDies, AttemptEnds
  <2> QED BY <1>2, <2>1, <2>2, <2>3, <2>4, <2>5, <2>6, <2>7 DEF ActivityNext
<1>3. ASSUME NEW t \in Turns, WorkflowNext(t) PROVE ProducerKeepsTurn'
  <2>1. CASE CancelWorkflow(t)
    BY <2>1, SMT DEF CancelWorkflow, Abandon
  <2>2. CASE ActivityTimesOut(t)
    BY <2>2, SMT DEF ActivityTimesOut, Abandon
  <2>3. CASE ActivityResult(t)
    BY <2>3, SMT DEF ActivityResult, WorkflowCloses
  <2>4. CASE Finalize(t)
    BY <2>4, SMT DEF Finalize, WorkflowCloses, Finish
  <2>5. CASE FinalizeFails(t)
    BY <2>5, SMT DEF FinalizeFails, WorkflowCloses
  <2>6. CASE WorkflowTimesOut(t)
    BY <2>6, SMT DEF WorkflowTimesOut, Abandon
  <2> QED BY <1>3, <2>1, <2>2, <2>3, <2>4, <2>5, <2>6 DEF WorkflowNext
<1>4. ASSUME NEW t \in Turns, RequestStop(t) PROVE ProducerKeepsTurn'
  BY <1>4, SMT DEF RequestStop
<1>5. ASSUME NEW t \in Turns, SweepDeletes(t) PROVE ProducerKeepsTurn'
  BY <1>5, SMT DEF SweepDeletes
<1>6. CASE SweepLists
  BY <1>6, SMT DEF SweepLists, HasRow
<1>7. CASE Tick
  BY <1>7, SMT DEF Tick
<1>8. CASE UNCHANGED vars
  BY <1>8, SMT DEF vars
<1> QED BY <1>1, <1>2, <1>3, <1>4, <1>5, <1>6, <1>7, <1>8 DEF Next

\* Whatever is lost, repeated or late, a producer keeps its turn until its own
\* workflow or its own request gives it up.
THEOREM ProducerKeepsItsTurn == Spec => [](ClaimInv /\ ProducerKeepsTurn)
BY TypeInit, TypeNext, ClaimInit, ClaimNext, ProducerInit, ProducerNext, PTL DEF Spec
-----------------------------------------------------------------------------
\* A turn's graph has not been started before its activity passed the ownership
\* check, a turn has one activity, and a key has one row.
AnswerInv ==
    /\ \A t \in Turns : /\ runs[t] <= 1
                        /\ act[t] \in {"queued", "checked"} => runs[t] = 0
                        /\ wf[t] = "none" => runs[t] = 0
    /\ \A t, u \in Turns : HasRow(t) /\ HasRow(u) /\ key[t] = key[u] => t = u

\* Uniqueness of a key among the rows, and of a start per workflow.
LEMMA AnswerInit == Init => AnswerInv
BY SMT DEF Init, AnswerInv, HasRow

\* finish_chat_turn neither makes a row nor removes one.
LEMMA FinishKeepsRows ==
    ASSUME status \in [Turns -> Status], NEW t, NEW who,
           NEW s \in {"expired", "failed", "canceled"}, Finish(t, s, who)
    PROVE  \A u \in Turns : HasRow(u)' => HasRow(u)
BY SMT DEF Finish, HasRow

\* A step that makes no row and starts no activity keeps the answers.
LEMMA AnswerKept ==
    ASSUME AnswerInv, UNCHANGED <<key, act, runs>>,
           \A u \in Turns : HasRow(u)' => HasRow(u),
           \A u \in Turns : wf'[u] = "none" => wf[u] = "none"
    PROVE  AnswerInv'
BY SMT DEF AnswerInv

\* Every step keeps that a recorded start has its one workflow.
LEMMA AnswerNext == TypeOK /\ ClaimInv /\ AnswerInv /\ [Next]_vars => AnswerInv'
<1> SUFFICES ASSUME TypeOK, ClaimInv, AnswerInv, [Next]_vars PROVE AnswerInv'
  OBVIOUS
<1> USE DEF TypeOK, ActPoint, Request, clockVars, sessionVars, rowVars, wfVars, actVars,
            ClaimInv, RequestKnowsClaim, ActivityInsideClaim, AnswerInv, HasRow
<1>1. ASSUME NEW r \in Requests, RequestNext(r) PROVE AnswerInv'
  <2>1. ASSUME NEW k \in Keys, NEW t \in Turns, AdmitExisting(r, k, t) PROVE AnswerInv'
    BY <2>1, SMT DEF AdmitExisting, Serving
  <2>2. ASSUME NEW k \in Keys, NEW t \in Turns, AdmitNew(r, k, t) PROVE AnswerInv'
    BY <2>2, SMT DEF AdmitNew, Lapsed, Serving
  <2>3. CASE EnsureExpired(r)
    <3>1. \A u \in Turns : HasRow(u)' => HasRow(u)
      BY <2>3, FinishKeepsRows DEF EnsureExpired
    <3>2. UNCHANGED <<key, act, runs, wf>>
      BY <2>3 DEF EnsureExpired
    <3> QED BY <3>1, <3>2, AnswerKept
  <2>4. CASE EnsureSized(r)
    BY <2>4, SMT DEF EnsureSized, Serving
  <2>5. CASE StartWorkflow(r)
    BY <2>5, SMT DEF StartWorkflow, IdleReq, Serving
  <2>6. CASE HandoffFails(r)
    BY <2>6, SMT DEF HandoffFails, IdleReq, Serving
  <2> QED BY <1>1, <2>1, <2>2, <2>3, <2>4, <2>5, <2>6 DEF RequestNext
<1>2. ASSUME NEW t \in Turns, ActivityNext(t) PROVE AnswerInv'
  <2>1. CASE PickUp(t)
    BY <2>1, SMT DEF PickUp, AttemptEnds
  <2>2. CASE CheckOwner(t)
    BY <2>2, SMT DEF CheckOwner, AttemptEnds
  <2>3. CASE GraphEnds(t)
    BY <2>3, SMT DEF GraphEnds, Supervised
  <2>4. CASE WatchStops(t)
    BY <2>4, SMT DEF WatchStops, Supervised
  <2>5. CASE HearCancel(t)
    BY <2>5, SMT DEF HearCancel, Supervised, AttemptEnds
  <2>6. CASE Close(t)
    BY <2>6, SMT DEF Close, Finish, AttemptEnds
  <2>7. CASE ActivityDies(t)
    BY <2>7, SMT DEF ActivityDies, AttemptEnds
  <2> QED BY <1>2, <2>1, <2>2, <2>3, <2>4, <2>5, <2>6, <2>7 DEF ActivityNext
<1>3. ASSUME NEW t \in Turns, WorkflowNext(t) PROVE AnswerInv'
  <2>1. CASE CancelWorkflow(t)
    BY <2>1, SMT DEF CancelWorkflow, Abandon
  <2>2. CASE ActivityTimesOut(t)
    BY <2>2, SMT DEF ActivityTimesOut, Abandon
  <2>3. CASE ActivityResult(t)
    BY <2>3, SMT DEF ActivityResult, WorkflowCloses
  <2>4. CASE Finalize(t)
    <3>1. \A u \in Turns : HasRow(u)' => HasRow(u)
      BY <2>4, FinishKeepsRows DEF Finalize
    <3>2. UNCHANGED <<key, act, runs>> /\ wf' = [wf EXCEPT ![t] = "closed"]
      BY <2>4 DEF Finalize, WorkflowCloses
    <3> QED BY <3>1, <3>2, AnswerKept
  <2>5. CASE FinalizeFails(t)
    BY <2>5, SMT DEF FinalizeFails, WorkflowCloses
  <2>6. CASE WorkflowTimesOut(t)
    BY <2>6, SMT DEF WorkflowTimesOut, Abandon
  <2> QED BY <1>3, <2>1, <2>2, <2>3, <2>4, <2>5, <2>6 DEF WorkflowNext
<1>4. ASSUME NEW t \in Turns, RequestStop(t) PROVE AnswerInv'
  BY <1>4, SMT DEF RequestStop
<1>5. ASSUME NEW t \in Turns, SweepDeletes(t) PROVE AnswerInv'
  BY <1>5, SMT DEF SweepDeletes
<1>6. CASE SweepLists
  BY <1>6, SMT DEF SweepLists
<1>7. CASE Tick
  BY <1>7, SMT DEF Tick
<1>8. CASE UNCHANGED vars
  BY <1>8, SMT DEF vars
<1> QED BY <1>1, <1>2, <1>3, <1>4, <1>5, <1>6, <1>7, <1>8 DEF Next

\* Repeating a request, even racing its own first attempt, answers it once.
THEOREM AnswersOnce == Spec => []AnsweredOnce
<1>1. ClaimInv /\ AnswerInv /\ TypeOK => AnsweredOnce
  BY SMT DEF AnsweredOnce, AnswerInv, ClaimInv, ActivityInsideClaim, HasRow, TypeOK
<1> QED BY <1>1, TypeInit, TypeNext, ClaimInit, ClaimNext, AnswerInit, AnswerNext, PTL DEF Spec
-----------------------------------------------------------------------------
\* The part of the state the two action properties below are about.
RowStep(t) ==
    /\ status[t] \in Terminal => status'[t] \in {status[t], "gone"}
    /\ status[t] = "running" /\ status'[t] = "gone" => expires[t] <= now /\ ~Alive(t)
RowsStep == \A t \in Turns : RowStep(t)

\* What one step may do to one row.
LEMMA RowNext == TypeOK /\ ClaimInv /\ ProducerKeepsTurn /\ [Next]_vars => RowsStep
<1> SUFFICES ASSUME TypeOK, ClaimInv, ProducerKeepsTurn, Next PROVE RowsStep
  BY SMT DEF vars, RowsStep, RowStep, TypeOK
<1> USE DEF TypeOK, rowVars, Terminal, RowsStep, RowStep
<1>1. ASSUME NEW r \in Requests, RequestNext(r) PROVE RowsStep
  <2>1. ASSUME NEW k \in Keys, NEW t \in Turns, AdmitExisting(r, k, t) PROVE RowsStep
    BY <2>1, SMT DEF AdmitExisting, Serving
  <2>2. ASSUME NEW k \in Keys, NEW t \in Turns, AdmitNew(r, k, t) PROVE RowsStep
    BY <2>2, SMT DEF AdmitNew, Lapsed, HasRow, Serving
  <2>3. CASE EnsureExpired(r)
    BY <2>3, SMT DEF EnsureExpired, Finish, IdleReq, Serving
  <2>4. CASE EnsureSized(r)
    BY <2>4, SMT DEF EnsureSized, Serving
  <2>5. CASE StartWorkflow(r)
    BY <2>5, SMT DEF StartWorkflow, IdleReq, Serving
  <2>6. CASE HandoffFails(r)
    BY <2>6, SMT DEF HandoffFails, IdleReq, Serving
  <2> QED BY <1>1, <2>1, <2>2, <2>3, <2>4, <2>5, <2>6 DEF RequestNext
<1>2. ASSUME NEW t \in Turns, ActivityNext(t) PROVE RowsStep
  <2>1. CASE PickUp(t)
    BY <2>1, SMT DEF PickUp, AttemptEnds
  <2>2. CASE CheckOwner(t)
    BY <2>2, SMT DEF CheckOwner, AttemptEnds
  <2>3. CASE GraphEnds(t)
    BY <2>3, SMT DEF GraphEnds, Supervised
  <2>4. CASE WatchStops(t)
    BY <2>4, SMT DEF WatchStops, Supervised
  <2>5. CASE HearCancel(t)
    BY <2>5, SMT DEF HearCancel, Supervised, AttemptEnds
  <2>6. CASE Close(t)
    BY <2>6, SMT DEF Close, Finish, AttemptEnds
  <2>7. CASE ActivityDies(t)
    BY <2>7, SMT DEF ActivityDies, AttemptEnds
  <2> QED BY <1>2, <2>1, <2>2, <2>3, <2>4, <2>5, <2>6, <2>7 DEF ActivityNext
<1>3. ASSUME NEW t \in Turns, WorkflowNext(t) PROVE RowsStep
  <2>1. CASE CancelWorkflow(t)
    BY <2>1, SMT DEF CancelWorkflow, Abandon
  <2>2. CASE ActivityTimesOut(t)
    BY <2>2, SMT DEF ActivityTimesOut, Abandon
  <2>3. CASE ActivityResult(t)
    BY <2>3, SMT DEF ActivityResult, WorkflowCloses
  <2>4. CASE Finalize(t)
    BY <2>4, SMT DEF Finalize, WorkflowCloses, Finish
  <2>5. CASE FinalizeFails(t)
    BY <2>5, SMT DEF FinalizeFails, WorkflowCloses
  <2>6. CASE WorkflowTimesOut(t)
    BY <2>6, SMT DEF WorkflowTimesOut, Abandon
  <2> QED BY <1>3, <2>1, <2>2, <2>3, <2>4, <2>5, <2>6 DEF WorkflowNext
<1>4. ASSUME NEW t \in Turns, RequestStop(t) PROVE RowsStep
  BY <1>4, SMT DEF RequestStop
<1>5. ASSUME NEW t \in Turns, SweepDeletes(t) PROVE RowsStep
  BY <1>5, SMT DEF SweepDeletes, ClaimInv, RowClosesOnce, ProducerKeepsTurn
<1>6. CASE SweepLists
  BY <1>6, SMT DEF SweepLists, HasRow
<1>7. CASE Tick
  BY <1>7, SMT DEF Tick
<1> QED BY <1>1, <1>2, <1>3, <1>4, <1>5, <1>6, <1>7 DEF Next

\* Late closers leave a recorded outcome alone.
THEOREM OutcomesAreFinal == Spec => OutcomeIsFinal
<1>1. TypeOK /\ ClaimInv /\ ProducerKeepsTurn /\ [Next]_vars
        => [\A t \in Turns : status[t] \in Terminal => status'[t] \in {status[t], "gone"}]_vars
  BY RowNext DEF RowsStep, RowStep
<1> QED BY <1>1, TypeInit, TypeNext, ProducerKeepsItsTurn, PTL DEF Spec, OutcomeIsFinal

\* The sweep never takes a turn that still holds its thread.
THEOREM SweepSpares == Spec => SweepSparesClaims
<1>1. TypeOK /\ ClaimInv /\ ProducerKeepsTurn /\ [Next]_vars
        => [\A t \in Turns : status[t] = "running" /\ status'[t] = "gone" =>
              expires[t] <= now /\ ~Alive(t)]_vars
  BY RowNext DEF RowsStep, RowStep
<1> QED BY <1>1, TypeInit, TypeNext, ProducerKeepsItsTurn, PTL DEF Spec, SweepSparesClaims
-----------------------------------------------------------------------------
(* Refinement: every step is a step of the contract or leaves it alone.    *)

ContractStutters == UNCHANGED <<status, runs>>

\* A step that changes neither the rows nor the runs is no step of the contract.
LEMMA StutterRefines == ContractStutters => UNCHANGED <<ContractRow, ContractAnswered>>
BY DEF ContractStutters, ContractRow, ContractAnswered

\* finish_chat_turn closes the contract's row, or finds it closed.
LEMMA FinishRefines ==
    ASSUME TypeOK, NEW t \in Turns, NEW s \in Terminal, NEW who,
           Finish(t, s, who), runs' = runs
    PROVE  [Contract!Next]_<<ContractRow, ContractAnswered>>
<1>1. CASE status[t] = "running"
  <2>1. status \in [Turns -> Status] /\ status' = [status EXCEPT ![t] = s]
    BY <1>1 DEF Finish, TypeOK
  <2>2. ContractRow' = [u \in Turns |-> IF u = t THEN "closed" ELSE ContractRow[u]]
    BY <2>1, SMT DEF ContractRow, Terminal
  <2>3. Contract!Close(t)
    BY <1>1, <2>2, SMT DEF Contract!Close, ContractRow, ContractAnswered
  <2> QED BY <2>3 DEF Contract!Next
<1>2. CASE status[t] # "running"
  BY <1>2, StutterRefines DEF Finish, ContractStutters
<1> QED BY <1>1, <1>2

\* Every step is a step of the contract, or changes nothing it sees.
LEMMA ContractNext ==
    TypeOK /\ ClaimInv /\ AnswerInv /\ [Next]_vars
        => [Contract!Next]_<<ContractRow, ContractAnswered>>
<1> SUFFICES ASSUME TypeOK, ClaimInv, AnswerInv, [Next]_vars
             PROVE  [Contract!Next]_<<ContractRow, ContractAnswered>>
  OBVIOUS
<1> DEFINE Goal == [Contract!Next]_<<ContractRow, ContractAnswered>>
<1> USE DEF rowVars, actVars
<1>1. ASSUME NEW r \in Requests, RequestNext(r) PROVE Goal
  <2>1. ASSUME NEW k \in Keys, NEW t \in Turns, AdmitNew(r, k, t) PROVE Goal
    <3>1. Contract!Take(t)
      BY <2>1, SMT DEF AdmitNew, Lapsed, Contract!Take, ContractRow, ContractAnswered, TypeOK
    <3> QED BY <3>1 DEF Contract!Next
  <2>2. CASE EnsureExpired(r)
    <3>1. req[r].turn \in Turns
      BY <2>2 DEF EnsureExpired, ClaimInv, RequestKnowsClaim
    <3> QED BY <2>2, <3>1, FinishRefines DEF EnsureExpired, Terminal
  <2> QED BY <1>1, <2>1, <2>2, StutterRefines
          DEF RequestNext, AdmitExisting, EnsureSized, StartWorkflow, HandoffFails,
              ContractStutters
<1>2. ASSUME NEW t \in Turns, ActivityNext(t) PROVE Goal
  <2>1. CASE CheckOwner(t)
    <3>1. CASE status[t] = "running" /\ runs' = [runs EXCEPT ![t] = @ + 1]
      <4>1. runs \in [Turns -> Nat] /\ runs[t] = 0
        BY <2>1 DEF CheckOwner, TypeOK, AnswerInv
      <4>2. ContractAnswered' = ContractAnswered \cup {t}
        BY <3>1, <4>1, SMT DEF ContractAnswered
      <4>3. Contract!Answer(t)
        BY <2>1, <3>1, <4>1, <4>2, SMT DEF CheckOwner, Contract!Answer, ContractRow,
                                           ContractAnswered
      <4> QED BY <4>3 DEF Contract!Next
    <3>2. CASE UNCHANGED runs
      BY <2>1, <3>2, StutterRefines DEF CheckOwner, ContractStutters
    <3> QED BY <2>1, <3>1, <3>2 DEF CheckOwner
  <2>2. CASE Close(t)
    <3>1. outcome[t] \in Terminal
      BY <2>2, SMT DEF Close, TypeOK, Terminal
    <3> QED BY <2>2, <3>1, FinishRefines DEF Close
  <2> QED BY <1>2, <2>1, <2>2, StutterRefines
          DEF ActivityNext, PickUp, GraphEnds, WatchStops, HearCancel, ActivityDies,
              ContractStutters
<1>3. ASSUME NEW t \in Turns, WorkflowNext(t) PROVE Goal
  <2>1. CASE Finalize(t)
    BY <2>1, FinishRefines DEF Finalize, Terminal
  <2> QED BY <1>3, <2>1, StutterRefines
          DEF WorkflowNext, CancelWorkflow, ActivityTimesOut, ActivityResult,
              FinalizeFails, WorkflowTimesOut, ContractStutters
<1>4. ASSUME NEW t \in Turns, SweepDeletes(t) PROVE Goal
  <2>1. CASE status[t] = "gone"
    <3>1. ContractStutters
      BY <1>4, <2>1, SMT DEF SweepDeletes, ContractStutters, TypeOK
    <3> QED BY <3>1, StutterRefines
  <2>2. CASE status[t] # "gone"
    <3>1. /\ status \in [Turns -> Status] /\ status[t] # "free"
          /\ status' = [status EXCEPT ![t] = "gone"] /\ runs' = runs
      BY <1>4 DEF SweepDeletes, TypeOK, ClaimInv, RowClosesOnce
    <3>2. ContractRow' = [u \in Turns |-> IF u = t THEN "erased" ELSE ContractRow[u]]
      BY <3>1, SMT DEF ContractRow
    <3>3. Contract!Erase(t)
      BY <2>2, <3>1, <3>2, SMT DEF Contract!Erase, ContractRow, ContractAnswered
    <3> QED BY <3>3 DEF Contract!Next
  <2> QED BY <2>1, <2>2
<1>5. ASSUME NEW t \in Turns, RequestStop(t) PROVE Goal
  BY <1>5, StutterRefines DEF RequestStop, ContractStutters
<1>6. CASE SweepLists
  BY <1>6, StutterRefines DEF SweepLists, ContractStutters
<1>7. CASE Tick
  BY <1>7, StutterRefines DEF Tick, ContractStutters
<1>8. CASE UNCHANGED vars
  BY <1>8, StutterRefines DEF vars, ContractStutters
<1> QED BY <1>1, <1>2, <1>3, <1>4, <1>5, <1>6, <1>7, <1>8 DEF Next

\* The detailed protocol implements the contract of ChatTurnContract.
THEOREM ImplementsContract == Spec => KeepsContract
<1>1. Init => Contract!Init
  <2>1. Init => ContractRow = [t \in Turns |-> "none"]
    BY SMT DEF Init, ContractRow
  <2>2. Init => ContractAnswered = {}
    BY SMT DEF Init, ContractAnswered
  <2> QED BY <2>1, <2>2 DEF Contract!Init
<1> QED BY <1>1, ContractNext, TypeInit, TypeNext, ClaimInit, ClaimNext, AnswerInit, AnswerNext,
           PTL DEF Spec, KeepsContract, Contract!Spec

-----------------------------------------------------------------------------
\* No turn holds the conversation under a claim that has not lapsed.
Quiet == \A t \in Turns : status[t] = "running" => expires[t] <= now

\* A claim is as old as the admission that gave it, and one turn has it.
HolderInv ==
    /\ touched <= now
    /\ \A t \in Turns : status[t] = "running" => expires[t] <= touched + Lease
    /\ \A t, u \in Turns : status[t] = "running" /\ status[u] = "running" => t = u

\* What a retirement knows at each of its points: the reaper's session had been
\* idle when it was listed; the turn a deletion stops is the only one that may
\* hold the thread; a teardown begins when none does, and ends before the record.
RetirerKnows(c) ==
    /\ retirer[c].pc = "read" /\ c \notin Deleters => retirer[c].stamp[1] + Idle < now
    /\ retirer[c].pc \in {"stop", "cancel", "await"} =>
          \A u \in Turns : status[u] = "running" => u = retirer[c].turn
    /\ retirer[c].pc \in {"teardown", "record"} => Quiet
    /\ retirer[c].pc = "record" => destroyed

Retirement ==
    [pc : {"idle", "read", "claimed", "stop", "cancel", "await", "teardown", "record"},
     turn : Turns \cup {NoTurn}, stamp : Nat \X SUBSET Turns]

RetireInv ==
    /\ RTypeOK /\ ClaimInv /\ ProducerKeepsTurn /\ HolderInv
    /\ \A c \in Retirers : RetirerKnows(c)
    /\ RecordGoesLast

-----------------------------------------------------------------------------
\* A retirement that begins, moves on or gives up stays well-typed.
LEMMA MovesTyped ==
    ASSUME retirer \in [Retirers -> Retirement], NEW c \in Retirers
    PROVE  /\ Resting \in Retirement
           /\ Rests(c) => retirer' \in [Retirers -> Retirement]
           /\ \A stamp \in Nat \X SUBSET Turns :
                 retirer' = [retirer EXCEPT ![c] = Working("read", NoTurn, stamp)]
                    => retirer' \in [Retirers -> Retirement]
           /\ \A t \in Turns :
                 retirer' = [retirer EXCEPT ![c] = Working("stop", t, <<0, {}>>)]
                    => retirer' \in [Retirers -> Retirement]
           /\ \A pc \in {"claimed", "cancel", "await", "teardown", "record"} :
                 Goes(c, pc) => retirer' \in [Retirers -> Retirement]
<1>1. <<0, {}>> \in Nat \X SUBSET Turns
  OBVIOUS
<1>2. Resting \in Retirement
  BY <1>1 DEF Resting, Working, Retirement
<1>3. ASSUME NEW t \in Turns PROVE Working("stop", t, <<0, {}>>) \in Retirement
  BY <1>1 DEF Working, Retirement
<1>4. ASSUME NEW stamp \in Nat \X SUBSET Turns PROVE Working("read", NoTurn, stamp) \in Retirement
  BY DEF Working, Retirement
<1>5. ASSUME NEW pc \in {"claimed", "cancel", "await", "teardown", "record"}, Goes(c, pc)
      PROVE  retirer' \in [Retirers -> Retirement]
  <2>1. retirer[c] \in Retirement
    OBVIOUS
  <2>2. [retirer[c] EXCEPT !.pc = pc] \in Retirement
    BY <2>1 DEF Retirement
  <2> QED BY <1>5, <2>2 DEF Goes
<1> QED BY <1>2, <1>3, <1>4, <1>5 DEF Rests

\* A conversation begins open, with nothing to take down.
LEMMA RetireInit == RInit => RetireInv
<1> SUFFICES ASSUME RInit PROVE RetireInv
  OBVIOUS
<1>1. TypeOK /\ ClaimInv /\ ProducerKeepsTurn
  BY TypeInit, ClaimInit, ProducerInit DEF RInit
<1>2. HolderInv
  BY LeaseIsNat, SMT DEF RInit, Init, HolderInv
<1>3. \A c \in Retirers : retirer[c].pc = "idle"
  BY DEF RInit, Resting, Working
<1>4. retirer \in [Retirers -> Retirement]
  <2>1. <<0, {}>> \in Nat \X SUBSET Turns
    OBVIOUS
  <2> QED BY <2>1 DEF RInit, Resting, Working, Retirement
<1>5. RTypeOK /\ (\A c \in Retirers : RetirerKnows(c)) /\ RecordGoesLast
  BY <1>1, <1>3, <1>4 DEF RInit, Init, RTypeOK, RetirerKnows, RecordGoesLast, Retirement
<1> QED BY <1>1, <1>2, <1>5 DEF RetireInv

\* A turn leaves "running" or keeps its claim; only an admission makes one run.
TurnStep ==
    \A t \in Turns : status'[t] = "running" => status[t] = "running" /\ expires'[t] = expires[t]

\* What any step of a turn does to the rows and the session.
LEMMA TurnNext ==
    ASSUME TypeOK, Next
    PROVE  /\ now <= now' /\ session' = session
           /\ \/ TurnStep /\ touched' = touched
              \/ \E r \in Requests, k \in Keys, t \in Turns : AdmitNew(r, k, t)
<1> USE DEF TurnStep, clockVars, sessionVars, rowVars
<1>0. now \in Nat
  BY DEF TypeOK
<1> DEFINE Goal == /\ now <= now' /\ session' = session
                   /\ \/ TurnStep /\ touched' = touched
                      \/ \E r \in Requests, k \in Keys, t \in Turns : AdmitNew(r, k, t)
<1>1. ASSUME NEW r \in Requests, RequestNext(r) PROVE Goal
  <2>1. ASSUME NEW k \in Keys, NEW t \in Turns, AdmitExisting(r, k, t) PROVE Goal
    BY <1>0, <2>1, SMT DEF AdmitExisting
  <2>2. ASSUME NEW k \in Keys, NEW t \in Turns, AdmitNew(r, k, t) PROVE Goal
    <3>1. now <= now' /\ session' = session
      BY <1>0, <2>2, SMT DEF AdmitNew
    <3> QED BY <2>2, <3>1
  <2>3. CASE EnsureExpired(r)
    BY <1>0, <2>3, SMT DEF EnsureExpired, Finish, TypeOK
  <2>4. CASE EnsureSized(r) \/ StartWorkflow(r) \/ HandoffFails(r)
    BY <1>0, <2>4, SMT DEF EnsureSized, StartWorkflow, HandoffFails
  <2> QED BY <1>1, <2>1, <2>2, <2>3, <2>4 DEF RequestNext
<1>2. ASSUME NEW t \in Turns, ActivityNext(t) PROVE Goal
  <2>1. CASE Close(t)
    BY <1>0, <2>1, SMT DEF Close, Finish, TypeOK
  <2> QED BY <1>0, <1>2, <2>1, SMT DEF ActivityNext, PickUp, CheckOwner, GraphEnds, WatchStops,
                                 HearCancel, ActivityDies
<1>3. ASSUME NEW t \in Turns, WorkflowNext(t) PROVE Goal
  <2>1. CASE Finalize(t)
    BY <1>0, <2>1, SMT DEF Finalize, Finish, TypeOK
  <2> QED BY <1>0, <1>3, <2>1, SMT DEF WorkflowNext, CancelWorkflow, ActivityTimesOut,
                                 ActivityResult, FinalizeFails, WorkflowTimesOut
<1>4. ASSUME NEW t \in Turns, RequestStop(t) \/ SweepDeletes(t) PROVE Goal
  BY <1>0, <1>4, SMT DEF RequestStop, SweepDeletes, TypeOK
<1>5. CASE SweepLists \/ Tick
  BY <1>0, <1>5, SMT DEF SweepLists, Tick
<1> QED BY <1>1, <1>2, <1>3, <1>4, <1>5 DEF Next

\* An admission leaves one holder, with a claim as new as its stamp, and needs an
\* open session.
LEMMA AdmissionHolds ==
    ASSUME TypeOK, HolderInv, NEW r \in Requests, NEW k \in Keys, NEW t \in Turns,
           AdmitNew(r, k, t)
    PROVE  HolderInv' /\ session = "open"
BY LeaseIsNat, SMT DEF TypeOK, HolderInv, AdmitNew, Lapsed, clockVars

\* A step of a turn leaves a retirement what it knows: a session that is being
\* retired takes no new turn.
LEMMA TurnsKeepRetireInv ==
    ASSUME RetireInv, Next, UNCHANGED retireVars
    PROVE  RetireInv'
<1> USE DEF RetireInv
<1>1. TypeOK /\ TypeOK' /\ ClaimInv' /\ ProducerKeepsTurn'
  BY TypeNext, ClaimNext, ProducerNext DEF RTypeOK
<1>2. UNCHANGED <<retirer, destroyed, session>> /\ now <= now' /\ now \in Nat /\ now' \in Nat
  BY <1>1, TurnNext DEF retireVars, TypeOK
<1>3. RTypeOK' /\ RecordGoesLast'
  BY <1>1, <1>2 DEF RTypeOK, RecordGoesLast
<1>4. CASE TurnStep /\ touched' = touched
  <2>1. HolderInv'
    BY <1>1, <1>2, <1>4, LeaseIsNat, SMT DEF HolderInv, TurnStep, TypeOK
  <2>2. ASSUME NEW c \in Retirers PROVE RetirerKnows(c)'
    BY <1>1, <1>2, <1>4, IdleAssumption, SMT DEF RetirerKnows, Quiet, TurnStep, TypeOK, RTypeOK
  <2> QED BY <1>1, <1>3, <2>1, <2>2
<1>5. ASSUME NEW r \in Requests, NEW k \in Keys, NEW t \in Turns, AdmitNew(r, k, t)
      PROVE  RetireInv'
  <2>1. HolderInv' /\ session = "open"
    BY <1>1, <1>5, AdmissionHolds
  <2>2. ASSUME NEW c \in Retirers PROVE RetirerKnows(c)'
    <3>1. retirer[c].pc \in {"idle", "read"}
      BY <2>1 DEF RTypeOK
    <3> QED BY <1>2, <2>2, <3>1, IdleAssumption, SMT DEF RetirerKnows, RTypeOK
  <2> QED BY <1>1, <1>3, <2>1, <2>2
<1> QED BY <1>1, <1>4, <1>5, TurnNext
-----------------------------------------------------------------------------
\* A session that was idle when the reaper listed it, and has not moved since, has
\* no turn whose claim could still stand.
LEMMA ClaimQuiets ==
    ASSUME RetireInv, NEW c \in Retirers, retirer[c].pc = "read", c \notin Deleters,
           Stamp = retirer[c].stamp
    PROVE  Quiet
<1>1. touched + Idle < now
  BY SMT DEF RetireInv, RetirerKnows, Stamp
<1> QED BY <1>1, IdleAssumption, LeaseIsNat, SMT DEF RetireInv, HolderInv, Quiet, RTypeOK, TypeOK

\* A step that leaves the rows, and what works on them, alone.
LEMMA RowsUntouched ==
    ASSUME TypeOK, ClaimInv, ProducerKeepsTurn, HolderInv,
           UNCHANGED <<turnVars, status, expires, closer>>,
           session' \in {"open", "retiring", "deleted"}, stop' \in [Turns -> BOOLEAN]
    PROVE  TypeOK' /\ ClaimInv' /\ ProducerKeepsTurn' /\ HolderInv'
<1> USE DEF turnVars, wfVars, actVars
<1>1. TypeOK'
  BY DEF TypeOK
<1>2. ClaimInv'
  BY SMT DEF ClaimInv, RequestKnowsClaim, WorkflowInsideClaim, ActivityInsideClaim,
         RowClosesOnce, Open, Alive
<1>3. ProducerKeepsTurn' /\ HolderInv'
  BY SMT DEF ProducerKeepsTurn, Alive, HolderInv
<1> QED BY <1>1, <1>2, <1>3

\* What the other retirements know outlives the step of one, when the rows stay.
LEMMA OthersKnow ==
    ASSUME RetireInv, NEW c \in Retirers, NEW d \in Retirers \ {c},
           retirer'[d] = retirer[d], UNCHANGED <<now, status, expires>>,
           destroyed => destroyed'
    PROVE  RetirerKnows(d)'
BY DEF RetireInv, RetirerKnows, Quiet


\* delete_chat_session takes every row; a producer it finds had lost its own.
LEMMA RecordDeleted ==
    ASSUME RetireInv, NEW c \in Retirers, DeleteRecord(c)
    PROVE  TypeOK' /\ ClaimInv' /\ ProducerKeepsTurn' /\ HolderInv'
<1> USE DEF turnVars, wfVars, actVars, HasRow
<1>0. TypeOK /\ ClaimInv /\ ProducerKeepsTurn /\ HolderInv /\ Quiet
  BY DEF RetireInv, RTypeOK, RetirerKnows, DeleteRecord
<1>1. TypeOK'
  BY <1>0, SMT DEF TypeOK, DeleteRecord, Status
<1>2. ClaimInv'
  BY <1>0, SMT DEF TypeOK, DeleteRecord, ClaimInv, RequestKnowsClaim, WorkflowInsideClaim,
                   ActivityInsideClaim, RowClosesOnce, Open, Alive
<1>3. \A t \in Turns : Alive(t) => closer[t] \in {"fallback", "repair"}
  BY <1>0, SMT DEF ProducerKeepsTurn, Quiet, TypeOK
<1>4. ProducerKeepsTurn'
  BY <1>3 DEF ProducerKeepsTurn, Alive, DeleteRecord
<1>5. \A t \in Turns : status'[t] # "running"
  BY <1>0, SMT DEF DeleteRecord, TypeOK
<1>6. HolderInv'
  BY <1>0, <1>5 DEF HolderInv, DeleteRecord
<1> QED BY <1>1, <1>2, <1>4, <1>6

\* cancel_turn reaches the workflow of the turn, whichever state its row is in.
LEMMA TurnCancelled ==
    ASSUME RetireInv, NEW c \in Retirers, DeleteCancels(c)
    PROVE  TypeOK' /\ ClaimInv' /\ ProducerKeepsTurn' /\ HolderInv'
<1> USE DEF clockVars, sessionVars, rowVars
<1>0. TypeOK /\ ClaimInv /\ ProducerKeepsTurn /\ HolderInv /\ retirer[c].turn \in Turns
  BY DEF RetireInv, RTypeOK, DeleteCancels
<1>1. TypeOK'
  BY <1>0, TimingAssumption, SMT DEF TypeOK, DeleteCancels, Abandon, ActPoint
<1>2. ClaimInv'
  BY <1>0, TimingAssumption, SMT
  DEF TypeOK, ActPoint, DeleteCancels, Abandon, ClaimInv, RequestKnowsClaim, WorkflowInsideClaim,
      ActivityInsideClaim, RowClosesOnce, Open, Alive
<1>3. ProducerKeepsTurn' /\ HolderInv'
  BY <1>0, SMT DEF TypeOK, DeleteCancels, Abandon, ProducerKeepsTurn, Alive, HolderInv
<1> QED BY <1>1, <1>2, <1>3

\* Each step of a retirement keeps what every retirement knows.
LEMMA RetirersKeepRetireInv ==
    ASSUME RetireInv, NEW c \in Retirers, Proceeds(c) \/ RetirerFails(c)
    PROVE  RetireInv'
<1> USE DEF RetireInv
<1>0. /\ TypeOK /\ ClaimInv /\ ProducerKeepsTurn /\ HolderInv /\ RetirerKnows(c)
      /\ now \in Nat /\ touched \in Nat /\ Stamp \in Nat \X SUBSET Turns
      /\ retirer \in [Retirers -> Retirement]
  BY DEF RTypeOK, TypeOK, Stamp, Retirement
\* Steps that only move the retirement.
<1>1. ASSUME UNCHANGED <<vars, destroyed>>,
             RTypeOK', RetirerKnows(c)', \A d \in Retirers \ {c} : retirer'[d] = retirer[d]
      PROVE  RetireInv'
  <2>1. ClaimInv' /\ ProducerKeepsTurn' /\ HolderInv' /\ RecordGoesLast'
    BY <1>0, <1>1, RowsUntouched DEF vars, turnVars, wfVars, actVars, TypeOK, RecordGoesLast
  <2>2. ASSUME NEW d \in Retirers \ {c} PROVE RetirerKnows(d)'
    BY <1>1, OthersKnow DEF vars
  <2> QED BY <1>1, <2>1, <2>2
<1>2. CASE DeleteReads(c)
  <2>1. RTypeOK'
    BY <1>0, <1>2, SMT DEF DeleteReads, RTypeOK, TypeOK, vars, Working
  <2>2. RetirerKnows(c)'
    BY <1>2, SMT DEF DeleteReads, RetirerKnows, Working, RTypeOK
  <2> QED BY <1>1, <1>2, <2>1, <2>2 DEF DeleteReads, RTypeOK
<1>3. CASE ReaperLists(c)
  <2>1. RTypeOK'
    BY <1>0, <1>3, SMT DEF ReaperLists, RTypeOK, TypeOK, vars, Working
  <2>2. RetirerKnows(c)'
    BY <1>0, <1>3, IdleAssumption, SMT DEF ReaperLists, RetirerKnows, Working, RTypeOK, Stamp, vars
  <2> QED BY <1>1, <1>3, <2>1, <2>2 DEF ReaperLists, RTypeOK
<1>4. CASE Claim(c)
  <2>1. TypeOK' /\ ClaimInv' /\ ProducerKeepsTurn' /\ HolderInv'
    BY <1>0, <1>4, RowsUntouched DEF Claim, rowVars, TypeOK
  <2>2. RTypeOK'
    <3>1. retirer' \in [Retirers -> Retirement]
      BY <1>0, <1>4, MovesTyped DEF Claim
    <3>2. \A d \in Retirers \ {c} : retirer'[d] = retirer[d]
      BY <1>0, <1>4 DEF Claim, Goes, Rests
    <3>3. retirer'[c].pc \notin {"idle", "read"} => session' # "open"
      BY <1>0, <1>4, SMT DEF Claim, Goes, Rests, Resting, Working, Retirement
    <3>4. retirer'[c].pc \notin {"stop", "cancel", "await"}
      BY <1>0, <1>4, SMT DEF Claim, Goes, Rests, Resting, Working, Retirement
    <3>5. session # "open" => session' # "open"
      BY <1>4 DEF Claim
    <3> QED BY <1>4, <2>1, <3>1, <3>2, <3>3, <3>4, <3>5 DEF RTypeOK, Retirement, Claim
  <2>3. RecordGoesLast'
    BY <1>4 DEF Claim, RecordGoesLast
  <2>4. RetirerKnows(c)'
    <3>1. CASE session # "deleted" /\ Stamp = retirer[c].stamp /\ c \notin Deleters
      <4>1. Quiet
        BY <1>4, <3>1, ClaimQuiets DEF Claim
      <4> QED BY <1>4, <3>1, <4>1, SMT DEF Claim, Goes, RetirerKnows, Quiet, turnVars, rowVars, RTypeOK
    <3>2. CASE ~(session # "deleted" /\ Stamp = retirer[c].stamp /\ c \notin Deleters)
      BY <1>4, <3>2, SMT DEF Claim, Goes, Rests, Resting, Working, RetirerKnows, RTypeOK
    <3> QED BY <3>1, <3>2
  <2>5. ASSUME NEW d \in Retirers \ {c} PROVE RetirerKnows(d)'
    BY <1>4, OthersKnow, SMT DEF Claim, Goes, Rests, RTypeOK, turnVars, rowVars
  <2> QED BY <2>1, <2>2, <2>3, <2>4, <2>5
<1>5. CASE DeleteLooks(c)
  <2>1. RTypeOK'
    <3>1. retirer' \in [Retirers -> Retirement]
      BY <1>0, <1>5, MovesTyped DEF DeleteLooks
    <3>2. \A d \in Retirers \ {c} : retirer'[d] = retirer[d]
      BY <1>0, <1>5 DEF DeleteLooks, Goes
    <3>3. retirer'[c].pc \in {"stop", "cancel", "await"} => retirer'[c].turn \in Turns
      BY <1>0, <1>5, SMT DEF DeleteLooks, Goes, Working, Retirement
    <3>4. session # "open"
      BY <1>5 DEF RTypeOK, DeleteLooks
    <3> QED BY <1>5, <3>1, <3>2, <3>3, <3>4 DEF RTypeOK, Retirement, DeleteLooks, vars, TypeOK
  <2>2. RetirerKnows(c)'
    <3>1. CASE /\ \A t \in Turns : ~(status[t] = "running" /\ expires[t] > now)
               /\ Goes(c, "teardown")
      BY <1>0, <1>5, <3>1, SMT DEF DeleteLooks, Goes, RetirerKnows, Quiet, RTypeOK, TypeOK, vars
    <3>2. ASSUME NEW t \in Turns, status[t] = "running",
                 retirer' = [retirer EXCEPT ![c] = Working("stop", t, <<0, {}>>)]
          PROVE  RetirerKnows(c)'
      BY <1>0, <1>5, <3>2, SMT DEF DeleteLooks, Working, RetirerKnows, HolderInv, RTypeOK, vars
    <3> QED BY <1>5, <3>1, <3>2 DEF DeleteLooks
  <2> QED BY <1>1, <1>5, <2>1, <2>2 DEF DeleteLooks, Goes, RTypeOK
<1>6. CASE DeleteStops(c)
  <2>0. retirer[c].turn \in Turns
    BY <1>6 DEF DeleteStops, RTypeOK
  <2>1. TypeOK' /\ ClaimInv' /\ ProducerKeepsTurn' /\ HolderInv'
    <3>1. stop' \in [Turns -> BOOLEAN]
      BY <1>0, <1>6, <2>0 DEF DeleteStops, TypeOK
    <3> QED BY <1>0, <1>6, <3>1, RowsUntouched DEF DeleteStops, TypeOK
  <2>2. RTypeOK' /\ RecordGoesLast'
    BY <1>6, <2>0, <2>1, SMT DEF DeleteStops, Goes, RTypeOK, RecordGoesLast
  <2>3. RetirerKnows(c)'
    BY <1>0, <1>6, SMT DEF DeleteStops, Goes, RetirerKnows, RTypeOK
  <2>4. ASSUME NEW d \in Retirers \ {c} PROVE RetirerKnows(d)'
    BY <1>6, OthersKnow, SMT DEF DeleteStops, Goes, RTypeOK, turnVars
  <2> QED BY <2>1, <2>2, <2>3, <2>4
<1>7. CASE DeleteCancels(c)
  <2>0. retirer[c].turn \in Turns
    BY <1>7 DEF DeleteCancels, RTypeOK
  <2>1. TypeOK' /\ ClaimInv' /\ ProducerKeepsTurn' /\ HolderInv'
    BY <1>7, TurnCancelled
  <2>2. RTypeOK' /\ RecordGoesLast'
    BY <1>7, <2>0, <2>1, SMT DEF DeleteCancels, Goes, RTypeOK, RecordGoesLast, sessionVars
  <2>3. RetirerKnows(c)'
    BY <1>0, <1>7, SMT DEF DeleteCancels, Goes, RetirerKnows, RTypeOK, rowVars
  <2>4. ASSUME NEW d \in Retirers \ {c} PROVE RetirerKnows(d)'
    BY <1>7, OthersKnow, SMT DEF DeleteCancels, Goes, RTypeOK, clockVars, rowVars
  <2> QED BY <2>1, <2>2, <2>3, <2>4
<1>8. CASE DeleteAwaits(c)
  <2>1. RTypeOK'
    <3>1. retirer' \in [Retirers -> Retirement]
      BY <1>0, <1>8, MovesTyped DEF DeleteAwaits
    <3>2. \A d \in Retirers \ {c} : retirer'[d] = retirer[d]
      BY <1>0, <1>8 DEF DeleteAwaits, Goes, Rests
    <3>3. retirer'[c].pc \notin {"stop", "cancel", "await"}
      BY <1>0, <1>8, SMT DEF DeleteAwaits, Goes, Rests, Resting, Working, Retirement
    <3>4. session # "open"
      BY <1>8 DEF RTypeOK, DeleteAwaits
    <3> QED BY <1>8, <3>1, <3>2, <3>3, <3>4 DEF RTypeOK, Retirement, DeleteAwaits, vars, TypeOK
  <2>2. RetirerKnows(c)'
    BY <1>0, <1>8, SMT DEF DeleteAwaits, Goes, Rests, Resting, Working, RetirerKnows, Quiet,
                           RTypeOK, vars
  <2> QED BY <1>1, <1>8, <2>1, <2>2 DEF DeleteAwaits, Goes, Rests, RTypeOK
<1>9. CASE Destroy(c)
  <2>1. TypeOK' /\ ClaimInv' /\ ProducerKeepsTurn' /\ HolderInv'
    BY <1>0, <1>9, RowsUntouched DEF Destroy, vars, turnVars, wfVars, actVars, TypeOK
  <2>2. RTypeOK' /\ RecordGoesLast'
    BY <1>9, <2>1, SMT DEF Destroy, Goes, RTypeOK, RecordGoesLast, vars
  <2>3. RetirerKnows(c)'
    BY <1>0, <1>9, SMT DEF Destroy, Goes, RetirerKnows, Quiet, RTypeOK, vars
  <2>4. ASSUME NEW d \in Retirers \ {c} PROVE RetirerKnows(d)'
    BY <1>9, OthersKnow, SMT DEF Destroy, Goes, RTypeOK, vars
  <2> QED BY <2>1, <2>2, <2>3, <2>4
<1>10. CASE DeleteRecord(c)
  <2>1. TypeOK' /\ ClaimInv' /\ ProducerKeepsTurn' /\ HolderInv'
    BY <1>10, RecordDeleted
  <2>2. RTypeOK'
    BY <1>10, <2>1, SMT DEF DeleteRecord, Rests, Resting, Working, RTypeOK
  <2>3. RecordGoesLast'
    BY <1>10 DEF DeleteRecord, RecordGoesLast, RetirerKnows
  <2>4. \A t \in Turns : status'[t] # "running"
    BY <1>0, <1>10, SMT DEF DeleteRecord, TypeOK, HasRow
  <2>5. \A d \in Retirers : RetirerKnows(d)'
    <3> SUFFICES ASSUME NEW d \in Retirers PROVE RetirerKnows(d)'
      OBVIOUS
    <3>1. Quiet'
      BY <2>4 DEF Quiet
    <3>2. destroyed' /\ now' = now
      BY <1>10 DEF DeleteRecord, RetirerKnows, turnVars
    <3> QED BY <1>10, <2>4, <3>1, <3>2, SMT DEF DeleteRecord, Rests, Resting, Working, RetirerKnows,
                                               RTypeOK
  <2> QED BY <2>1, <2>2, <2>3, <2>5
<1>11. CASE RetirerFails(c)
  <2>1. RTypeOK'
    BY <1>0, <1>11, SMT DEF RetirerFails, Rests, Resting, Working, RTypeOK, TypeOK, vars
  <2>2. RetirerKnows(c)'
    BY <1>11, SMT DEF RetirerFails, Rests, Resting, Working, RetirerKnows, RTypeOK
  <2> QED BY <1>1, <1>11, <2>1, <2>2 DEF RetirerFails, Rests, RTypeOK
<1> QED BY <1>2, <1>3, <1>4, <1>5, <1>6, <1>7, <1>8, <1>9, <1>10, <1>11 DEF Proceeds

\* The invariant of the conversation's end is inductive.
LEMMA RetireNext == RetireInv /\ [RNext]_allVars => RetireInv'
<1> SUFFICES ASSUME RetireInv, [RNext]_allVars PROVE RetireInv'
  OBVIOUS
<1>1. CASE UNCHANGED allVars
  <2>1. UNCHANGED <<vars, retirer, destroyed>>
    BY <1>1 DEF allVars, retireVars
  <2>2. TypeOK' /\ ClaimInv' /\ ProducerKeepsTurn' /\ HolderInv'
    BY <2>1, RowsUntouched DEF RetireInv, RTypeOK, TypeOK, vars, turnVars, wfVars, actVars
  <2> QED BY <2>1, <2>2 DEF RetireInv, RTypeOK, RetirerKnows, Quiet, RecordGoesLast, vars
<1> QED BY <1>1, TurnsKeepRetireInv, RetirersKeepRetireInv DEF RNext

\* With deletions and sweeps at work, wherever they fail, every state is
\* well-typed and a producer still keeps its turn until it is given up.
THEOREM RetirementKeepsTurns == RSpec => [](RTypeOK /\ ClaimInv /\ ProducerKeepsTurn)
<1>1. RetireInv => RTypeOK /\ ClaimInv /\ ProducerKeepsTurn
  BY DEF RetireInv
<1> QED BY <1>1, RetireInit, RetireNext, PTL DEF RSpec

\* While anything of a conversation may be left, its record is there.
THEOREM RecordIsLast == RSpec => []RecordGoesLast
<1>1. RetireInv => RecordGoesLast
  BY DEF RetireInv
<1> QED BY <1>1, RetireInit, RetireNext, PTL DEF RSpec

\* A conversation's state is torn down only when no turn holds it.
THEOREM TeardownIsQuiet == RSpec => TeardownSparesHolders
<1> DEFINE Spared == ~destroyed /\ destroyed' => \A t \in Turns : Alive(t) => status[t] # "running"
<1>1. RetireInv /\ [RNext]_allVars => [Spared]_allVars
  <2> SUFFICES ASSUME RetireInv, RNext, ~destroyed, destroyed'
               PROVE  \A t \in Turns : Alive(t) => status[t] # "running"
    OBVIOUS
  <2>1. PICK c \in Retirers : Proceeds(c) \/ RetirerFails(c)
    BY DEF RNext, retireVars
  <2>2. Destroy(c)
    BY <2>1 DEF Proceeds, RetirerFails, DeleteReads, ReaperLists, Claim, DeleteLooks, DeleteStops,
                DeleteCancels, DeleteAwaits, DeleteRecord
  <2>3. Quiet /\ TypeOK
    BY <2>2 DEF RetireInv, RetirerKnows, RTypeOK, Destroy
  <2> QED BY <2>3, SMT DEF RetireInv, ProducerKeepsTurn, Quiet, ClaimInv, RowClosesOnce, TypeOK
<1> QED BY <1>1, RetireInit, RetireNext, PTL DEF RSpec, TeardownSparesHolders
=============================================================================
