------------------------- MODULE ElicitationsProofs -------------------------
(***************************************************************************)
(* Proofs about Elicitations, for any number of parked calls, questions    *)
(* and resuming turns, and any limit.                                      *)
(***************************************************************************)
EXTENDS Elicitations, FiniteSetTheorems, TLAPS

-----------------------------------------------------------------------------
\* What answers that left imply: the rows they were taken from are spent, and so
\* is the group whose continuation asked the questions of another.
AnswersSpent ==
    /\ \A g \in Groups : sent[g] > 0 =>
          g \in Parked /\ \A q \in RowsOf(g) : rows[g][q] = "consumed"
    /\ \A r \in Resumers : IsAt(r, "call") => sent[job[r].group] > 0
    /\ \A g \in Groups : parent[g] # NoGroup => sent[parent[g]] > 0

ElicitIInv == ElicitInv /\ AnswersSpent

-----------------------------------------------------------------------------
(* Lemmas about the rows of a group.                                       *)

\* A group that is not stored has no rows.
LEMMA NoRowsTyped == NoRows \in RowSets /\ DOMAIN NoRows = {}
<1>1. NoRows \in [{} -> RowStatus]
  BY DEF NoRows
<1> QED BY <1>1 DEF RowSets, NoRows

\* A group is stored exactly when it has rows.
LEMMA StoredHasRows ==
    ASSUME ElicitTypeOK, NEW g \in Groups
    PROVE  Stored(g) <=> RowsOf(g) # {}
<1>1. PICK S \in SUBSET Questions : rows[g] \in [S -> RowStatus]
  BY DEF ElicitTypeOK, RowSets
<1>2. RowsOf(g) = S
  BY <1>1 DEF RowsOf
<1>3. S = {} => rows[g] = NoRows
  BY <1>1 DEF NoRows
<1> QED BY <1>2, <1>3, NoRowsTyped DEF Stored, RowsOf

\* The rows of a group are those of some of the questions.
LEMMA RowsTyped ==
    ASSUME ElicitTypeOK, NEW g \in Groups
    PROVE  /\ RowsOf(g) \subseteq Questions
           /\ rows[g] \in [RowsOf(g) -> RowStatus]
           /\ \A S \in SUBSET Questions : \A f \in [S -> RowStatus] : f \in RowSets
BY DEF ElicitTypeOK, RowSets, RowsOf

\* The rows the limit counts are finitely many.
LEMMA LiveRowsFinite == IsFiniteSet(LiveRows)
<1>1. IsFiniteSet(Groups \X Questions)
  BY FS_Product, LimitAssumption
<1>2. LiveRows \subseteq Groups \X Questions
  BY DEF LiveRows
<1> QED BY <1>1, <1>2, FS_Subset

\* A step that stores no row and revives none stays under the limit.
LEMMA FewerRows ==
    ASSUME LimitHolds, LiveRows' \subseteq LiveRows
    PROVE  LimitHolds'
<1>1. Cardinality(LiveRows') <= Cardinality(LiveRows) /\ Cardinality(LiveRows') \in Nat
      /\ Cardinality(LiveRows) \in Nat
  BY LiveRowsFinite, FS_Subset, FS_CardinalityType
<1> QED BY <1>1, LimitAssumption, SMT DEF LimitHolds

\* What is parked is counted, in the transaction that stores it.
LEMMA ParkedFits ==
    ASSUME ElicitTypeOK, NEW g \in Groups \ Parked, NEW S \in SUBSET Questions,
           Fits(Cardinality(S)), rows' = [rows EXCEPT ![g] = [q \in S |-> "pending"]],
           lapsed' = lapsed
    PROVE  LimitHolds'
<1>1. LiveRows' \subseteq LiveRows \cup ({g} \X S)
  BY SMT DEF LiveRows, RowsOf, ElicitTypeOK
<1>2. IsFiniteSet(S) /\ IsFiniteSet({g}) /\ Cardinality({g}) = 1 /\ Cardinality(S) \in Nat
  BY LimitAssumption, FS_Subset, FS_Singleton, FS_CardinalityType
<1>3. IsFiniteSet({g} \X S) /\ Cardinality({g} \X S) = Cardinality(S)
  BY <1>2, FS_Product
<1> DEFINE All == LiveRows \cup ({g} \X S)
<1>4. IsFiniteSet(All) /\ Cardinality(All) <= Cardinality(LiveRows) + Cardinality(S)
  <2>1. /\ IsFiniteSet(All)
        /\ Cardinality(All) = Cardinality(LiveRows) + Cardinality({g} \X S)
                              - Cardinality(LiveRows \cap ({g} \X S))
    BY <1>3, LiveRowsFinite, FS_Union
  <2>2. Cardinality(LiveRows \cap ({g} \X S)) \in Nat /\ Cardinality(LiveRows) \in Nat
    BY LiveRowsFinite, FS_Intersection, FS_CardinalityType
  <2> QED BY <1>2, <1>3, <2>1, <2>2, SMT
<1>5. Cardinality(LiveRows') <= Cardinality(All) /\ Cardinality(LiveRows') \in Nat
      /\ Cardinality(All) \in Nat /\ Cardinality(LiveRows) \in Nat
  BY <1>1, <1>4, LiveRowsFinite, FS_Subset, FS_CardinalityType
<1> QED BY <1>2, <1>4, <1>5, LimitAssumption, SMT DEF Fits, LimitHolds

-----------------------------------------------------------------------------
\* The invariant holds of an empty store.
LEMMA ElicitInitial == ElicitInit => ElicitIInv
<1> SUFFICES ASSUME ElicitInit PROVE ElicitIInv
  OBVIOUS
<1>1. ElicitTypeOK
  BY NoRowsTyped, SMT DEF ElicitInit, ElicitTypeOK, Parked, Stored, GateStatus, Idle, IsAt
<1>2. \A g \in Groups : RowsOf(g) = {}
  BY NoRowsTyped DEF ElicitInit, RowsOf
<1>3. LimitHolds
  <2>1. LiveRows = {}
    BY <1>2 DEF LiveRows
  <2> QED BY <2>1, FS_EmptySet, LimitAssumption DEF LimitHolds
<1> QED BY <1>1, <1>2, <1>3
        DEF ElicitInit, ElicitIInv, ElicitInv, AnswersSpent, AnswersGoOnce, ClaimedTogether,
            DeletedLeavesNothing, DeclineIsTerminal, Idle, IsAt


\* Parking a call keeps the rows in their shape, whoever parks it.
LEMMA ParkTypes ==
    ASSUME ElicitTypeOK, NEW g \in Groups, NEW by \in {"chat", "sandbox"},
           NEW from \in Parked \cup {NoGroup}, Park(g, by, from)
    PROVE  /\ rows' \in [Groups -> RowSets] /\ gate' \in [Groups -> GateStatus]
           /\ kind' \in [Groups -> {"none", "chat", "sandbox"}]
           /\ Parked' = Parked \cup {g}
           /\ parent' \in [Groups -> Parked' \cup {NoGroup}]
           /\ \A h \in Groups : rows'[h] # NoRows => h \in Parked'
<1>1. PICK S \in SUBSET Questions : rows' = [rows EXCEPT ![g] = [q \in S |-> "pending"]]
  BY DEF Park
<1>2. [q \in S |-> "pending"] \in RowSets
  BY DEF RowSets, RowStatus
<1>3. rows' \in [Groups -> RowSets]
  BY <1>1, <1>2 DEF ElicitTypeOK
<1>4. /\ gate' \in [Groups -> GateStatus]
      /\ kind' \in [Groups -> {"none", "chat", "sandbox"}] /\ kind' = [kind EXCEPT ![g] = by]
  BY DEF Park, ElicitTypeOK, GateStatus
<1>5. Parked' = Parked \cup {g}
  BY <1>4 DEF Parked, ElicitTypeOK
<1>6. parent' \in [Groups -> Parked' \cup {NoGroup}]
  BY <1>5 DEF Park, ElicitTypeOK
<1>7. \A h \in Groups : rows'[h] # NoRows => h \in Parked'
  BY <1>1, <1>5 DEF ElicitTypeOK, Stored
<1> QED BY <1>3, <1>4, <1>5, <1>6, <1>7

\* All rows of a group are consumed.
Consumed(g) == [rows EXCEPT ![g] = [q \in RowsOf(g) |-> "consumed"]]

\* Consuming a group changes the status of its rows, not which there are.
LEMMA ConsumedTypes ==
    ASSUME ElicitTypeOK, NEW g \in Groups, Stored(g), rows' = Consumed(g)
    PROVE  /\ rows' \in [Groups -> RowSets]
           /\ \A h \in Groups : Stored(h)' => Stored(h)
           /\ \A h \in Groups : RowsOf(h)' = RowsOf(h)
           /\ \A h \in Groups \ {g} : rows'[h] = rows[h]
           /\ \A q \in RowsOf(g) : rows'[g][q] = "consumed"
<1>1. [q \in RowsOf(g) |-> "consumed"] \in RowSets
  <2>1. [q \in RowsOf(g) |-> "consumed"] \in [RowsOf(g) -> RowStatus]
    BY DEF RowStatus
  <2> QED BY <2>1, RowsTyped
<1>2. rows' \in [Groups -> RowSets] /\ rows'[g] = [q \in RowsOf(g) |-> "consumed"]
      /\ \A h \in Groups \ {g} : rows'[h] = rows[h]
  BY <1>1 DEF Consumed, ElicitTypeOK
<1> QED BY <1>2 DEF Stored, RowsOf

\* A turn or delegation that moves on, or rests, has its group.
Jobs == [at : {"idle", "read", "gate", "bind", "claim", "call"}, group : Groups \cup {NoGroup}]
JobsOK == /\ job \in [Resumers -> Jobs]
          /\ \A r \in Resumers : IF IsAt(r, "idle") THEN job[r] = Idle ELSE job[r].group \in Parked

\* Every step of a resuming turn leaves it idle or with a group that is parked.
LEMMA JobTypes ==
    ASSUME ElicitTypeOK, NEW r \in Resumers, Parked \subseteq Parked',
           \/ Rests(r) \/ job' = job
           \/ \E s \in {"read", "gate", "bind", "claim", "call"} : Goes(r, s) /\ ~IsAt(r, "idle")
           \/ \E g \in Parked, s \in {"read", "claim"} :
                 job' = [job EXCEPT ![r] = [at |-> s, group |-> g]]
    PROVE  JobsOK'
<1>1. JobsOK
  BY DEF ElicitTypeOK, JobsOK, Jobs
<1>2. CASE Rests(r)
  <2>1. Idle \in Jobs /\ Idle.at = "idle"
    BY DEF Idle, Jobs
  <2> QED BY <1>1, <1>2, <2>1 DEF JobsOK, Rests, IsAt
<1>3. ASSUME NEW s \in {"read", "gate", "bind", "claim", "call"}, Goes(r, s), ~IsAt(r, "idle")
      PROVE  JobsOK'
  <2> DEFINE new == [job[r] EXCEPT !.at = s]
  <2>1. new \in Jobs /\ new.at = s /\ new.group = job[r].group
    BY <1>1 DEF JobsOK, Jobs
  <2>2. job' = [job EXCEPT ![r] = new]
    BY <1>3 DEF Goes
  <2> QED BY <1>1, <1>3, <2>1, <2>2 DEF JobsOK, IsAt
<1>4. ASSUME NEW g \in Parked, NEW s \in {"read", "claim"},
             job' = [job EXCEPT ![r] = [at |-> s, group |-> g]]
      PROVE  JobsOK'
  <2> DEFINE new == [at |-> s, group |-> g]
  <2>1. new \in Jobs /\ new.at = s /\ new.group = g
    BY DEF Jobs, Parked
  <2> HIDE DEF new
  <2> QED BY <1>1, <1>4, <2>1 DEF JobsOK, IsAt, new
<1>5. CASE job' = job
  BY <1>1, <1>5 DEF JobsOK, IsAt
<1> QED BY <1>2, <1>3, <1>4, <1>5

\* Every step keeps the types.
LEMMA ElicitTypeNext == ElicitTypeOK /\ [ElicitNext]_elicitVars => ElicitTypeOK'
<1> SUFFICES ASSUME ElicitTypeOK, [ElicitNext]_elicitVars PROVE ElicitTypeOK'
  OBVIOUS
<1> USE DEF storeVars
<1>1. ASSUME NEW g \in Groups, NEW by \in {"chat", "sandbox"}, FirstCall(g, by)
      PROVE  ElicitTypeOK'
  <2>1. Park(g, by, NoGroup)
    BY <1>1 DEF FirstCall
  <2> QED BY <1>1, <2>1, ParkTypes DEF FirstCall, ElicitTypeOK, Stored, IsAt
<1>2. ASSUME NEW g \in Groups, NEW q \in Questions, NEW a \in Answered, Respond(g, q, a)
      PROVE  ElicitTypeOK'
  <2>1. rows'[g] \in [RowsOf(g) -> RowStatus] /\ RowsOf(g) \subseteq Questions
        /\ rows' = [rows EXCEPT ![g] = [rows[g] EXCEPT ![q] = a]]
    BY <1>2, RowsTyped DEF Respond, ElicitTypeOK, RowStatus
  <2>2. rows' \in [Groups -> RowSets]
    BY <2>1, RowsTyped DEF ElicitTypeOK
  <2>3. g \in Parked /\ Parked' = Parked
    BY <1>2, StoredHasRows DEF Respond, ElicitTypeOK, Parked
  <2>4. \A h \in Groups : rows'[h] # NoRows => h \in Parked'
    BY <2>1, <2>3 DEF ElicitTypeOK, Stored
  <2> QED BY <1>2, <2>2, <2>3, <2>4 DEF Respond, ElicitTypeOK, Stored, IsAt
<1>3. ASSUME NEW g \in Groups, Decide(g) \/ ResumeConfirmed(g) PROVE ElicitTypeOK'
  <2>1. gate' \in [Groups -> GateStatus]
    BY <1>3 DEF Decide, ResumeConfirmed, ElicitTypeOK, GateStatus
  <2> QED BY <1>3, <2>1 DEF Decide, ResumeConfirmed, ElicitTypeOK, Stored, Parked, IsAt
<1>4. ASSUME NEW g \in Groups, Expire(g) PROVE ElicitTypeOK'
  BY <1>4 DEF Expire, ElicitTypeOK, Stored, Parked, IsAt
<1>5. ASSUME NEW g \in Groups, Purge(g) PROVE ElicitTypeOK'
  BY <1>5, NoRowsTyped DEF Purge, ElicitTypeOK, Stored, Parked, IsAt
<1>6. ASSUME NEW r \in Resumers, ResumerNext(r) PROVE ElicitTypeOK'
  <2>0. job[r].group \in Groups \cup {NoGroup} /\ (~IsAt(r, "idle") => job[r].group \in Parked)
    BY DEF ElicitTypeOK
  \* What is left to show of a step that parks nothing.
  <2>1. ASSUME JobsOK', UNCHANGED <<thread, kind, lapsed, declined, parent>>,
               rows' \in [Groups -> RowSets], \A h \in Groups : Stored(h)' => Stored(h),
               gate' \in [Groups -> GateStatus], bound' \subseteq Parked, sent' \in [Groups -> Nat]
        PROVE  ElicitTypeOK'
    BY <2>1 DEF ElicitTypeOK, JobsOK, Jobs, Parked
  <2>2. ASSUME NEW g \in Groups, Resume(r, g) \/ Delegate(r, g) PROVE ElicitTypeOK'
    <3>1. JobsOK'
      BY <2>2, JobTypes DEF Resume, Delegate, Parked
    <3> QED BY <2>1, <2>2, <3>1 DEF Resume, Delegate, ElicitTypeOK, Stored
  <2>3. CASE Check(r)
    <3>0. JobsOK' /\ ~IsAt(r, "idle")
      BY <2>3, JobTypes DEF Check, IsAt, Parked
    <3>1. CASE UNCHANGED rows
      BY <2>1, <2>3, <3>0, <3>1 DEF Check, ElicitTypeOK, Stored
    <3>2. CASE rows' = Consumed(job[r].group) /\ Stored(job[r].group)
      <4>1. job[r].group \in Groups
        BY <2>0, <3>0 DEF Parked
      <4> QED BY <2>1, <2>3, <3>0, <3>2, <4>1, ConsumedTypes DEF Check, ElicitTypeOK
    <3> QED BY <2>3, <3>1, <3>2 DEF Check, Consumed, Claimable
  <2>4. CASE Approve(r)
    <3>1. gate' \in [Groups -> GateStatus]
      BY <2>4 DEF Approve, ElicitTypeOK, GateStatus
    <3>2. JobsOK'
      BY <2>4, JobTypes DEF Approve, IsAt, Parked
    <3> QED BY <2>1, <2>4, <3>1, <3>2 DEF Approve, ElicitTypeOK, Stored
  <2>5. CASE Bind(r)
    <3>1. JobsOK' /\ ~IsAt(r, "idle")
      BY <2>5, JobTypes DEF Bind, IsAt, Parked
    <3> QED BY <2>0, <2>1, <2>5, <3>1 DEF Bind, ElicitTypeOK, Stored
  <2>6. CASE Claim(r)
    <3>0. JobsOK' /\ job[r].group \in Groups
      BY <2>0, <2>6, JobTypes DEF Claim, IsAt, Parked
    <3>1. CASE Claimable(job[r].group)
      <4>1. sent' \in [Groups -> Nat]
        BY <2>6, <3>0, <3>1 DEF Claim, ElicitTypeOK
      <4>2. rows' = Consumed(job[r].group) /\ Stored(job[r].group)
        BY <2>6, <3>1 DEF Claim, Consumed, Claimable
      <4> QED BY <2>1, <2>6, <3>0, <4>1, <4>2, ConsumedTypes DEF Claim, ElicitTypeOK
    <3>2. CASE ~Claimable(job[r].group)
      BY <2>1, <2>6, <3>0, <3>2 DEF Claim, ElicitTypeOK, Stored
    <3> QED BY <3>1, <3>2
  <2>7. CASE Returns(r) \/ Dies(r)
    <3>1. JobsOK'
      BY <2>7, JobTypes DEF Returns, Dies, Parked
    <3> QED BY <2>1, <2>7, <3>1 DEF Returns, Dies, ElicitTypeOK, Stored
  <2>8. ASSUME NEW g \in Groups, AsksAgain(r, g) PROVE ElicitTypeOK'
    <3>1. /\ job[r].group \in Parked /\ Park(g, kind[job[r].group], job[r].group)
          /\ kind[job[r].group] \in {"chat", "sandbox"}
      BY <2>0, <2>8 DEF AsksAgain, IsAt, Parked, ElicitTypeOK
    <3>2. Parked' = Parked \cup {g}
      BY <3>1, ParkTypes
    <3>3. JobsOK'
      BY <2>8, <3>2, JobTypes DEF AsksAgain
    <3> QED BY <2>8, <3>1, <3>3, ParkTypes DEF AsksAgain, ElicitTypeOK, JobsOK, Jobs, Stored
  <2> QED BY <1>6, <2>2, <2>3, <2>4, <2>5, <2>6, <2>7, <2>8 DEF ResumerNext
<1>7. CASE Retire \/ DeleteThread
  BY <1>7, NoRowsTyped DEF Retire, DeleteThread, ElicitTypeOK, Stored, Parked, IsAt
<1>8. CASE UNCHANGED elicitVars
  BY <1>8 DEF elicitVars, ElicitTypeOK, Stored, Parked, IsAt
<1> QED BY <1>1, <1>2, <1>3, <1>4, <1>5, <1>6, <1>7, <1>8 DEF ElicitNext
-----------------------------------------------------------------------------
\* What the invariant says beside the types and the limit.
AnswersInv ==
    /\ AnswersGoOnce /\ ClaimedTogether /\ DeletedLeavesNothing /\ DeclineIsTerminal
    /\ AnswersSpent

\* No turn begins a call without sending what it claimed.
CallsKept == \A r \in Resumers : IsAt(r, "call")' => IsAt(r, "call") /\ job'[r] = job[r]

\* Steps that touch neither rows nor answers.
LEMMA RestKept ==
    ASSUME AnswersInv, UNCHANGED <<rows, kind, sent, declined, parent>>, CallsKept,
           thread' = "deleted" => thread = "deleted"
    PROVE  AnswersInv'
BY DEF AnswersInv, AnswersGoOnce, ClaimedTogether, DeletedLeavesNothing, DeclineIsTerminal,
       AnswersSpent, CallsKept, RowsOf, Stored, Parked

\* New questions are pending, and are asked for no declined request.
LEMMA ParkKeeps ==
    ASSUME ElicitTypeOK, AnswersInv, NEW g \in Groups, NEW by \in {"chat", "sandbox"},
           NEW from \in Parked \cup {NoGroup}, Park(g, by, from),
           from \notin declined, from # NoGroup => sent[from] > 0,
           UNCHANGED <<thread, sent, declined>>, CallsKept
    PROVE  AnswersInv'
<1>1. PICK S \in SUBSET Questions : rows' = [rows EXCEPT ![g] = [q \in S |-> "pending"]]
  BY DEF Park
<1>2. /\ rows'[g] = [q \in S |-> "pending"] /\ \A h \in Groups \ {g} : rows'[h] = rows[h]
      /\ RowsOf(g)' = S /\ \A h \in Groups \ {g} : RowsOf(h)' = RowsOf(h)
  BY <1>1 DEF ElicitTypeOK, RowsOf
<1>3. RowsOf(g) = {} /\ thread = "open"
  BY StoredHasRows DEF Park, ElicitTypeOK, Fits
<1>4. parent' = [parent EXCEPT ![g] = from]
  BY DEF Park
<1>5. AnswersGoOnce' /\ ClaimedTogether' /\ DeletedLeavesNothing' /\ DeclineIsTerminal'
  BY <1>2, <1>3, <1>4 DEF AnswersInv, AnswersGoOnce, ClaimedTogether, DeletedLeavesNothing,
                          DeclineIsTerminal, ElicitTypeOK
<1>6. sent[g] = 0
  BY SMT DEF Park, AnswersInv, AnswersSpent, ElicitTypeOK
<1>7. AnswersSpent'
  <2>1. ASSUME NEW h \in Groups, sent[h] > 0
        PROVE  h \in Parked' /\ \A q \in RowsOf(h)' : rows'[h][q] = "consumed"
    <3>1. h # g /\ h \in Parked /\ \A q \in RowsOf(h) : rows[h][q] = "consumed"
      BY <1>6, <2>1, SMT DEF AnswersInv, AnswersSpent
    <3>2. Parked' = Parked \cup {g}
      BY ParkTypes
    <3> QED BY <1>2, <3>1, <3>2
  <2>2. ASSUME NEW r \in Resumers, IsAt(r, "call")' PROVE sent[job'[r].group] > 0
    BY <2>2 DEF AnswersInv, AnswersSpent, CallsKept
  <2>3. ASSUME NEW h \in Groups, parent'[h] # NoGroup PROVE sent[parent'[h]] > 0
    <3>1. CASE h = g
      BY <1>4, <2>3, <3>1 DEF ElicitTypeOK
    <3>2. CASE h # g
      BY <1>4, <2>3, <3>2 DEF AnswersInv, AnswersSpent, ElicitTypeOK
    <3> QED BY <3>1, <3>2
  <2> QED BY <2>1, <2>2, <2>3 DEF AnswersSpent
<1> QED BY <1>5, <1>7 DEF AnswersInv

\* An answer goes to a question that is open: none of its group has left.
LEMMA RespondKeeps ==
    ASSUME ElicitTypeOK, AnswersInv, NEW g \in Groups, NEW q \in Questions,
           NEW a \in Answered, Respond(g, q, a)
    PROVE  AnswersInv'
<1> USE DEF storeVars
<1>1. /\ q \in RowsOf(g) /\ rows[g][q] = "pending" /\ a # "consumed"
      /\ rows[g] \in [RowsOf(g) -> RowStatus] /\ rows \in [Groups -> RowSets]
  BY RowsTyped DEF Respond, Answered, ElicitTypeOK
<1>2. /\ \A h \in Groups : RowsOf(h)' = RowsOf(h)
      /\ \A h \in Groups \ {g} : rows'[h] = rows[h]
      /\ rows'[g] = [rows[g] EXCEPT ![q] = a]
  BY <1>1 DEF Respond, RowsOf
<1>3. \A p \in RowsOf(g) : rows[g][p] # "consumed" /\ rows'[g][p] # "consumed"
  BY <1>1, <1>2 DEF AnswersInv, ClaimedTogether
<1>4. ClaimedTogether'
  <2>1. ASSUME NEW h \in Groups, NEW p \in RowsOf(h), NEW o \in RowsOf(h),
               rows'[h][p] = "consumed"
        PROVE  rows'[h][o] = "consumed"
    <3>1. h # g
      BY <1>3, <2>1
    <3> QED BY <1>2, <2>1, <3>1 DEF AnswersInv, ClaimedTogether
  <2> QED BY <1>2, <2>1 DEF ClaimedTogether
<1>5. ~(sent[g] > 0) /\ \A h \in Groups : parent[h] # g
  <2>1. ~(sent[g] > 0)
    BY <1>1 DEF AnswersInv, AnswersSpent
  <2> QED BY <2>1, LimitAssumption DEF AnswersInv, AnswersSpent
<1>6. AnswersSpent'
  BY <1>2, <1>5 DEF Respond, AnswersInv, AnswersSpent, IsAt, Parked
<1>7. DeclineIsTerminal' /\ AnswersGoOnce'
  BY <1>5 DEF Respond, AnswersInv, DeclineIsTerminal, AnswersGoOnce
<1>8. thread # "deleted"
  BY <1>1, StoredHasRows DEF AnswersInv, DeletedLeavesNothing
<1> QED BY <1>4, <1>6, <1>7, <1>8 DEF Respond, AnswersInv, DeletedLeavesNothing

\* A group is consumed as a whole, whether its answers leave or not; those that
\* leave had not left before.
LEMMA ConsumeKeeps ==
    ASSUME ElicitTypeOK, AnswersInv, NEW g \in Groups, Claimable(g), rows' = Consumed(g),
           UNCHANGED storeVars, NEW r \in Resumers,
           \A x \in Resumers \ {r} : job'[x] = job[x],
           \/ sent' = sent /\ ~IsAt(r, "call")'
           \/ sent' = [sent EXCEPT ![g] = @ + 1] /\ job'[r].group = g
    PROVE  AnswersInv'
<1> USE DEF storeVars
<1>1. /\ \A h \in Groups : Stored(h)' => Stored(h)
      /\ \A h \in Groups : RowsOf(h)' = RowsOf(h)
      /\ \A h \in Groups \ {g} : rows'[h] = rows[h]
      /\ \A q \in RowsOf(g) : rows'[g][q] = "consumed"
  BY ConsumedTypes DEF Claimable
<1>2. sent[g] = 0 /\ g \in Parked
  <2>1. PICK q \in RowsOf(g) : rows[g][q] \in Answered
    BY StoredHasRows DEF Claimable
  <2>2. ~(sent[g] > 0)
    BY <2>1 DEF AnswersInv, AnswersSpent, Answered
  <2>3. sent[g] \in Nat /\ g \in Parked
    BY DEF ElicitTypeOK, Claimable
  <2> QED BY <2>2, <2>3, SMT
<1>3. ClaimedTogether' /\ DeletedLeavesNothing' /\ DeclineIsTerminal'
  BY <1>1 DEF AnswersInv, ClaimedTogether, DeletedLeavesNothing, DeclineIsTerminal
<1>4. \A h \in Groups : sent'[h] \in Nat /\ sent'[h] >= sent[h] /\ sent'[h] <= 1
      /\ (sent'[h] > 0 => sent[h] > 0 \/ h = g)
  BY <1>2, SMT DEF ElicitTypeOK, AnswersInv, AnswersGoOnce
<1>5. AnswersGoOnce'
  BY <1>4 DEF AnswersGoOnce
<1>6. \A h \in Groups : sent'[h] > 0 =>
         h \in Parked' /\ \A q \in RowsOf(h)' : rows'[h][q] = "consumed"
  BY <1>1, <1>2, <1>4 DEF AnswersInv, AnswersSpent, Parked
<1>7. \A h \in Groups : parent'[h] # NoGroup => sent'[parent'[h]] > 0
  <2>1. \A h \in Groups : parent[h] \in Groups \cup {NoGroup}
    BY DEF ElicitTypeOK, Parked
  <2> QED BY <1>4, <2>1, SMT DEF AnswersInv, AnswersSpent, ElicitTypeOK
<1>8. ASSUME NEW x \in Resumers, IsAt(x, "call")' PROVE sent'[job'[x].group] > 0
  <2>1. CASE x = r
    BY <1>2, <1>8, <2>1, SMT DEF ElicitTypeOK
  <2>2. CASE x # r
    <3>1. IsAt(x, "call") /\ job[x].group \in Groups /\ job'[x].group = job[x].group
      BY <1>8, <2>2, SMT DEF IsAt, ElicitTypeOK, Parked
    <3> QED BY <1>4, <3>1, SMT DEF AnswersInv, AnswersSpent, ElicitTypeOK
  <2> QED BY <2>1, <2>2
<1> QED BY <1>3, <1>5, <1>6, <1>7, <1>8 DEF AnswersInv, AnswersSpent

\* Rows go when they have expired, and with their conversation.
LEMMA RowsGo ==
    ASSUME ElicitTypeOK, AnswersInv, UNCHANGED <<kind, sent, declined, parent, job>>,
           \A g \in Groups : rows'[g] \in {rows[g], NoRows},
           thread' = "deleted" => thread = "deleted" \/ \A g \in Groups : rows'[g] = NoRows
    PROVE  AnswersInv'
<1>1. \A g \in Groups : rows'[g] = rows[g] \/ RowsOf(g)' = {}
  BY NoRowsTyped DEF RowsOf
<1>2. AnswersGoOnce' /\ ClaimedTogether' /\ DeclineIsTerminal'
  BY <1>1 DEF AnswersInv, AnswersGoOnce, ClaimedTogether, DeclineIsTerminal, RowsOf
<1>3. AnswersSpent'
  BY <1>1 DEF AnswersInv, AnswersSpent, RowsOf, IsAt, Parked
<1>4. DeletedLeavesNothing'
  BY DEF AnswersInv, DeletedLeavesNothing, Stored
<1> QED BY <1>2, <1>3, <1>4 DEF AnswersInv

\* Every step keeps what the store and the resuming calls keep between them.
LEMMA AnswersNext == ElicitTypeOK /\ AnswersInv /\ [ElicitNext]_elicitVars => AnswersInv'
<1> SUFFICES ASSUME ElicitTypeOK, AnswersInv, [ElicitNext]_elicitVars PROVE AnswersInv'
  OBVIOUS
<1> USE DEF storeVars
<1>1. ASSUME NEW g \in Groups, NEW by \in {"chat", "sandbox"}, FirstCall(g, by)
      PROVE  AnswersInv'
  <2>1. NoGroup \notin declined
    BY LimitAssumption DEF ElicitTypeOK, Parked
  <2> QED BY <1>1, <2>1, ParkKeeps DEF FirstCall, CallsKept, IsAt
<1>2. ASSUME NEW g \in Groups, NEW q \in Questions, NEW a \in Answered, Respond(g, q, a)
      PROVE  AnswersInv'
  BY <1>2, RespondKeeps
<1>3. ASSUME NEW g \in Groups, Decide(g) \/ ResumeConfirmed(g) \/ Expire(g) PROVE AnswersInv'
  <2>1. CallsKept
    BY <1>3 DEF Decide, ResumeConfirmed, Expire, CallsKept, IsAt
  <2> QED BY <1>3, <2>1, RestKept DEF Decide, ResumeConfirmed, Expire
<1>4. ASSUME NEW g \in Groups, Purge(g) PROVE AnswersInv'
  BY <1>4, RowsGo DEF Purge, ElicitTypeOK
<1>5. ASSUME NEW r \in Resumers, ResumerNext(r) PROVE AnswersInv'
  <2>0. /\ job \in [Resumers -> Jobs] /\ (~IsAt(r, "idle") => job[r].group \in Parked)
        /\ Parked \subseteq Groups
    BY DEF ElicitTypeOK, Jobs, Parked
  <2>1. \A x \in Resumers \ {r} : job'[x] = job[x]
    BY <1>5, <2>0 DEF ResumerNext, Resume, Delegate, Check, Approve, Bind, Claim, Returns, Dies,
                      AsksAgain, Rests, Goes
  <2>2. Rests(r) => ~IsAt(r, "call")'
    BY <2>0 DEF Rests, Idle, IsAt
  <2>3. \A s \in {"gate", "bind", "claim"} : Goes(r, s) => ~IsAt(r, "call")'
    BY <2>0 DEF Goes, IsAt, Jobs
  <2>4. ASSUME NEW g \in Groups, Resume(r, g) \/ Delegate(r, g) PROVE AnswersInv'
    <3>1. CallsKept
      BY <2>0, <2>1, <2>4 DEF Resume, Delegate, CallsKept, IsAt
    <3> QED BY <2>4, <3>1, RestKept DEF Resume, Delegate
  <2>5. ~IsAt(r, "call")' => CallsKept
    BY <2>1 DEF CallsKept, IsAt
  <2>6. CASE Check(r)
    <3>1. CASE UNCHANGED rows
      BY <2>2, <2>3, <2>5, <2>6, <3>1, RestKept DEF Check
    <3>2. CASE rows' = Consumed(job[r].group) /\ Claimable(job[r].group) /\ Rests(r)
      <4>1. job[r].group \in Groups
        BY <2>0, <2>6 DEF Check, IsAt
      <4> QED BY <2>1, <2>2, <2>6, <3>2, <4>1, ConsumeKeeps DEF Check
    <3> QED BY <2>6, <3>1, <3>2 DEF Check, Consumed
  <2>7. CASE Approve(r) \/ Bind(r) \/ Returns(r) \/ Dies(r)
    <3>1. CallsKept
      BY <2>2, <2>3, <2>5, <2>7 DEF Approve, Bind, Returns, Dies
    <3> QED BY <2>7, <3>1, RestKept DEF Approve, Bind, Returns, Dies
  <2>8. CASE Claim(r)
    <3>1. job[r].group \in Groups
      BY <2>0, <2>8 DEF Claim, IsAt
    <3>2. CASE Claimable(job[r].group)
      <4>1. job'[r].group = job[r].group
        BY <2>0, <2>8, <3>2 DEF Claim, Goes, Jobs
      <4> QED BY <2>1, <2>8, <3>1, <3>2, <4>1, ConsumeKeeps DEF Claim, Consumed
    <3>3. CASE ~Claimable(job[r].group)
      BY <2>2, <2>5, <2>8, <3>3, RestKept DEF Claim
    <3> QED BY <3>2, <3>3
  <2>9. ASSUME NEW g \in Groups, AsksAgain(r, g) PROVE AnswersInv'
    <3>1. job[r].group \in Parked /\ sent[job[r].group] > 0
      BY <2>0, <2>9 DEF AsksAgain, IsAt, AnswersInv, AnswersSpent
    <3>2. kind[job[r].group] \in {"chat", "sandbox"}
      BY <3>1 DEF ElicitTypeOK, Parked
    <3> QED BY <2>2, <2>5, <2>9, <3>1, <3>2, ParkKeeps DEF AsksAgain
  <2> QED BY <1>5, <2>4, <2>6, <2>7, <2>8, <2>9 DEF ResumerNext
<1>6. CASE Retire
  BY <1>6, RowsGo DEF Retire
<1>7. CASE DeleteThread
  BY <1>7, RowsGo DEF DeleteThread
<1>8. CASE UNCHANGED elicitVars
  BY <1>8, RowsGo DEF elicitVars
<1> QED BY <1>1, <1>2, <1>3, <1>4, <1>5, <1>6, <1>7, <1>8 DEF ElicitNext
-----------------------------------------------------------------------------
\* No step passes the limit.
LEMMA LimitNext ==
    ElicitTypeOK /\ LimitHolds /\ [ElicitNext]_elicitVars => LimitHolds'
<1> SUFFICES ASSUME ElicitTypeOK, LimitHolds, [ElicitNext]_elicitVars PROVE LimitHolds'
  OBVIOUS
<1> USE DEF storeVars
<1>1. ASSUME NEW g \in Groups, NEW by, NEW from, Park(g, by, from), lapsed' = lapsed
      PROVE  LimitHolds'
  BY <1>1, ParkedFits DEF Park
<1>2. ASSUME lapsed \subseteq lapsed', \A g \in Groups : RowsOf(g)' \subseteq RowsOf(g)
      PROVE  LimitHolds'
  <2>1. LiveRows' \subseteq LiveRows
    BY <1>2 DEF LiveRows
  <2> QED BY <2>1, FewerRows
<1>3. ASSUME UNCHANGED <<rows, lapsed>> PROVE LimitHolds'
  BY <1>2, <1>3 DEF RowsOf
<1>4. ASSUME NEW g \in Groups, NEW by \in {"chat", "sandbox"}, FirstCall(g, by) PROVE LimitHolds'
  BY <1>1, <1>4 DEF FirstCall
<1>5. ASSUME NEW g \in Groups, NEW q \in Questions, NEW a \in Answered, Respond(g, q, a)
      PROVE  LimitHolds'
  <2>1. \A h \in Groups : RowsOf(h)' = RowsOf(h)
    BY <1>5, RowsTyped DEF Respond, RowsOf, ElicitTypeOK
  <2> QED BY <1>2, <1>5, <2>1 DEF Respond
<1>6. ASSUME NEW g \in Groups, Decide(g) \/ ResumeConfirmed(g) PROVE LimitHolds'
  BY <1>3, <1>6 DEF Decide, ResumeConfirmed
<1>7. ASSUME NEW g \in Groups, Expire(g) PROVE LimitHolds'
  BY <1>2, <1>7 DEF Expire, RowsOf
<1>8. ASSUME NEW g \in Groups, Purge(g) PROVE LimitHolds'
  BY <1>2, <1>8, NoRowsTyped DEF Purge, RowsOf, ElicitTypeOK
<1>9. ASSUME NEW r \in Resumers, ResumerNext(r) PROVE LimitHolds'
  <2>1. ASSUME ~IsAt(r, "idle"), Claimable(job[r].group), rows' = Consumed(job[r].group), lapsed' = lapsed
        PROVE  LimitHolds'
    <3>1. job[r].group \in Groups
      BY <2>1 DEF ElicitTypeOK, Parked
    <3> QED BY <1>2, <2>1, <3>1, ConsumedTypes DEF Claimable
  <2>2. CASE Check(r) \/ Claim(r)
    BY <1>3, <2>1, <2>2 DEF Check, Claim, Consumed, IsAt
  <2>3. ASSUME NEW g \in Groups, AsksAgain(r, g) PROVE LimitHolds'
    BY <1>1, <2>3 DEF AsksAgain
  <2> QED BY <1>3, <1>9, <2>2, <2>3 DEF ResumerNext, Resume, Delegate, Approve, Bind, Returns, Dies
<1>10. CASE Retire
  BY <1>3, <1>10 DEF Retire
<1>11. CASE DeleteThread
  BY <1>2, <1>11, NoRowsTyped DEF DeleteThread, RowsOf
<1>12. CASE UNCHANGED elicitVars
  BY <1>3, <1>12 DEF elicitVars
<1> QED BY <1>4, <1>5, <1>6, <1>7, <1>8, <1>9, <1>10, <1>11, <1>12 DEF ElicitNext
-----------------------------------------------------------------------------
\* The store and the resuming calls keep their invariant, in every state: types,
\* answers that leave once and together, the limit, nothing left after a deletion,
\* and no second question after a decline.
THEOREM ElicitationsSafe == ElicitSpec => []ElicitInv
<1>1. ElicitInit => ElicitTypeOK /\ LimitHolds /\ AnswersInv
  BY ElicitInitial DEF ElicitIInv, ElicitInv, AnswersInv
<1>2. ElicitTypeOK /\ LimitHolds /\ AnswersInv => ElicitInv
  BY DEF ElicitInv, AnswersInv
<1> QED BY <1>1, <1>2, ElicitTypeNext, LimitNext, AnswersNext, PTL DEF ElicitSpec

\* A row that is stored keeps its answer until it is consumed.
LEMMA AnswerStep ==
    ASSUME ElicitTypeOK, ElicitNext, NEW g \in Groups, NEW q \in RowsOf(g) \cap DOMAIN rows'[g],
           rows[g][q] # "pending"
    PROVE  rows'[g][q] \in {rows[g][q], "consumed"}
<1> USE DEF storeVars
<1>0. rows \in [Groups -> RowSets] /\ q \in RowsOf(g)
  BY DEF ElicitTypeOK
<1>1. ASSUME NEW h \in Groups, NEW by, NEW from, Park(h, by, from) PROVE rows'[g] = rows[g]
  <2>1. h # g
    BY <1>1, <1>0, StoredHasRows DEF Park, ElicitTypeOK
  <2> QED BY <1>0, <1>1, <2>1 DEF Park
<1>2. ASSUME NEW h \in Groups, NEW by \in {"chat", "sandbox"}, FirstCall(h, by)
      PROVE  rows'[g] = rows[g]
  BY <1>1, <1>2 DEF FirstCall
<1>3. ASSUME NEW h \in Groups, NEW p \in Questions, NEW a \in Answered, Respond(h, p, a)
      PROVE  rows'[g][q] = rows[g][q]
  <2>1. rows[g] \in [RowsOf(g) -> RowStatus]
    BY RowsTyped
  <2> QED BY <1>0, <1>3, <2>1 DEF Respond
<1>4. ASSUME NEW h \in Groups, Purge(h) PROVE rows'[g] = rows[g]
  BY <1>0, <1>4, NoRowsTyped DEF Purge
<1>5. ASSUME NEW r \in Resumers, ResumerNext(r) PROVE rows'[g][q] \in {rows[g][q], "consumed"}
  <2>1. ASSUME ~IsAt(r, "idle"), Claimable(job[r].group), rows' = Consumed(job[r].group)
        PROVE  rows'[g][q] \in {rows[g][q], "consumed"}
    <3>1. job[r].group \in Groups
      BY <2>1 DEF ElicitTypeOK, Parked
    <3> QED BY <1>0, <2>1, <3>1, ConsumedTypes DEF Claimable
  <2>2. CASE Check(r) \/ Claim(r)
    BY <2>1, <2>2 DEF Check, Claim, Consumed, IsAt
  <2>3. ASSUME NEW h \in Groups, AsksAgain(r, h) PROVE rows'[g] = rows[g]
    BY <1>1, <2>3 DEF AsksAgain
  <2> QED BY <1>5, <2>2, <2>3 DEF ResumerNext, Resume, Delegate, Approve, Bind, Returns, Dies
<1>6. CASE DeleteThread
  BY <1>0, <1>6, NoRowsTyped DEF DeleteThread
<1> QED BY <1>2, <1>3, <1>4, <1>5, <1>6 DEF ElicitNext, Decide, ResumeConfirmed, Expire, Retire

\* An answer is not replaced, whichever answers and claims race it.
THEOREM AnswersAreFinal == ElicitSpec => AnswersStand
<1> DEFINE Stand == \A g \in Groups : \A q \in RowsOf(g) \cap DOMAIN rows'[g] :
                       rows[g][q] # "pending" => rows'[g][q] \in {rows[g][q], "consumed"}
<1>1. ElicitTypeOK /\ [ElicitNext]_elicitVars => [Stand]_elicitVars
  BY AnswerStep
<1>2. ElicitInit => ElicitTypeOK
  BY ElicitInitial DEF ElicitIInv, ElicitInv
<1> QED BY <1>1, <1>2, ElicitTypeNext, PTL DEF ElicitSpec, AnswersStand
=============================================================================
