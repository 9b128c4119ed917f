--------------------------- MODULE ExecutionProofs ---------------------------
(***************************************************************************)
(* Proofs about what is executed elsewhere.  SandboxSession, for any number *)
(* of turns beside each other, delegations, steps and sandboxes: what runs *)
(* is in somebody's hands, and what a session has in hand keeps running.   *)
(* ConfiguredWorkflow, for any number of runs, stages and activities.      *)
(***************************************************************************)
EXTENDS SandboxSession, ConfiguredWorkflow, TLAPS

-----------------------------------------------------------------------------
(* The inductive invariant.                                                *)

\* A session that is past its exit holds only a name: what it is about to save
\* may be resumed by others, and answers for nothing that runs.
GripsAs(n, b) == n.box = b /\ n.at \in {"open", "closing", "pausing", "killing", "lost"}
Grips(t, b) == GripsAs(node[t], b)
RunningIsGripped ==
    \A b \in Sandboxes : box[b] = "running" =>
        \/ b \in loose \/ \E t \in Owners : Grips(t, b)
        \/ \E s \in Steps : step[s].at = "attached" /\ step[s].box = b

\* One delegation at a time is opening, into a session that has no sandbox and is
\* not closed; and a session on its way out is closed.
LockHolds ==
    \A t \in Owners :
        /\ node[t].at \notin {"idle", "open", "closing"} => node[t].closed
        /\ \A c \in Callers : caller[t][c] = "opening" =>
              /\ node[t].at \in {"open", "closing"} /\ node[t].box = NoBox
              /\ \A d \in Callers \ {c} : caller[t][d] # "opening"

\* A turn that is not stopped and found nobody there has the conversation alone.
AloneIsAlone ==
    \A t \in Owners : ~InNode(t, "idle") /\ node[t].alone /\ ~node[t].stopped =>
        \A u \in Owners \ {t} : InNode(u, "idle")

\* Whoever destroys what is suspended knows that the conversation has ended, and
\* whatever turn is left in it is stopped.
EndIsKnown ==
    /\ thread # "live" => \A t \in Owners : InNode(t, "idle") \/ node[t].stopped
    /\ retirer.at # "idle" => thread # "live"
    /\ sweep.at \in {"orphan", "doomed"} => thread = "deleted"

SandboxInv ==
    SandboxTypeOK /\ RunningIsGripped /\ LockHolds /\ AloneIsAlone /\ EndIsKnown /\ OpenStaysRunning

\* The invariant holds of a conversation that begins.
LEMMA SandboxInitial == SandboxInit => SandboxInv
BY DEF SandboxInit, SandboxInv, SandboxTypeOK, RunningIsGripped, LockHolds, AloneIsAlone, EndIsKnown,
       OpenStaysRunning, NoNode, NoJob, Jobs, Nodes, NodePlaces, InNode, Sandboxes, NoBox

-----------------------------------------------------------------------------
(* What a step of a turn, or of one of its delegations, has to establish.  *)

\* The rest of the conversation is left alone.
LeavesRest ==
    /\ UNCHANGED <<thread, retirer, sweep, step>>
    /\ stored' \in Sandboxes \cup {NoBox} /\ loose' \subseteq Sandboxes
    /\ box' \in [Sandboxes -> {"none", "running", "paused", "dead"}]
    /\ caller' \in [Owners -> [Callers -> {"idle", "waiting", "opening"}]]

\* The node becomes n, with a sandbox or a closed session where its place says so.
Fits(t, n) ==
    /\ n \in Nodes /\ node' = [node EXCEPT ![t] = n]
    /\ n.at \in {"idle", "closed"} => n.box = NoBox
    /\ n.at \in {"pausing", "killing", "lost"} => n.box # NoBox
    /\ n.at \notin {"idle", "open", "closing"} => n.closed
    /\ n.at # "idle" => /\ node[t].at # "idle" /\ n.alone = node[t].alone
                        /\ node[t].stopped => n.stopped

\* Its lock: one delegation opens, while there is nothing open.
KeepsLock(t, n) ==
    /\ \A u \in Owners \ {t} : caller'[u] = caller[u]
    /\ \A c \in Callers : caller'[t][c] = "opening" =>
          /\ n.at \in {"open", "closing"} /\ n.box = NoBox
          /\ \A d \in Callers \ {c} : caller'[t][d] # "opening"

\* Its sandbox: what it lets go of does not run, or is known to be left behind.
KeepsBoxes(t, n) ==
    /\ node[t].at = "idle" => box' = box
    /\ \A b \in Sandboxes : box'[b] = "running" =>
          \/ b \in loose' \/ GripsAs(n, b)
          \/ box[b] = "running" /\ b \notin loose /\ ~Grips(t, b)
    /\ n.at = "open" /\ n.box # NoBox /\ n.alone /\ ~n.stopped => box'[n.box] = "running"

\* Such a step keeps the invariant.
LEMMA NodeMoves ==
    ASSUME SandboxInv, NEW t \in Owners, NEW n, LeavesRest, Fits(t, n), KeepsLock(t, n), KeepsBoxes(t, n)
    PROVE  SandboxInv'
<1> USE DEF Fits, LeavesRest
<1>1. /\ node' \in [Owners -> Nodes] /\ node'[t] = n
      /\ \A u \in Owners \ {t} : node'[u] = node[u]
  BY DEF SandboxInv, SandboxTypeOK
<1>2. SandboxTypeOK'
  BY <1>1 DEF SandboxInv, SandboxTypeOK
<1>3. RunningIsGripped'
  BY <1>1 DEF SandboxInv, RunningIsGripped, Grips, GripsAs, KeepsBoxes
<1>4. LockHolds'
  BY <1>1 DEF SandboxInv, LockHolds, KeepsLock
<1>5. AloneIsAlone'
  BY <1>1 DEF SandboxInv, AloneIsAlone, InNode
<1>6. EndIsKnown'
  BY <1>1 DEF SandboxInv, EndIsKnown, InNode
<1>7. OpenStaysRunning'
  BY <1>1 DEF SandboxInv, OpenStaysRunning, AloneIsAlone, InNode, KeepsBoxes
<1> QED BY <1>2, <1>3, <1>4, <1>5, <1>6, <1>7 DEF SandboxInv

\* A node that keeps its sandbox in its grip moves on without touching it.
LEMMA NodeGoesOn ==
    ASSUME SandboxInv, NEW t \in Owners, NEW n, UNCHANGED <<outside, box, stored, caller, step, loose>>,
           Fits(t, n), n.box = node[t].box, n.stopped \/ n.stopped = node[t].stopped,
           n.at = node[t].at \/ (n.at = "closing" /\ node[t].at = "open")
              \/ (n.at \in {"closed", "pausing", "killing"} /\ node[t].at = "closing" /\ Unlocked(t))
    PROVE  SandboxInv'
<1> USE DEF SandboxInv, SandboxTypeOK, outside, Fits
<1>1. LeavesRest
  BY DEF LeavesRest
<1>2. KeepsLock(t, n)
  BY DEF KeepsLock, LockHolds, Unlocked
<1>3. KeepsBoxes(t, n)
  BY DEF KeepsBoxes, Grips, GripsAs, OpenStaysRunning, InNode, Sandboxes, NoBox
<1> HIDE DEF SandboxInv, Fits
<1> QED BY <1>1, <1>2, <1>3, NodeMoves

-----------------------------------------------------------------------------
(* Every step.                                                             *)

\* Every step keeps the invariant.
LEMMA SandboxNextKeeps == SandboxInv /\ [SandboxNext]_boxVars => SandboxInv'
<1> SUFFICES ASSUME SandboxInv, [SandboxNext]_boxVars PROVE SandboxInv'
  OBVIOUS
<1> USE DEF InNode, outside
<1>0. /\ node \in [Owners -> Nodes] /\ stored \in Sandboxes \cup {NoBox}
      /\ box \in [Sandboxes -> {"none", "running", "paused", "dead"}] /\ loose \subseteq Sandboxes
      /\ caller \in [Owners -> [Callers -> {"idle", "waiting", "opening"}]] /\ NoBox \notin Sandboxes
      /\ \A t \in Owners :
            /\ node[t].at \in {"idle", "closed"} => node[t].box = NoBox
            /\ node[t].at \in {"pausing", "killing", "lost"} => node[t].box # NoBox
            /\ node[t].at \notin {"idle", "open", "closing"} => node[t].closed
            /\ \A c \in Callers : caller[t][c] = "opening" =>
                  /\ node[t].at \in {"open", "closing"} /\ node[t].box = NoBox
                  /\ \A d \in Callers \ {c} : caller[t][d] # "opening"
  BY SandboxAssumption DEF SandboxInv, SandboxTypeOK, LockHolds, Sandboxes, NoBox
<1>1. ASSUME NEW t \in Owners, StartNode(t) PROVE SandboxInv'
  <2> DEFINE n == [NoNode EXCEPT !.at = "open", !.resume = stored,
                                 !.alone = \A u \in Owners \ {t} : InNode(u, "idle")]
  <2>1. /\ n \in Nodes /\ node' = [node EXCEPT ![t] = n]
        /\ n.at = "open" /\ n.box = NoBox /\ ~n.closed
        /\ n.alone => \A u \in Owners \ {t} : InNode(u, "idle")
    BY <1>0, <1>1 DEF StartNode, Nodes, NodePlaces, NoNode
  <2> HIDE DEF n
  <2>2. /\ node' \in [Owners -> Nodes] /\ node'[t] = n
        /\ \A u \in Owners \ {t} : node'[u] = node[u]
    BY <1>0, <2>1
  <2>3. SandboxTypeOK'
    BY <1>0, <1>1, <2>1, <2>2 DEF StartNode, SandboxInv, SandboxTypeOK
  <2>4. RunningIsGripped'
    BY <1>1, <2>1, <2>2 DEF StartNode, SandboxInv, RunningIsGripped, Grips, GripsAs
  <2>5. LockHolds'
    BY <1>1, <2>1, <2>2 DEF StartNode, SandboxInv, LockHolds
  <2>6. AloneIsAlone'
    BY <1>1, <2>1, <2>2 DEF StartNode, SandboxInv, AloneIsAlone
  <2>7. EndIsKnown'
    BY <1>1, <2>1, <2>2 DEF StartNode, SandboxInv, EndIsKnown
  <2>8. OpenStaysRunning'
    BY <1>1, <2>1, <2>2 DEF StartNode, SandboxInv, OpenStaysRunning
  <2> QED BY <2>3, <2>4, <2>5, <2>6, <2>7, <2>8 DEF SandboxInv
<1>2. ASSUME NEW t \in Owners, StopTurn(t) PROVE SandboxInv'
  <2> DEFINE n == [node[t] EXCEPT !.stopped = TRUE]
  <2>1. node[t] \in Nodes
    BY <1>0, <1>2 DEF StopTurn
  <2>2. node' = [node EXCEPT ![t] = n]
    BY <1>2 DEF StopTurn
  <2>3. /\ n \in Nodes
        /\ n.box = node[t].box /\ n.alone = node[t].alone /\ n.stopped
        /\ n.at = node[t].at /\ n.closed = node[t].closed
    BY <2>1 DEF Nodes, NodePlaces
  <2>4. n \in Nodes /\ node' = [node EXCEPT ![t] = n]
    BY <2>2, <2>3
  <2> HIDE DEF n
  <2>5. Fits(t, n)
    BY <1>0, <1>2, <2>1, <2>3, <2>4 DEF StopTurn, Fits
  <2> QED BY <1>2, <2>1, <2>3, <2>5, NodeGoesOn DEF StopTurn
<1>3. ASSUME NEW t \in Owners, NEW c \in Callers, Ask(t, c) PROVE SandboxInv'
  <2>1. node[t] \in Nodes /\ node' = [node EXCEPT ![t] = node[t]]
    BY <1>0, <1>3 DEF Ask
  <2>2. LeavesRest
    BY <1>0, <1>3, <2>1 DEF Ask, LeavesRest
  <2>3. Fits(t, node[t])
    BY <1>0, <1>3, <2>1 DEF Ask, Fits
  <2>4. KeepsLock(t, node[t])
    BY <1>0, <1>3, <2>1 DEF Ask, KeepsLock
  <2>5. KeepsBoxes(t, node[t])
    BY <1>0, <1>3, <2>1 DEF Ask, KeepsBoxes, Grips, GripsAs, SandboxInv, OpenStaysRunning
  <2> QED BY <2>2, <2>3, <2>4, <2>5, NodeMoves
<1>4. ASSUME NEW t \in Owners, NEW c \in Callers, Enter(t, c) PROVE SandboxInv'
  <2>1. node[t] \in Nodes /\ node' = [node EXCEPT ![t] = node[t]]
    BY <1>0, <1>4 DEF Enter, Unlocked
  <2>2. LeavesRest
    BY <1>0, <1>4, <2>1 DEF Enter, Unlocked, LeavesRest
  <2>3. Fits(t, node[t])
    BY <1>0, <1>4, <2>1 DEF Enter, Unlocked, Fits
  <2>4. KeepsLock(t, node[t])
    BY <1>0, <1>4, <2>1 DEF Enter, Unlocked, KeepsLock
  <2>5. KeepsBoxes(t, node[t])
    BY <1>0, <1>4, <2>1 DEF Enter, Unlocked, KeepsBoxes, Grips, GripsAs, SandboxInv, OpenStaysRunning
  <2> QED BY <2>2, <2>3, <2>4, <2>5, NodeMoves
<1>5. ASSUME NEW t \in Owners, NEW c \in Callers, OpenBackend(t, c) PROVE SandboxInv'
  <2>1. PICK b \in Sandboxes : /\ box' = [box EXCEPT ![b] = "running"] /\ loose' = loose \ {b}
                               /\ node' = [node EXCEPT ![t].box = b]
    BY <1>0, <1>5 DEF OpenBackend, Becomes
  <2> DEFINE n == [node[t] EXCEPT !.box = b]
  <2>2. node[t] \in Nodes /\ node[t].at \in {"open", "closing"} /\ node[t].box = NoBox
    BY <1>0, <1>5, <2>1 DEF OpenBackend
  <2>3. node' = [node EXCEPT ![t] = n]
    BY <1>5, <2>1 DEF OpenBackend
  <2>4. /\ n \in Nodes
        /\ n.at = node[t].at /\ n.box = b /\ n.closed = node[t].closed
        /\ n.alone = node[t].alone /\ n.stopped = node[t].stopped
    BY <2>2 DEF Nodes, NodePlaces
  <2>5. n \in Nodes /\ node' = [node EXCEPT ![t] = n]
    BY <2>3, <2>4
  <2> HIDE DEF n
  <2>6. LeavesRest
    BY <1>0, <1>5, <2>2, <2>4, <2>1, <2>5 DEF OpenBackend, LeavesRest
  <2>7. Fits(t, n)
    BY <1>0, <1>5, <2>2, <2>4, <2>1, <2>5 DEF OpenBackend, Fits
  <2>8. KeepsLock(t, n)
    BY <1>0, <1>5, <2>2, <2>4, <2>1, <2>5 DEF OpenBackend, KeepsLock
  <2>9. KeepsBoxes(t, n)
    BY <1>0, <1>5, <2>2, <2>4, <2>1, <2>5 DEF OpenBackend, KeepsBoxes, Grips, GripsAs, SandboxInv, OpenStaysRunning
  <2> QED BY <2>6, <2>7, <2>8, <2>9, NodeMoves
<1>6. ASSUME NEW t \in Owners, NEW c \in Callers, OpenFails(t, c) PROVE SandboxInv'
  <2>1. /\ node[t] \in Nodes /\ node' = [node EXCEPT ![t] = node[t]]
        /\ node[t].at \in {"open", "closing"} /\ node[t].box = NoBox
    BY <1>0, <1>6 DEF OpenFails
  <2>2. \/ box' = box /\ loose' = loose
        \/ \E b \in Sandboxes : box' = [box EXCEPT ![b] = "running"] /\ loose' = loose \cup {b}
    BY <1>0, <1>6 DEF OpenFails, Becomes
  <2>3. LeavesRest
    BY <1>0, <1>6, <2>1, <2>2 DEF OpenFails, LeavesRest
  <2>4. Fits(t, node[t])
    BY <1>0, <1>6, <2>1, <2>2 DEF OpenFails, Fits
  <2>5. KeepsLock(t, node[t])
    BY <1>0, <1>6, <2>1, <2>2 DEF OpenFails, KeepsLock
  <2>6. KeepsBoxes(t, node[t])
    BY <1>0, <1>6, <2>1, <2>2 DEF OpenFails, KeepsBoxes, Grips, GripsAs, SandboxInv, OpenStaysRunning
  <2> QED BY <2>3, <2>4, <2>5, <2>6, NodeMoves
<1>7. ASSUME NEW t \in Owners, CloseNode(t) PROVE SandboxInv'
  <2> DEFINE n == [node[t] EXCEPT !.at = "closing"]
  <2>1. node[t] \in Nodes /\ node[t].at = "open"
    BY <1>0, <1>7 DEF CloseNode
  <2>2. node' = [node EXCEPT ![t] = n]
    BY <1>7 DEF CloseNode
  <2>3. /\ n \in Nodes
        /\ n.at = "closing" /\ n.box = node[t].box /\ n.alone = node[t].alone /\ n.stopped = node[t].stopped
    BY <2>1 DEF Nodes, NodePlaces
  <2>4. n \in Nodes /\ node' = [node EXCEPT ![t] = n]
    BY <2>2, <2>3
  <2> HIDE DEF n
  <2>5. Fits(t, n)
    BY <1>0, <1>7, <2>1, <2>3, <2>4 DEF CloseNode, Fits
  <2> QED BY <1>7, <2>1, <2>3, <2>5, NodeGoesOn DEF CloseNode
<1>8. ASSUME NEW t \in Owners, AbandonNode(t) PROVE SandboxInv'
  <2> DEFINE n == [node[t] EXCEPT !.at = "closing", !.failed = TRUE, !.keep = Resumed(t)]
  <2>1. node[t] \in Nodes /\ node[t].at = "open" /\ Resumed(t) \in BOOLEAN
    BY <1>0, <1>8 DEF AbandonNode, Resumed
  <2>2. node' = [node EXCEPT ![t] = n]
    BY <1>8 DEF AbandonNode
  <2>3. /\ n \in Nodes
        /\ n.at = "closing" /\ n.box = node[t].box /\ n.alone = node[t].alone /\ n.stopped = node[t].stopped
    BY <2>1 DEF Nodes, NodePlaces
  <2>4. n \in Nodes /\ node' = [node EXCEPT ![t] = n]
    BY <2>2, <2>3
  <2> HIDE DEF n
  <2>5. Fits(t, n)
    BY <1>0, <1>8, <2>1, <2>3, <2>4 DEF AbandonNode, Fits
  <2> QED BY <1>8, <2>1, <2>3, <2>5, NodeGoesOn DEF AbandonNode
<1>9. ASSUME NEW t \in Owners, AClose(t) PROVE SandboxInv'
  <2> DEFINE n == [node[t] EXCEPT !.closed = TRUE, !.keep = TRUE,
                   !.at = IF node[t].box = NoBox THEN "closed"
                          ELSE IF node[t].keep THEN "pausing" ELSE "killing"]
  <2>1. node[t] \in Nodes /\ node[t].at = "closing"
    BY <1>0, <1>9 DEF AClose
  <2>2. node' = [node EXCEPT ![t] = n]
    BY <1>9 DEF AClose
  <2>3. /\ n \in Nodes
        /\ n.closed /\ n.at \in {"closed", "pausing", "killing"} /\ (n.at = "closed" <=> n.box = NoBox)
        /\ n.box = node[t].box /\ n.alone = node[t].alone /\ n.stopped = node[t].stopped
    BY <2>1 DEF Nodes, NodePlaces
  <2>4. n \in Nodes /\ node' = [node EXCEPT ![t] = n]
    BY <2>2, <2>3
  <2> HIDE DEF n
  <2>5. Fits(t, n)
    BY <1>0, <1>9, <2>1, <2>3, <2>4 DEF AClose, Unlocked, Fits
  <2> QED BY <1>9, <2>1, <2>3, <2>5, NodeGoesOn DEF AClose, Unlocked
<1>10. ASSUME NEW t \in Owners, PauseFails(t) PROVE SandboxInv'
  <2> DEFINE n == [node[t] EXCEPT !.at = "lost"]
  <2>1. node[t] \in Nodes /\ node[t].at = "pausing" /\ node[t].closed
    BY <1>0, <1>10 DEF PauseFails
  <2>2. node' = [node EXCEPT ![t] = n]
    BY <1>10 DEF PauseFails
  <2>3. /\ n \in Nodes
        /\ n.at = "lost" /\ n.closed = node[t].closed /\ n.box = node[t].box /\ n.alone = node[t].alone /\ n.stopped = node[t].stopped
    BY <2>1 DEF Nodes, NodePlaces
  <2>4. n \in Nodes /\ node' = [node EXCEPT ![t] = n]
    BY <2>2, <2>3
  <2> HIDE DEF n
  <2>5. \/ box' = box /\ loose' = loose
        \/ box' = [box EXCEPT ![n.box] = "paused"] /\ loose' = loose \ {n.box}
    BY <1>0, <1>10, <2>1, <2>3, <2>4 DEF PauseFails, Becomes
  <2>6. LeavesRest
    BY <1>0, <1>10, <2>1, <2>3, <2>4, <2>5 DEF PauseFails, LeavesRest
  <2>7. Fits(t, n)
    BY <1>0, <1>10, <2>1, <2>3, <2>4, <2>5 DEF PauseFails, Fits
  <2>8. KeepsLock(t, n)
    BY <1>0, <1>10, <2>1, <2>3, <2>4, <2>5 DEF PauseFails, KeepsLock
  <2>9. KeepsBoxes(t, n)
    BY <1>0, <1>10, <2>1, <2>3, <2>4, <2>5 DEF PauseFails, KeepsBoxes, Grips, GripsAs, SandboxInv, OpenStaysRunning
  <2> QED BY <2>6, <2>7, <2>8, <2>9, NodeMoves
<1>11. ASSUME NEW t \in Owners, Pause(t) PROVE SandboxInv'
  <2> DEFINE n == IF node[t].failed THEN [node[t] EXCEPT !.at = "closed", !.box = NoBox]
                                    ELSE [node[t] EXCEPT !.at = "saving"]
  <2>1. node[t] \in Nodes /\ node[t].at = "pausing" /\ node[t].closed
    BY <1>0, <1>11 DEF Pause, Forget
  <2>2. node' = [node EXCEPT ![t] = n]
    BY <1>11 DEF Pause, Forget
  <2>3. /\ n \in Nodes
        /\ n.closed = node[t].closed /\ n.at \in {"closed", "saving"} /\ (n.at = "closed" => n.box = NoBox)
        /\ n.alone = node[t].alone /\ n.stopped = node[t].stopped
    BY <2>1 DEF Nodes, NodePlaces
  <2>4. n \in Nodes /\ node' = [node EXCEPT ![t] = n]
    BY <2>2, <2>3
  <2> HIDE DEF n
  <2>5. LeavesRest
    BY <1>0, <1>11, <2>1, <2>3, <2>4 DEF Pause, Becomes, LeavesRest
  <2>6. Fits(t, n)
    BY <1>0, <1>11, <2>1, <2>3, <2>4 DEF Pause, Becomes, Fits
  <2>7. KeepsLock(t, n)
    BY <1>0, <1>11, <2>1, <2>3, <2>4 DEF Pause, Becomes, KeepsLock
  <2>8. KeepsBoxes(t, n)
    BY <1>0, <1>11, <2>1, <2>3, <2>4 DEF Pause, Becomes, KeepsBoxes, Grips, GripsAs, SandboxInv, OpenStaysRunning
  <2> QED BY <2>5, <2>6, <2>7, <2>8, NodeMoves
<1>12. ASSUME NEW t \in Owners, Kill(t) \/ KillFails(t) PROVE SandboxInv'
  <2> DEFINE n == [node[t] EXCEPT !.at = IF node[t].failed THEN "closed" ELSE "saving", !.box = NoBox]
  <2>1. node[t] \in Nodes /\ node[t].closed /\ node[t].box \in Sandboxes
    BY <1>0, <1>12 DEF Kill, KillFails, Forget, Nodes
  <2>2. node' = [node EXCEPT ![t] = n]
    BY <1>12 DEF Kill, KillFails, Forget
  <2>3. /\ n \in Nodes
        /\ n.closed = node[t].closed /\ n.at \in {"closed", "saving"} /\ n.box = NoBox
        /\ n.alone = node[t].alone /\ n.stopped = node[t].stopped
    BY <2>1 DEF Nodes, NodePlaces
  <2>4. n \in Nodes /\ node' = [node EXCEPT ![t] = n]
    BY <2>2, <2>3
  <2> HIDE DEF n
  <2>5. LeavesRest
    BY <1>0, <1>12, <2>1, <2>3, <2>4 DEF Kill, KillFails, Becomes, LeavesRest
  <2>6. Fits(t, n)
    BY <1>0, <1>12, <2>1, <2>3, <2>4 DEF Kill, KillFails, Becomes, Fits
  <2>7. KeepsLock(t, n)
    BY <1>0, <1>12, <2>1, <2>3, <2>4 DEF Kill, KillFails, Becomes, KeepsLock
  <2>8. KeepsBoxes(t, n)
    BY <1>0, <1>12, <2>1, <2>3, <2>4 DEF Kill, KillFails, Becomes, KeepsBoxes, Grips, GripsAs, SandboxInv, OpenStaysRunning
  <2> QED BY <2>5, <2>6, <2>7, <2>8, NodeMoves
<1>13. ASSUME NEW t \in Owners, Save(t) \/ LeaveNode(t) PROVE SandboxInv'
  <2>1. NoNode \in Nodes /\ NoNode.at = "idle" /\ NoNode.box = NoBox
    BY DEF NoNode, Nodes, NodePlaces
  <2>2. /\ node[t].at \in {"saving", "closed"} /\ node[t].box \in Sandboxes \cup {NoBox}
        /\ node' = [node EXCEPT ![t] = NoNode] /\ stored' \in {stored, node[t].box}
        /\ UNCHANGED <<outside, box, caller, step, loose>>
    BY <1>0, <1>13 DEF Save, LeaveNode, Nodes
  <2>3. LeavesRest
    BY <1>0, <2>1, <2>2 DEF LeavesRest
  <2>4. Fits(t, NoNode)
    BY <1>0, <2>1, <2>2 DEF Fits
  <2>5. KeepsLock(t, NoNode)
    BY <1>0, <2>1, <2>2 DEF KeepsLock
  <2>6. KeepsBoxes(t, NoNode)
    BY <1>0, <2>1, <2>2 DEF KeepsBoxes, Grips, GripsAs, SandboxInv, OpenStaysRunning
  <2> QED BY <2>3, <2>4, <2>5, <2>6, NodeMoves
<1>14. ASSUME NEW t \in Owners, LoseNode(t) PROVE SandboxInv'
  <2>1. NoNode \in Nodes /\ NoNode.at = "idle" /\ NoNode.box = NoBox
    BY DEF NoNode, Nodes, NodePlaces
  <2>2. \/ box' = box /\ loose' = loose \cup ({node[t].box} \ {NoBox})
        \/ /\ ~Unlocked(t)
           /\ \E b \in Sandboxes : box' = [box EXCEPT ![b] = "running"] /\ loose' = loose \cup {b}
    BY <1>0, <1>14 DEF LoseNode, Unlocked, Becomes
  <2>3. LeavesRest
    BY <1>0, <1>14, <2>1, <2>2 DEF LoseNode, Unlocked, Nodes, LeavesRest
  <2>4. Fits(t, NoNode)
    BY <1>0, <1>14, <2>1, <2>2 DEF LoseNode, Unlocked, Nodes, Fits
  <2>5. KeepsLock(t, NoNode)
    BY <1>0, <1>14, <2>1, <2>2 DEF LoseNode, Unlocked, Nodes, KeepsLock
  <2>6. KeepsBoxes(t, NoNode)
    BY <1>0, <1>14, <2>1, <2>2 DEF LoseNode, Unlocked, Nodes, KeepsBoxes, Grips, GripsAs, SandboxInv, OpenStaysRunning
  <2> QED BY <2>3, <2>4, <2>5, <2>6, NodeMoves
<1> USE SandboxAssumption
        DEF SandboxInv, SandboxTypeOK, LockHolds, Sandboxes, NoBox, NoJob, Jobs, Usable, Becomes, Sweeps, sweepOnly
<1>15. ASSUME NEW t \in Owners, NEW s \in Steps, FanOut(t, s) PROVE SandboxInv'
  <2> USE <1>15 DEF FanOut, Nodes
  <2>1. SandboxTypeOK'
    OBVIOUS
  <2>2. RunningIsGripped'
    BY DEF RunningIsGripped, Grips, GripsAs
  <2>3. LockHolds' /\ AloneIsAlone'
    BY DEF AloneIsAlone
  <2>4. EndIsKnown'
    BY DEF EndIsKnown
  <2>5. OpenStaysRunning'
    BY DEF OpenStaysRunning, Held, Holds, AloneIsAlone, EndIsKnown
  <2> QED BY <2>1, <2>2, <2>3, <2>4, <2>5
<1>16. ASSUME NEW s \in Steps, Attach(s) PROVE SandboxInv'
  <2> USE <1>16 DEF Attach
  <2>1. SandboxTypeOK'
    OBVIOUS
  <2>2. RunningIsGripped'
    BY DEF RunningIsGripped, Grips, GripsAs
  <2>3. LockHolds' /\ AloneIsAlone'
    BY DEF AloneIsAlone
  <2>4. EndIsKnown'
    BY DEF EndIsKnown
  <2>5. OpenStaysRunning'
    BY DEF OpenStaysRunning, Held, Holds, AloneIsAlone, EndIsKnown
  <2> QED BY <2>1, <2>2, <2>3, <2>4, <2>5
<1>17. ASSUME NEW s \in Steps, Detach(s) PROVE SandboxInv'
  <2> USE <1>17 DEF Detach
  <2>1. step[s].at # "idle" => step[s].box \in Sandboxes
    OBVIOUS
  <2>2. step' \in [Steps -> Jobs({"scheduled", "attached"})] /\ loose' \subseteq Sandboxes
    BY <2>1
  <2>3. SandboxTypeOK'
    BY <2>2
  <2>4. RunningIsGripped'
    BY DEF RunningIsGripped, Grips, GripsAs
  <2>5. LockHolds' /\ AloneIsAlone'
    BY DEF AloneIsAlone
  <2>6. EndIsKnown'
    BY DEF EndIsKnown
  <2>7. OpenStaysRunning'
    BY DEF OpenStaysRunning, Held, Holds, AloneIsAlone, EndIsKnown
  <2> QED BY <2>3, <2>4, <2>5, <2>6, <2>7
<1>18. ASSUME NEW b \in Sandboxes, Expire(b) PROVE SandboxInv'
  <2> USE <1>18 DEF Expire
  <2>1. SandboxTypeOK'
    OBVIOUS
  <2>2. RunningIsGripped'
    BY DEF RunningIsGripped, Grips, GripsAs
  <2>3. LockHolds' /\ AloneIsAlone'
    BY DEF AloneIsAlone
  <2>4. EndIsKnown'
    BY DEF EndIsKnown
  <2>5. OpenStaysRunning'
    BY DEF OpenStaysRunning, Held, Holds, AloneIsAlone, EndIsKnown
  <2> QED BY <2>1, <2>2, <2>3, <2>4, <2>5
<1>19. ASSUME NEW b \in Sandboxes, ListPaused(b) PROVE SandboxInv'
  <2> USE <1>19 DEF ListPaused
  <2>1. SandboxTypeOK'
    OBVIOUS
  <2>2. RunningIsGripped'
    BY DEF RunningIsGripped, Grips, GripsAs
  <2>3. LockHolds' /\ AloneIsAlone'
    BY DEF AloneIsAlone
  <2>4. EndIsKnown'
    BY DEF EndIsKnown
  <2>5. OpenStaysRunning'
    BY DEF OpenStaysRunning, Held, Holds, AloneIsAlone, EndIsKnown
  <2> QED BY <2>1, <2>2, <2>3, <2>4, <2>5
<1>20. ASSUME Claimed \/ ReadState \/ DeleteState \/ DeleteSession \/ RetirerStops PROVE SandboxInv'
  <2> USE <1>20 DEF Claimed, ReadState, DeleteState, DeleteSession, RetirerStops
  <2>1. /\ UNCHANGED <<box, node, caller, step, sweep, loose>>
        /\ stored' \in {stored, NoBox} /\ thread' \in {"live", "retiring", "deleted"}
    OBVIOUS
  <2>2. retirer' \in [at : {"idle", "discard", "checkpoint", "record"}, box : Sandboxes \cup {NoBox}]
    OBVIOUS
  <2>3. SandboxTypeOK'
    BY <2>1, <2>2
  <2>4. RunningIsGripped'
    BY DEF RunningIsGripped, Grips, GripsAs
  <2>5. LockHolds' /\ AloneIsAlone'
    BY DEF AloneIsAlone
  <2>6. EndIsKnown'
    BY DEF EndIsKnown
  <2>7. OpenStaysRunning'
    BY DEF OpenStaysRunning, Held, Holds, AloneIsAlone, EndIsKnown
  <2> QED BY <2>3, <2>4, <2>5, <2>6, <2>7
<1>21. ASSUME Discard PROVE SandboxInv'
  <2> USE <1>21 DEF Discard
  <2>1. SandboxTypeOK'
    OBVIOUS
  <2>2. RunningIsGripped'
    BY DEF RunningIsGripped, Grips, GripsAs
  <2>3. LockHolds' /\ AloneIsAlone'
    BY DEF AloneIsAlone
  <2>4. EndIsKnown'
    BY DEF EndIsKnown
  <2>5. OpenStaysRunning'
    BY DEF OpenStaysRunning, Held, Holds, AloneIsAlone, EndIsKnown
  <2> QED BY <2>1, <2>2, <2>3, <2>4, <2>5
<1>22. ASSUME AskSession \/ LookAgain PROVE SandboxInv'
  <2>1. UNCHANGED <<sweepOnly, box, loose>>
    BY <1>22 DEF AskSession, LookAgain
  <2>2. sweep.at \in {"listed", "orphan"} => sweep.box \in Sandboxes
    OBVIOUS
  <2>3. sweep' \in Jobs({"listed", "orphan", "doomed"})
    BY <1>22, <2>2 DEF AskSession, LookAgain
  <2>4. SandboxTypeOK'
    BY <2>1, <2>3
  <2>5. RunningIsGripped'
    BY <2>1 DEF RunningIsGripped, Grips, GripsAs
  <2>6. LockHolds' /\ AloneIsAlone'
    BY <2>1 DEF AloneIsAlone
  <2>7. EndIsKnown'
    BY <1>22, <2>1 DEF EndIsKnown, AskSession, LookAgain
  <2>8. OpenStaysRunning'
    BY <2>1 DEF OpenStaysRunning
  <2> QED BY <2>4, <2>5, <2>6, <2>7, <2>8
<1>23. ASSUME Reap PROVE SandboxInv'
  <2> USE <1>23 DEF Reap
  <2>1. SandboxTypeOK'
    OBVIOUS
  <2>2. RunningIsGripped'
    BY DEF RunningIsGripped, Grips, GripsAs
  <2>3. LockHolds' /\ AloneIsAlone'
    BY DEF AloneIsAlone
  <2>4. EndIsKnown'
    BY DEF EndIsKnown
  <2>5. OpenStaysRunning'
    BY DEF OpenStaysRunning, Held, Holds, AloneIsAlone, EndIsKnown
  <2> QED BY <2>1, <2>2, <2>3, <2>4, <2>5
<1>24. CASE UNCHANGED boxVars
  BY <1>24 DEF boxVars, RunningIsGripped, AloneIsAlone, EndIsKnown, OpenStaysRunning, Grips, GripsAs, Holds
<1> HIDE DEF SandboxInv
<1> QED BY <1>1, <1>2, <1>3, <1>4, <1>5, <1>6, <1>7, <1>8, <1>9, <1>10, <1>11, <1>12, <1>13,
           <1>14, <1>15, <1>16, <1>17, <1>18, <1>19, <1>20, <1>21, <1>22, <1>23, <1>24
           DEF SandboxNext, Session

\* For any number of turns, delegations and steps: what runs is in hand or was
\* left by a lost process or a failed call, and what an open session hands out
\* keeps running.
THEOREM SandboxesAreOwned == SandboxSpec => [](SandboxTypeOK /\ HeldIffRunning)
<1>1. SandboxInv => SandboxTypeOK /\ HeldIffRunning
  BY DEF SandboxInv, HeldIffRunning, RunningIsGripped, NoneRunsUnowned, Grips, GripsAs, Held, Holds
<1> QED BY <1>1, SandboxInitial, SandboxNextKeeps, PTL DEF SandboxSpec

-----------------------------------------------------------------------------
(* The runs of a configured workflow.                                      *)

\* The holder of the mutex is a run that started and has no outcome yet.
HolderWorks ==
    mutex # NoRun => outcome[mutex] = "none" /\ pc[mutex] \in {"releasing", "executing"}

\* The slot is held from the reservation until its child has closed.
SlotIsHeld ==
    \A r \in Runs :
        pc[r] \in {"looping", "attempting", "sleeping", "releasing"} => slot = r

\* A run has no outcome before it leaves the queue.
QueuedIsOpen ==
    \A r \in Runs :
        pc[r] \in {"idle", "trying", "reserving", "looping", "attempting", "sleeping"}
            => outcome[r] = "none"

CanceledLeaves ==
    \A r \in Runs : outcome[r] = "canceled" => pc[r] \in {"releasing", "done"}

WInv ==
    /\ TypeOK /\ HolderWorks /\ SlotIsHeld /\ QueuedIsOpen /\ CanceledLeaves
    /\ open # {} => phase = "stage"

\* A definition has a first stage, and the absent run is none of them.
LEMMA FirstStage == 1 \in 1 .. Stages /\ \A r \in Runs : r # NoRun
BY WorkflowAssumption

\* Nothing has started: the inductive invariant holds initially.
LEMMA WInvInit == Init => WInv
<1> SUFFICES ASSUME Init PROVE WInv
    OBVIOUS
<1> USE WorkflowAssumption DEF Init
<1>1. TypeOK
    BY FirstStage DEF TypeOK, Point, Outcome, Phase
<1>2. HolderWorks /\ SlotIsHeld
    BY DEF HolderWorks, SlotIsHeld
<1>3. QueuedIsOpen /\ CanceledLeaves
    BY DEF QueuedIsOpen, CanceledLeaves
<1>4. QED
    BY <1>1, <1>2, <1>3 DEF WInv

\* Every step of a run's parent, of its execution and of its environment
\* preserves the inductive invariant (_run_serialized, _run_configured_workflow).
LEMMA WInvNext == WInv /\ [Next]_vars => WInv'
<1> SUFFICES ASSUME WInv, [Next]_vars PROVE WInv'
    OBVIOUS
<1> USE WorkflowAssumption
    DEF WInv, TypeOK, HolderWorks, SlotIsHeld, QueuedIsOpen, CanceledLeaves,
        Point, Outcome, Phase, execVars, parentVars, Goes, Outcomes
<1>1. ASSUME NEW r \in Runs, Trigger(r) PROVE WInv'
    BY <1>1 DEF Trigger
<1>2. ASSUME NEW r \in Runs, PollTriggers(r) PROVE WInv'
    BY <1>2 DEF PollTriggers
<1>3. ASSUME NEW r \in Runs, TriesFirst(r) PROVE WInv'
    <2>1. CASE Begins(r) /\ Goes(r, "executing")
        <3>1. phase = "closed" /\ open = {} /\ outcome[r] = "none"
            BY <1>3, <2>1 DEF TriesFirst, Begins
        <3>2. TypeOK'
            BY <1>3, <2>1, <3>1, FirstStage DEF TriesFirst, Begins
        <3>3. HolderWorks'
            BY <1>3, <2>1, <3>1 DEF TriesFirst, Begins
        <3>4. SlotIsHeld' /\ QueuedIsOpen' /\ CanceledLeaves'
            BY <1>3, <2>1, <3>1 DEF TriesFirst, Begins
        <3>5. QED
            BY <2>1, <3>1, <3>2, <3>3, <3>4 DEF Begins
    <2>2. CASE mutex # NoRun /\ Goes(r, "reserving") /\ UNCHANGED execVars
        BY <1>3, <2>2 DEF TriesFirst
    <2>3. QED
        BY <1>3, <2>1, <2>2 DEF TriesFirst
<1>4. ASSUME NEW r \in Runs, Reserves(r) PROVE WInv'
    BY <1>4 DEF Reserves
<1>5. ASSUME NEW r \in Runs, Loops(r) PROVE WInv'
    BY <1>5 DEF Loops
<1>6. ASSUME NEW r \in Runs, Attempts(r) PROVE WInv'
    <2>1. CASE Begins(r) /\ Goes(r, "releasing")
        <3>1. phase = "closed" /\ open = {} /\ outcome[r] = "none"
            BY <1>6, <2>1 DEF Attempts, Begins
        <3>2. TypeOK'
            BY <1>6, <2>1, <3>1, FirstStage DEF Attempts, Begins
        <3>3. HolderWorks'
            BY <1>6, <2>1, <3>1 DEF Attempts, Begins
        <3>4. SlotIsHeld' /\ QueuedIsOpen' /\ CanceledLeaves'
            BY <1>6, <2>1, <3>1 DEF Attempts, Begins
        <3>5. QED
            BY <2>1, <3>1, <3>2, <3>3, <3>4 DEF Begins
    <2>2. CASE mutex # NoRun /\ Goes(r, "sleeping") /\ UNCHANGED execVars
        BY <1>6, <2>2 DEF Attempts
    <2>3. QED
        BY <1>6, <2>1, <2>2 DEF Attempts
<1>7. ASSUME NEW r \in Runs, Wakes(r) PROVE WInv'
    BY <1>7 DEF Wakes
<1>8. ASSUME NEW r \in Runs, Releases(r) PROVE WInv'
    BY <1>8 DEF Releases
<1>9. ASSUME NEW r \in Runs, Returns(r) PROVE WInv'
    BY <1>9 DEF Returns
<1>10. ASSUME NEW r \in Runs, StopLooks(r) \/ StopLands(r) PROVE WInv'
    BY <1>10 DEF StopLooks, StopLands
<1>11. CASE Loads
    BY <1>11 DEF Loads, Closes
<1>12. ASSUME NEW a \in Acts, ActivityEnds(a) PROVE WInv'
    BY <1>12 DEF ActivityEnds
<1>13. CASE StageSettles
    BY <1>13 DEF StageSettles
<1>14. CASE TriggersOthers
    BY <1>14 DEF TriggersOthers
<1>15. CASE Records
    BY <1>15 DEF Records, Closes
<1>16. CASE SyncCompletes
    BY <1>16 DEF SyncCompletes
<1>17. CASE UNCHANGED vars
    BY <1>17 DEF vars
<1>18. QED
    BY <1>1, <1>2, <1>3, <1>4, <1>5, <1>6, <1>7, <1>8, <1>9, <1>10, <1>11, <1>12,
       <1>13, <1>14, <1>15, <1>16, <1>17 DEF Next, Parent, Execution

\* The inductive invariant of every behaviour.
THEOREM Invariant == Spec => []WInv
BY WInvInit, WInvNext, PTL DEF Spec

\* Every reachable state is well-typed, and an execution is open exactly while
\* the mutex is held.
THEOREM TypeCorrect == Spec => []TypeOK
<1>1. WInv => TypeOK
    BY DEF WInv
<1>2. QED
    BY <1>1, Invariant, PTL

\* The runs of a definition never overlap, their activities included.
THEOREM Serialized == Spec => []RunsDoNotOverlap
<1>1. WInv => RunsDoNotOverlap
    BY DEF WInv, TypeOK, HolderWorks, RunsDoNotOverlap
<1>2. QED
    BY <1>1, Invariant, PTL

\* At most one run waits: the holder of the slot.
THEOREM WaitsAlone == Spec => []OneWaiter
<1>1. WInv => OneWaiter
    BY DEF WInv, SlotIsHeld, OneWaiter, Waiting
<1>2. QED
    BY <1>1, Invariant, PTL

\* A stop request never ends an execution.
THEOREM StopIsForWaiters == Spec => []StopSparesExecution
<1>1. WInv => StopSparesExecution
    BY WorkflowAssumption DEF WInv, HolderWorks, CanceledLeaves, StopSparesExecution
<1>2. QED
    BY <1>1, Invariant, PTL
=============================================================================
