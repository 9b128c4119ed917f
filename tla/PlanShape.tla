----------------------------- MODULE PlanShape -----------------------------
(***************************************************************************)
(* The graph of a plan, from what the planner returned to what the         *)
(* dispatcher walks (chat_orchestrator.py).  A planned step is a record    *)
(*   [id, deps, map, answer, optional]                                     *)
(* of its id, the ids it depends on, the id it maps over (NoName: none),   *)
(* whether it only writes an answer, and whether the run may do without    *)
(* it.  A name is a sequence of numbers: <<1>> is "s1", and renaming or    *)
(* expanding a step appends to its name, as the code appends a suffix.     *)
(***************************************************************************)
EXTENDS Integers, FiniteSets, Sequences, SequencesExt

NoName == <<>>
PlannedNames == Seq(Nat)
PlannedSteps == [id : PlannedNames, deps : SUBSET PlannedNames, map : PlannedNames,
                 answer : BOOLEAN, optional : BOOLEAN]
(* The elements of s that are in T, in their order.                        *)
Those(s, T) ==
  LET upto[i \in 0..Len(s)] ==
        IF i = 0 THEN <<>> ELSE IF s[i] \in T THEN Append(upto[i - 1], s[i]) ELSE upto[i - 1]
  IN  upto[Len(s)]
(* A batch: the first of s, no more than n.                                *)
Firsts(s, n) == SubSeq(s, 1, IF Len(s) < n THEN Len(s) ELSE n)
Names(planned) == {planned[i].id : i \in DOMAIN planned} \ {NoName}

(* _truncate_plan: edges into the tail go with it.                         *)
Truncated(planned, limit) ==
  IF Len(planned) <= limit THEN planned
  ELSE LET dropped == {planned[i].id : i \in limit + 1 .. Len(planned)}
       IN  [i \in 1..limit |-> [planned[i] EXCEPT !.deps = @ \ dropped]]

(* _never_runnable: what the ready set never reaches.                      *)
NeverRunnable(edges) ==
  LET done[n \in 0..Cardinality(DOMAIN edges)] ==
        IF n = 0 THEN {} ELSE {s \in DOMAIN edges : edges[s] \subseteq done[n - 1]}
  IN  DOMAIN edges \ done[Cardinality(DOMAIN edges)]

(* _plan_problems, as the set of what is wrong with the graph.             *)
PlanProblems(planned) ==
  LET names == Names(planned)
      Claims(i) == /\ planned[i].id # NoName
                   /\ \A j \in 1..(i - 1) : planned[j].id # planned[i].id
      claimed == {i \in DOMAIN planned : Claims(i)}
      StepOf(n) == planned[CHOOSE i \in claimed : planned[i].id = n]
      edges == [n \in names |-> (StepOf(n).deps \cap names) \ {n}]
  IN  {"id" : i \in DOMAIN planned \ claimed}
        \cup {"edge" : i \in {i \in claimed :
                                planned[i].deps \ (names \ {planned[i].id}) # {}}}
        \cup {"map" : i \in {i \in DOMAIN planned :
                               planned[i].map \notin {NoName} \cup (names \ {planned[i].id})}}
        \cup {"cycle" : n \in NeverRunnable(edges)}

(* _unique_ids: a repeated or empty id is renamed, no step is lost.        *)
Fresh(c, seen) ==
  IF c \notin seen THEN c
  ELSE Append(c, CHOOSE k \in 2..(Cardinality(seen) + 2) :
                   /\ Append(c, k) \notin seen
                   /\ \A j \in 2..(k - 1) : Append(c, j) \in seen)
UniqueIds(planned) ==
  LET Wanted(i) == IF planned[i].id = NoName THEN <<i>> ELSE planned[i].id
      ids[i \in 0..Len(planned)] ==
        IF i = 0 THEN <<>> ELSE Append(ids[i - 1], Fresh(Wanted(i), ToSet(ids[i - 1])))
  IN  ids[Len(planned)]

(* The edges that can be honoured, the one map_over implies among them.    *)
InitEdges(planned, ids) ==
  LET At(n) == CHOOSE i \in DOMAIN ids : ids[i] = n
  IN  [n \in ToSet(ids) |->
         ((planned[At(n)].deps \cup {planned[At(n)].map}) \cap ToSet(ids)) \ {n}]

(* _break_cycles: the first blocked step in plan order is freed, until no  *)
(* step is blocked; a step that was freed stays so.                        *)
BreakCycles(edges, ids) ==
  LET Free(e, s) ==
        LET blocked == NeverRunnable(e)
        IN  IF s \in blocked THEN [e EXCEPT ![s] = @ \ blocked] ELSE e
      freed[i \in 0..Len(ids)] == IF i = 0 THEN edges ELSE Free(freed[i - 1], ids[i])
  IN  freed[Len(ids)]

(* _closing_summary_ids: answers that wait on others and nothing waits on. *)
ClosingSummaries(planned, ids, edges) ==
  IF Len(ids) < 2 THEN {}
  ELSE {ids[i] : i \in {i \in DOMAIN ids :
          /\ planned[i].answer /\ edges[ids[i]] # {}
          /\ \A s \in DOMAIN edges : ids[i] \notin edges[s]}}

\* Mutant: the edges into a dropped summary are looked for before the cycles are cut.
InitPlanEarly(planned) ==
  LET ids == UniqueIds(planned)
      edges == InitEdges(planned, ids)
      keep == SelectSeq([i \in DOMAIN ids |-> i],
                LAMBDA i : ids[i] \notin ClosingSummaries(planned, ids, edges))
  IN  [k \in DOMAIN keep |->
         LET i == keep[k] IN
         [id |-> ids[i], deps |-> edges[ids[i]], optional |-> planned[i].optional,
          map |-> IF planned[i].map \in ToSet(ids) THEN planned[i].map ELSE NoName]]
(* _init_plan: the steps the dispatcher gets, a graph without cycles       *)
(* whatever the planner returned.                                          *)
InitPlan(planned) ==
  LET ids == UniqueIds(planned)
      edges == BreakCycles(InitEdges(planned, ids), ids)
      dropped == ClosingSummaries(planned, ids, edges)
      keep == Those([i \in DOMAIN ids |-> i], {i \in DOMAIN ids : ids[i] \notin dropped})
  IN  [k \in DOMAIN keep |->
         LET i == keep[k] IN
         [id |-> ids[i], deps |-> edges[ids[i]], optional |-> planned[i].optional,
          map |-> IF planned[i].map \in ToSet(ids) THEN planned[i].map ELSE NoName]]

\* Mutant: a pass takes the whole ready set.
RemainingWavesWide(left, edges, width) ==
  LET Pass(rest) == SelectSeq(rest, LAMBDA s : edges[s] \cap ToSet(rest) # {})
      after[n \in Nat] == IF n = 0 THEN left ELSE Pass(after[n - 1])
  IN  IF left = <<>> THEN 1
      ELSE CHOOSE n \in 1..Len(left) : after[n] = <<>> /\ after[n - 1] # <<>>
(* _remaining_waves: the passes left when every step in flight or waiting  *)
(* passes, with batches no wider than width.                               *)
RemainingWaves(left, edges, width) ==
  LET Pass(rest) ==
        LET ready == Those(rest, {s \in ToSet(rest) : edges[s] \cap ToSet(rest) = {}})
        IN  Those(rest, ToSet(rest) \ ToSet(Firsts(ready, width)))
      after[n \in 0..Len(left)] == IF n = 0 THEN left ELSE Pass(after[n - 1])
  IN  IF left = <<>> THEN 1
      ELSE CHOOSE n \in 1..Len(left) : after[n] = <<>> /\ after[n - 1] # <<>>

-----------------------------------------------------------------------------
(* What the operators above are held against.                              *)
(* The steps s waits for: the least set with the steps it depends on and   *)
(* all that a step in the set depends on.                                  *)
WaitsFor(edges, s) ==
  {t \in DOMAIN edges : \A C \in SUBSET DOMAIN edges :
     edges[s] \subseteq C /\ (\A c \in C : edges[c] \subseteq C) => t \in C}
OnCycle(edges, s) == s \in WaitsFor(edges, s)

(* A plan the dispatcher can walk to its end: distinct ids, every edge to  *)
(* a step of the plan, no cycle, and at least one step.                    *)
Walkable(plan) ==
  LET ids == {plan[k].id : k \in DOMAIN plan}
      edges == [n \in ids |-> plan[CHOOSE k \in DOMAIN plan : plan[k].id = n].deps]
  IN  /\ plan # <<>> /\ Cardinality(ids) = Len(plan)
      /\ \A n \in ids : edges[n] \subseteq ids
      /\ \A n \in ids : ~OnCycle(edges, n)

(* A step never runs exactly when it is on a cycle or waits for one.       *)
WaitsForCycle(edges) ==
  {s \in DOMAIN edges :
     \E t \in {s} \cup WaitsFor(edges, s) : OnCycle(edges, t)}

(* Cutting takes as little as it can from an acyclic graph, and frees the  *)
(* earliest step of a cyclic one without touching edges out of the cycles. *)
CutsOnlyCycles(edges, cut) ==
  \A s \in DOMAIN edges :
    /\ cut[s] \subseteq edges[s]
    /\ edges[s] \ cut[s] \subseteq WaitsForCycle(edges)
=============================================================================
