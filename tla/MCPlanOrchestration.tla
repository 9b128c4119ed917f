------------------------ MODULE MCPlanOrchestration ------------------------
EXTENDS PlanOrchestration
S(id, deps, map, answer, optional) ==
  [id |-> id, deps |-> deps, map |-> map, answer |-> answer, optional |-> optional]
A == <<1>>
B == <<2>>
C == <<3>>
\* A step, one that maps over it, and one that depends on the mapped one.
MCChain == <<S(A, {}, NoName, FALSE, FALSE), S(B, {A}, A, FALSE, FALSE),
             S(C, {B}, NoName, FALSE, TRUE)>>
\* ... and one that maps over the mapped one: repaired, not followed.
MCNest == <<S(A, {}, NoName, FALSE, FALSE), S(B, {A}, A, FALSE, TRUE),
            S(C, {B}, B, FALSE, FALSE)>>
\* More steps side by side than a batch takes.
MCFork == <<S(A, {}, NoName, FALSE, FALSE), S(B, {}, NoName, FALSE, TRUE),
            S(C, {}, NoName, FALSE, FALSE)>>
MCExplored == {MCFork, MCChain, <<>>}
\* Three steps, with every choice of edges among them.
MCRaw ==
  {<<S(x[1], e, x[4], FALSE, FALSE), S(x[2], f, NoName, x[5], FALSE), S(x[3], g, NoName, TRUE, FALSE)>> :
     e \in SUBSET {A, B, C}, f \in SUBSET {A, B, C}, g \in SUBSET {A, B, C},
     x \in {<<A, B, C, NoName, FALSE>>, <<A, B, C, B, TRUE>>, <<A, A, B, NoName, FALSE>>,
            <<A, NoName, C, C, FALSE>>}}
  \cup {Append(MCFork, S(A, {C}, NoName, TRUE, FALSE))} \cup {MCNest} \cup MCExplored
=============================================================================
