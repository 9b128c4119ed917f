----------------------------- MODULE MCServices -----------------------------
(***************************************************************************)
(* Two small models side by side: the stop of a turn and the sandboxes of  *)
(* a conversation.  They share no state; focus says which one a behaviour  *)
(* is about, the other never leaves its initial state, so the states are   *)
(* the sum of the two and not their product.                               *)
(***************************************************************************)
EXTENDS ChatTurns, SandboxSession

VARIABLE focus
allVars == <<focus, vars, boxVars>>

ServicesInit == focus \in {"turns", "sandboxes"} /\ Init /\ SandboxInit

ServicesNext ==
    /\ UNCHANGED focus
    /\ \/ focus = "turns" /\ Next /\ UNCHANGED boxVars
       \/ focus = "sandboxes" /\ SandboxNext /\ UNCHANGED vars

\* Nothing of the model that is out of focus is ever enabled under its fairness.
ServicesSpec ==
    ServicesInit /\ [][ServicesNext]_allVars /\ TurnFairness /\ SandboxFairness
=============================================================================
