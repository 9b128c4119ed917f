------------------------ MODULE MCPlansAndSchedules ------------------------
(***************************************************************************)
(* The plans of a conversation and the schedule of a scheduled chat, side  *)
(* by side.  They share no state; focus says which one a behaviour is      *)
(* about, the other never leaves its initial state, so the states are the  *)
(* sum of the two and not their product.                                   *)
(***************************************************************************)
EXTENDS MCPlanOrchestration, ScheduleReconciler

VARIABLE focus
allVars == <<focus, planVars, schedVars>>

BothInit ==
    /\ focus \in {"plan", "schedule"} /\ PlanInit /\ SchedInit
    /\ focus = "plan" => rec = NoRec
    \* A chat that exists already meets two requests, and no failure; one that is
    \* created meets its creation, one more request, and the failures.
    /\ rec # NoRec => failures = MaxFailures
BothNext ==
    /\ UNCHANGED focus
    /\ \/ focus = "plan" /\ PlanNext /\ UNCHANGED schedVars
       \/ focus = "schedule" /\ SchedNext /\ UNCHANGED planVars

\* Neither is enabled under its fairness while the other is in focus.
BothSpec == BothInit /\ [][BothNext]_allVars /\ WF_phase(LeavesNode) /\ SchedFairness
=============================================================================
