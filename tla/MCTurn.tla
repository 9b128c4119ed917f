------------------------------- MODULE MCTurn -------------------------------
(***************************************************************************)
(* Three small models of one turn and what it leaves, side by side: its    *)
(* budget, the loop of the single agent, and the messages that are kept    *)
(* from turn to turn.  They share no state; focus says which one a         *)
(* behaviour is about, the others never leave their initial states, so the *)
(* states are the sum of the three and not their product.                  *)
(***************************************************************************)
EXTENDS TurnBudget, AgentLoop, ConversationHistory

VARIABLE focus

MCKindOf == [d1 |-> "delegate", d2 |-> "delegate", w2 |-> "work", a |-> "answer"]
MCCalls == DOMAIN MCKindOf
MCScopeOf == [d1 |-> "s1", d2 |-> "s1", w2 |-> "s2", a |-> "none"]
MCRequests == {[tokens |-> 1, cost |-> 1], [tokens |-> 2, cost |-> 1]}
MCLimit == [tokens |-> 4, cost |-> 4]
MCReserve == [tokens |-> 1, cost |-> 1]
MCSoft == [tokens |-> 4, cost |-> 3]
MCCeiling == [s1 |-> [tokens |-> 2, cost |-> 0], s2 |-> [tokens |-> 0, cost |-> 2]]
\* No tool is disclosed until the skill is read.
MCUnlocks == [s \in Skills |-> Tools]

TurnInit ==
    /\ focus \in {"budget", "agent", "history"}
    /\ BudgetInit /\ AgentInit /\ HistoryInit
    /\ focus # "agent" => older = 0 /\ Len(ctx) = 1

TurnNext ==
    /\ UNCHANGED focus
    /\ \/ focus = "budget" /\ BudgetNext /\ UNCHANGED <<agentVars, historyVars>>
       \/ focus = "agent" /\ AgentNext /\ UNCHANGED <<budgetVars, historyVars>>
       \/ focus = "history" /\ HistoryNext /\ UNCHANGED <<budgetVars, agentVars>>

\* Nothing of the budget is enabled out of focus.
TurnSpec == TurnInit /\ [][TurnNext]_<<focus, budgetVars, agentVars, historyVars>> /\ BudgetFairness
=============================================================================
