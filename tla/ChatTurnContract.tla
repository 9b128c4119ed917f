-------------------------- MODULE ChatTurnContract --------------------------
(***************************************************************************)
(* What admission promises of one conversation, without clocks, workflows  *)
(* or retries: a turn holds the conversation from the moment it is         *)
(* admitted until it is closed, only one does at a time, its answer is     *)
(* begun at most once and only while it holds the conversation, and a      *)
(* closed turn stays closed until its log is erased.                       *)
(***************************************************************************)
CONSTANT Turns

VARIABLES
    row,        \* "none", "held", "closed" or "erased"
    answered    \* turns whose answer has been begun

Init ==
    /\ row = [t \in Turns |-> "none"]
    /\ answered = {}

\* A message takes the conversation.  It may close whoever held it.
Take(t) ==
    /\ row[t] = "none"
    /\ row' = [u \in Turns |-> IF u = t THEN "held"
                               ELSE IF row[u] = "held" THEN "closed" ELSE row[u]]
    /\ UNCHANGED answered

Answer(t) ==
    /\ row[t] = "held" /\ t \notin answered
    /\ answered' = answered \cup {t}
    /\ UNCHANGED row

Close(t) ==
    /\ row[t] = "held"
    /\ row' = [u \in Turns |-> IF u = t THEN "closed" ELSE row[u]]
    /\ UNCHANGED answered

Erase(t) ==
    /\ row[t] \in {"held", "closed"}
    /\ row' = [u \in Turns |-> IF u = t THEN "erased" ELSE row[u]]
    /\ UNCHANGED answered

Next == \E t \in Turns : Take(t) \/ Answer(t) \/ Close(t) \/ Erase(t)

Spec == Init /\ [][Next]_<<row, answered>>
=============================================================================
