---------------------------- MODULE MCChatTurns ----------------------------
(* Instances of ChatTurns for TLC.                                         *)
EXTENDS ChatTurns, TLC

\* Requests and idempotency keys are interchangeable; turns are too.
Symmetry == Permutations(Turns) \cup Permutations(Keys) \cup Permutations(Requests)
=============================================================================
