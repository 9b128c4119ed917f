------------------------ MODULE MCSessionRetirement ------------------------
(* Instances of SessionRetirement for TLC.                                 *)
EXTENDS SessionRetirement, TLC

Symmetry == Permutations(Requests) \cup Permutations(Deleters)
=============================================================================
