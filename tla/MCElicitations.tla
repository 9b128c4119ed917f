--------------------------- MODULE MCElicitations ---------------------------
(* Instances of Elicitations for TLC.                                      *)
EXTENDS Elicitations, TLC

Symmetry == Permutations(Groups) \cup Permutations(Questions) \cup Permutations(Resumers)
=============================================================================
