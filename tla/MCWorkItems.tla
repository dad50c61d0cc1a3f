---------------------------- MODULE MCWorkItems ----------------------------
(* Instances of WorkItems for TLC.                                         *)
EXTENDS WorkItems, TLC

CONSTANTS s1, s2

MCSessions == {s1, s2}
SessionSymmetry == Permutations(MCSessions)
=============================================================================
