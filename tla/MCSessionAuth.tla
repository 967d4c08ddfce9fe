---------------------------- MODULE MCSessionAuth ----------------------------
(* Instances of SessionAuth for TLC.                                       *)
EXTENDS SessionAuth, TLC

Symmetry == Permutations(Proc) \cup Permutations(Device)
=============================================================================
