------------------------- MODULE MCProxyActivation -------------------------
(* Small instances of ProxyActivation.                                     *)
EXTENDS ProxyActivation, TLC

Symmetry == Permutations(Proc) \cup Permutations(Activation) \cup Permutations(Name)
=============================================================================
