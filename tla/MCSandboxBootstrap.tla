------------------------- MODULE MCSandboxBootstrap -------------------------
(* SandboxBootstrap for TLC: the workers are interchangeable. *)
EXTENDS SandboxBootstrap, TLC

CONSTANTS w1, w2

Workers == {w1, w2}
Symmetry == Permutations(Workers)

=============================================================================
