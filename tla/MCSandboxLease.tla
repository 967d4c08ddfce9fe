--------------------------- MODULE MCSandboxLease ---------------------------
(* Small instances of SandboxLease for TLC. *)
EXTENDS SandboxLease, TLC

\* Workers are interchangeable.
Symmetry == Permutations(Worker)
=============================================================================
