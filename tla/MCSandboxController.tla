------------------------- MODULE MCSandboxController -------------------------
(* Small instances of SandboxController for TLC. *)
EXTENDS SandboxController, TLC

\* Operations, workers and backends are interchangeable.
Symmetry == Permutations(Op) \cup Permutations(Worker) \cup Permutations(Backend)
==============================================================================
