--------------------------- MODULE MCSandboxQueue ---------------------------
(* Small instances of SandboxQueue for TLC. *)
EXTENDS SandboxQueue, TLC

\* Operations, workers, backends and grants of one kind are interchangeable.
Symmetry == Permutations(Op) \cup Permutations(Worker) \cup Permutations(Backend)
            \cup Permutations(RunGrant) \cup Permutations(Grant \ RunGrant)

\* Sandboxes share no row: one at a time, of either kind, shows what each can do.
OneSandbox == Cardinality({s \in Sandbox : sandboxes[s].state # "none"}) <= 1
=============================================================================
