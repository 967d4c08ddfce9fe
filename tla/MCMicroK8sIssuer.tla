-------------------------- MODULE MCMicroK8sIssuer --------------------------
(* Instances of MicroK8sIssuer for TLC.                                    *)
EXTENDS MicroK8sIssuer, TLC

Symmetry == Permutations(Workspace) \cup Permutations(Term)
=============================================================================
