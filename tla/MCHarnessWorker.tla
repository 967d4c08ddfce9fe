-------------------------- MODULE MCHarnessWorker --------------------------
(* HarnessWorker for TLC: one run with three or four records and a queue of one. *)
EXTENDS HarnessWorker
=============================================================================
