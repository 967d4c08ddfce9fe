---------------------------- MODULE MCProxyRouter ----------------------------
(* Finite instances of ProxyRouter for TLC. *)
EXTENDS ProxyRouter

CONSTANTS c1, r1

MCRetryable == {"connection", "timeout", "rejected"}
=============================================================================
