-------------------------- MODULE ProxyPublication --------------------------
(***************************************************************************)
(* What `blazn proxy` promises the user about the environment variables it *)
(* takes over (docs/proxy-activation-core.md), without files, locks or     *)
(* processes.                                                              *)
(*                                                                         *)
(* An activation first claims the environment and notes every prior value, *)
(* then replaces all variables at once, and only if nobody has changed     *)
(* them.  A value is given back as it was, one variable at a time, and the *)
(* claim may be dropped only when no variable carries it any longer.  The  *)
(* user may change any variable at any moment and keeps what he wrote.     *)
(***************************************************************************)
EXTENDS Naturals

CONSTANTS Name,         \* the environment variables
          Activation,   \* identities of activations
          UserValue,    \* values that are not Blazn's
          None          \* no claim; also: the variable is not set

VARIABLES env,          \* [Name -> value]
          claim,        \* None or [id |-> ..., prior |-> ...]
          edits         \* how often the user has written a variable

Value == UserValue \cup {None}
Claim == [id : Activation, prior : [Name -> Value \cup Activation]]

Init == /\ env \in [Name -> Value]
        /\ claim = None
        /\ edits = 0

Carries(n, a) == env[n] = a

(* A claim is made, or one that had been dropped comes back after a loss   *)
(* of power.                                                               *)
Take == /\ \A n \in Name, a \in Activation : ~Carries(n, a)
        /\ claim' \in Claim
        /\ UNCHANGED <<env, edits>>

Publish == /\ claim \in Claim
           /\ env = claim.prior
           /\ env' = [n \in Name |-> claim.id]
           /\ UNCHANGED <<claim, edits>>

Restore(n) == /\ claim \in Claim
              /\ Carries(n, claim.id)
              /\ env' = [env EXCEPT ![n] = claim.prior[n]]
              /\ UNCHANGED <<claim, edits>>

Drop == /\ \A n \in Name, a \in Activation : ~Carries(n, a)
        /\ claim' = None
        /\ UNCHANGED <<env, edits>>

(* The user edits a variable.                                              *)
Edit(n, v) == /\ env' = [env EXCEPT ![n] = v]
              /\ edits' = edits + 1
              /\ UNCHANGED claim

(* The session ends: values of an activation were never made permanent.    *)
Logout == /\ env' = [n \in Name |-> IF env[n] \in Activation THEN None ELSE env[n]]
          /\ claim' \in Claim \cup {None}
          /\ UNCHANGED edits

Next == \/ Take
        \/ Publish
        \/ \E n \in Name : Restore(n) \/ (\E v \in Value : Edit(n, v))
        \/ Drop
        \/ Logout

Spec == Init /\ [][Next]_<<env, claim, edits>>
=============================================================================
