-------------------------- MODULE SandboxBootstrap --------------------------
(***************************************************************************)
(* The create operation of a Sandbox with sources, as the workers of the   *)
(* controller carry it out: open the network to the source hosts, let the  *)
(* helper fetch the sources, record its receipt, close the network, and    *)
(* release the workload.  A worker whose lease has ended goes on until it  *)
(* notices, so calls of two workers interleave, and a call that was sent   *)
(* takes effect late.                                                      *)
(***************************************************************************)
EXTENDS SourceHelper

CONSTANTS Worker, NoWorker, NoPod,
          MaxClaims,     \* how often the operation is claimed
          MaxForeign     \* NetworkPolicies of others that appear

ASSUME BootstrapAssumption == MaxClaims \in Nat /\ MaxForeign \in Nat
ASSUME NameAssumption == NoPod \notin Nat /\ NoWorker \notin Worker /\ 0 \notin Slot

VARIABLES lease,      \* the worker that holds the operation's lease
          claims,     \* claims so far
          record,     \* the Pod of the receipt in the store
          bound,      \* the create has completed
          deny,       \* the NetworkPolicy blazn-runtime-deny exists
          allow,      \* the NetworkPolicy blazn-source-egress
          made,       \* its incarnations so far
          foreign,    \* a NetworkPolicy of others selects the Pod
          strangers,  \* how often one appeared
          worker      \* the attempt of each worker

networkVars == <<deny, allow, made, foreign, strangers>>
storeVars == <<lease, claims, record, bound>>
vars == <<helperVars, networkVars, storeVars, worker>>

NoPolicy == [kind |-> "none", uid |-> 0, going |-> FALSE, fenced |-> FALSE]
Policy(k, u, f) == [kind |-> k, uid |-> u, going |-> FALSE, fenced |-> f]
Idle == [pc |-> "idle", pod |-> NoPod, uid |-> 0, slot |-> 0, ready |-> FALSE]

Init ==
  /\ HelperInit
  /\ lease = NoWorker /\ claims = 0 /\ record = NoPod /\ bound = FALSE
  /\ deny = FALSE /\ made = 1 /\ foreign = FALSE /\ strangers = 0
  \* A controller of an earlier release may have left its allow policy.
  /\ allow \in {NoPolicy, Policy("legacy", 1, TRUE)}
  /\ worker = [w \in Worker |-> Idle]

On(w, pc) == worker[w].pc = pc
Step(w, pc) == worker' = [worker EXCEPT ![w].pc = pc]

\* A failure that may be tried again gives the lease back, if it is still held.
Fail(w) ==
  /\ worker' = [worker EXCEPT ![w] = Idle]
  /\ lease' = IF lease = w THEN NoWorker ELSE lease
  /\ UNCHANGED <<claims, record, bound>>

\* The answer was not the one that was hoped for.
Refused(w) == Fail(w) /\ UNCHANGED <<helperVars, networkVars>>

Reads(w, pc) == Step(w, pc) /\ UNCHANGED <<helperVars, networkVars, storeVars>>

-----------------------------------------------------------------------------
(* create, up to the sources *)

Claim(w) ==
  /\ On(w, "idle") /\ lease = NoWorker /\ ~bound /\ claims < MaxClaims
  /\ lease' = w /\ claims' = claims + 1
  /\ Step(w, "observe")
  /\ UNCHANGED <<helperVars, networkVars, record, bound>>

\* EnsureCreated or Observe: with a receipt in the store the Pod must be the one
\* it was made in; without one a Pod that is ready is not trusted.
Observe(w) ==
  /\ On(w, "observe")
  /\ IF (record = NoPod /\ main = "started") \/ record \notin {NoPod, pod} THEN Refused(w)
     ELSE /\ worker' = [worker EXCEPT ![w].pod = pod, ![w].ready = (main = "started"),
                ![w].pc = IF record = NoPod THEN "deny" ELSE "deny_again"]
          /\ UNCHANGED <<helperVars, networkVars, storeVars>>

-----------------------------------------------------------------------------
(* KubernetesSourceNetwork *)

\* ensure of the default-deny policy, in Prepare and again in Restrict.
EnsureDeny(w) ==
  /\ \/ On(w, "deny") /\ Step(w, "get_allow")
     \/ On(w, "deny_again") /\ Step(w, "get_again")
  /\ deny' = TRUE
  /\ UNCHANGED <<helperVars, allow, made, foreign, strangers, storeVars>>

\* itemSourceCIDRs: a source whose host has no approved address stops the attempt.
itemSourceCIDRs(w) == (On(w, "deny") \/ On(w, "deny_again")) /\ Refused(w)

\* ensureBootstrap: there already (a deletion that is under way does not show),
\* absent, or the obsolete one to be replaced.
EnsureBootstrap(w) ==
  /\ On(w, "get_allow")
  /\ worker' = [worker EXCEPT ![w].uid = allow.uid,
       ![w].pc = CASE allow.kind = "none" -> "post"
                   [] allow.kind = "current" -> "verify_open"
                   [] allow.kind = "legacy" -> "delete_legacy"]
  /\ UNCHANGED <<helperVars, networkVars, storeVars>>

\* ensure of the allow policy: created unless somebody has meanwhile.
PostAllow(w) ==
  /\ On(w, "post")
  /\ IF allow.kind = "none"
     THEN /\ made' = made + 1
          /\ allow' = Policy("current", made + 1, lease = w)
          /\ worker' = [worker EXCEPT ![w].pc = "verify_open", ![w].uid = made + 1]
          /\ UNCHANGED <<helperVars, deny, foreign, strangers, storeVars>>
     ELSE Refused(w)

\* delete carries the UID and the resource version as preconditions.
Deletes(w, next) ==
  IF allow.kind # "none" /\ allow.uid = worker[w].uid
  THEN /\ allow' = [allow EXCEPT !.going = TRUE]
       /\ Step(w, next)
       /\ UNCHANGED <<helperVars, deny, made, foreign, strangers, storeVars>>
  ELSE Refused(w)

DeleteLegacy(w) == On(w, "delete_legacy") /\ Deletes(w, "await_legacy")
DeleteAllow(w) == On(w, "delete") /\ Deletes(w, "await")

\* Foreground deletion ends some time after it was accepted.
AllowGone ==
  /\ allow.going /\ allow' = NoPolicy
  /\ UNCHANGED <<helperVars, deny, made, foreign, strangers, storeVars, worker>>

\* The polls for the end of the deletion; after a hundred of them they give up.
PollLegacy(w) ==
  /\ On(w, "await_legacy")
  /\ IF allow.kind = "none" THEN Reads(w, "post") ELSE Refused(w)

PollAllow(w) ==
  /\ On(w, "await")
  /\ IF allow.kind = "none" THEN Reads(w, "verify_closed") ELSE Refused(w)

\* verifyOwnedSet: exactly these of our policies, and none of others.
verifyOwnedSet(open) == deny /\ (allow.kind # "none") = open /\ ~foreign

\* Prepare: a set that differs takes the allow policy with it.
VerifyOpen(w) ==
  /\ On(w, "verify_open")
  /\ IF verifyOwnedSet(TRUE) THEN Reads(w, "preflight") ELSE Reads(w, "undo")

UndoPrepare(w) ==
  /\ On(w, "undo") /\ Fail(w)
  /\ allow' = IF allow.uid = worker[w].uid THEN [allow EXCEPT !.going = TRUE] ELSE allow
  /\ UNCHANGED <<helperVars, deny, made, foreign, strangers>>

GetAgain(w) ==
  /\ On(w, "get_again")
  /\ worker' = [worker EXCEPT ![w].uid = allow.uid,
       ![w].pc = IF allow.kind = "none" THEN "await" ELSE "delete"]
  /\ UNCHANGED <<helperVars, networkVars, storeVars>>

VerifyClosed(w) ==
  /\ On(w, "verify_closed")
  /\ IF verifyOwnedSet(FALSE)
     THEN Reads(w, IF worker[w].ready THEN "bind" ELSE "release_preflight")
     ELSE Refused(w)

\* A NetworkPolicy that is not ours comes and goes.
Foreign ==
  /\ \/ ~foreign /\ strangers < MaxForeign /\ strangers' = strangers + 1
     \/ foreign /\ strangers' = strangers
  /\ foreign' = ~foreign
  /\ UNCHANGED <<helperVars, deny, allow, made, storeVars, worker>>

-----------------------------------------------------------------------------
(* sandboxio.Controller: one exchange with a helper *)

\* VerifyPodOwner: the Pod of that name still has the UID that was observed.
VerifyPodOwner(w) == pod = worker[w].pod

Preflight(w) ==
  \/ On(w, "preflight") /\ IF VerifyPodOwner(w) THEN Reads(w, "exec") ELSE Refused(w)
  \/ /\ On(w, "release_preflight")
     /\ IF VerifyPodOwner(w) THEN Reads(w, "release_exec") ELSE Refused(w)

\* ValidateSourceManifest: a manifest that is not canonical is never sent.
ValidateSourceManifest(w) == On(w, "exec") /\ Refused(w)

\* Exec names the Pod, not its UID, and needs the container to run.
Start(w, op, next) ==
  IF main = "waiting"
  THEN \E h \in Slot :
         /\ helper[h].pc \in {"free", "dead"} /\ \A v \in Worker : worker[v].slot # h
         /\ helper' = [helper EXCEPT ![h] = Begin(op)]
         /\ worker' = [worker EXCEPT ![w].pc = next, ![w].slot = h]
         /\ UNCHANGED <<podVars, kills, networkVars, storeVars>>
  ELSE Refused(w)

Exec(w) ==
  \/ On(w, "exec") /\ Start(w, "bootstrap", "wait")
  \/ On(w, "release_exec") /\ Start(w, "release", "release_wait")

\* DecodeResponse: a frame that says ok, of the operation, with its digest.
DecodeResponse(h) == helper[h].pc = "ok"

\* The status frame of the stream, or its end without one.
ExecEnded(h) == ~Running(h)

\* The end of an exchange.  The slot is free again.
Answer(w) ==
  /\ worker[w].slot # 0 /\ ExecEnded(worker[w].slot)
  /\ LET h == worker[w].slot  ok == DecodeResponse(h) IN
     /\ helper' = [helper EXCEPT ![h] = NoHelper]
     /\ IF ok
        THEN /\ worker' = [worker EXCEPT ![w].slot = 0,
                   ![w].pc = IF On(w, "wait") THEN "postflight" ELSE "release_postflight"]
             /\ UNCHANGED storeVars
        ELSE Fail(w)
     /\ UNCHANGED <<podVars, kills, networkVars>>

\* The exchange times out, and the helper runs on.
GiveUp(w) == worker[w].slot # 0 /\ Refused(w)

\* The answers of helpers nobody waits for are lost.
Unheard(h) ==
  /\ helper[h].pc \in {"ok", "error", "dead"} /\ \A w \in Worker : worker[w].slot # h
  /\ helper' = [helper EXCEPT ![h] = NoHelper]
  /\ UNCHANGED <<podVars, kills, networkVars, storeVars, worker>>

\* Mutant of Postflight: the answer is taken without a second look at the Pod.
PostflightBlindly(w) ==
  \/ On(w, "postflight") /\ Reads(w, "record")
  \/ On(w, "release_postflight") /\ Reads(w, "ready")

Postflight(w) ==
  \/ On(w, "postflight") /\ IF VerifyPodOwner(w) THEN Reads(w, "record") ELSE Refused(w)
  \/ /\ On(w, "release_postflight")
     /\ IF VerifyPodOwner(w) THEN Reads(w, "ready") ELSE Refused(w)

-----------------------------------------------------------------------------
(* create, after the sources *)

\* Mutant of RecordSources: the workload is released before the network is closed.
RecordSourcesOpen(w) ==
  /\ On(w, "record") /\ lease = w
  /\ record' = worker[w].pod /\ Step(w, "release_preflight")
  /\ UNCHANGED <<helperVars, networkVars, lease, claims, bound>>

\* RecordSources is fenced by the lease: a worker that lost it goes no further.
RecordSources(w) ==
  /\ On(w, "record")
  /\ IF lease = w
     THEN /\ record' = worker[w].pod /\ Step(w, "deny_again")
          /\ UNCHANGED <<helperVars, networkVars, lease, claims, bound>>
     ELSE Refused(w)

\* The polls until the Sandbox is ready, in the Pod of the receipt.
Ready(w) ==
  /\ On(w, "ready")
  /\ IF pod # worker[w].pod \/ main = "failed" THEN Refused(w)
     ELSE main = "started" /\ Reads(w, "bind")

\* BindBackend and Complete, both fenced.
Complete(w) ==
  /\ On(w, "bind")
  /\ IF lease = w
     THEN /\ bound' = TRUE /\ lease' = NoWorker
          /\ worker' = [worker EXCEPT ![w] = Idle]
          /\ UNCHANGED <<helperVars, networkVars, claims, record>>
     ELSE Refused(w)

\* The lease ends under its worker, which notices some time later.
LeaseLost ==
  /\ lease # NoWorker /\ lease' = NoWorker
  /\ UNCHANGED <<helperVars, networkVars, claims, record, bound, worker>>

Notices(w) == ~On(w, "idle") /\ lease # w /\ Refused(w)

WorkerSteps(w) ==
  \/ Claim(w) \/ Observe(w) \/ EnsureDeny(w) \/ itemSourceCIDRs(w)
  \/ EnsureBootstrap(w) \/ PostAllow(w) \/ ValidateSourceManifest(w)
  \/ DeleteLegacy(w) \/ PollLegacy(w) \/ VerifyOpen(w) \/ UndoPrepare(w)
  \/ Preflight(w) \/ Exec(w) \/ Answer(w) \/ GiveUp(w) \/ Postflight(w)
  \/ RecordSources(w) \/ GetAgain(w) \/ DeleteAllow(w) \/ PollAllow(w) \/ VerifyClosed(w)
  \/ Ready(w) \/ Complete(w) \/ Notices(w)

Next ==
  \/ \E w \in Worker : WorkerSteps(w)
  \/ \E h \in Slot : Unheard(h)
  \/ PodSteps /\ UNCHANGED <<networkVars, storeVars, worker>>
  \/ AllowGone \/ Foreign \/ LeaseLost

Spec == Init /\ [][Next]_vars

-----------------------------------------------------------------------------
(* Properties *)

\* A workload starts with every file of its sources whole (Materialize, adopt,
\* Release), whatever helpers of abandoned execs do at the same time; only an
\* entry that such a helper removes after another has checked them is missed.
SourcesAreWhole ==
  main = "started" => (\A f \in File : files[f].state = "ok") \/ late

\* The egress to the source hosts is closed while the workload runs (Restrict
\* before Release); only a create that a worker without the lease had under way
\* opens it again.
EgressIsClosed ==
  main = "started" /\ allow.kind # "none" => ~allow.fenced

\* The store holds a receipt for a Pod only when a helper stored it within that
\* very Pod (exchange looks at the owner before and after), and a workload is
\* released only when there is such a receipt, which later attempts rely on
\* (create): a worker that could not record its receipt goes no further.
RecordIsTrue ==
  /\ record = NoPod \/ record \in sealed
  /\ released # "none" => record # NoPod
=============================================================================
