------------------------------ MODULE NodeHost ------------------------------
(***************************************************************************)
(* The host of a node as the privileged root helper changes it             *)
(* (internal/node, NativeRootEngine and the service-state preparation).    *)
(*                                                                         *)
(* Each operator is one operation of the helper as a function of the host  *)
(* record h, with the condition under which the operation succeeds.  A     *)
(* signed plan is reduced to three mutations, one of each kind that the    *)
(* lifecycle treats differently: the MicroK8s package, the enabled daemon  *)
(* service and the bootstrap taint of the Kubernetes Node.                 *)
(***************************************************************************)
EXTENDS Naturals, Sequences

Plan == <<"package", "service", "taint">>

NodeState == {"absent", "quarantined", "released", "retired"}

Host == [package : {"none", "prior", "signed", "other"},
         original : {"none", "prior"}, \* the package before enrollment
         service : {"none", "enabled", "running"},
         node : NodeState,
         clustered : BOOLEAN,          \* MicroK8s holds its clustered lock
         authority : BOOLEAN,          \* the root install authority exists
         intent : BOOLEAN,             \* ... with a join intent
         bound : BOOLEAN,              \* ... with the joined Node's identity
         policy : BOOLEAN,             \* the daemon's sudo observation policy
         owner : {"caller", "daemon"}, \* of the private service state
         handoff : {"none", "caller", "daemon"}]

FreshHost(original) ==
    [package |-> original, original |-> original, service |-> "none", node |-> "absent",
     clustered |-> FALSE, authority |-> FALSE, intent |-> FALSE, bound |-> FALSE,
     policy |-> FALSE, owner |-> "caller", handoff |-> "none"]

(* The host's owner refreshes the package to a revision that no plan names. *)
Refreshed(h) == [h EXCEPT !.package = "other"]

-----------------------------------------------------------------------------
(* Reading the Kubernetes Node: kubectl exists and the host is a member.   *)
clusterRuntimePresent(h) == h.package # "none" /\ h.clustered
Observable(h) == clusterRuntimePresent(h) /\ h.node # "absent"

(* validateCapacityState: released, or else in complete quarantine; the    *)
(* patches are atomic, so there is nothing between.                        *)
validateCapacityState(h) == h.node = "released"

(* RootProbe: a bound authority needs its Node.                            *)
ProbeOK(h) == h.bound => Observable(h)

-----------------------------------------------------------------------------
(* Mutations.                                                              *)
CaptureOK(h, m) == m = "taint" => Observable(h)
Captured(h, m) == CASE m = "package" -> h.package [] m = "service" -> h.service [] OTHER -> h.node

(* apply: a joined Node already carries the bootstrap taint, and a         *)
(* released one is left released.                                          *)
ApplyOK(h, m) == m = "taint" => Observable(h)
Applied(h, m) ==
    CASE m = "package" -> [h EXCEPT !.package = "signed"]
      [] m = "service" -> [h EXCEPT !.service = IF @ = "none" THEN "enabled" ELSE @]
      [] OTHER -> h

(* verifyMutation, and verify over the whole plan.                         *)
verifyPackage(h) == h.package = "signed"
verifyMutation(h, m) ==
    CASE m = "package" -> verifyPackage(h) [] m = "service" -> h.service # "none"
      [] OTHER -> Observable(h)
VerifyOK(h) == \A i \in 1 .. Len(Plan) : verifyMutation(h, Plan[i])

verifyActivatedCapacityState(h) == Observable(h)

(* rollback: compare with the signed state, then put the captured prior    *)
(* state back.  Removing the package takes the cluster membership with it. *)
matchesCapturedPrior(h, m, prior) == Captured(h, m) = prior
refreshRollbackBinding(h) == h.bound /\ Observable(h)
RollbackOK(h, m, prior) ==
    CASE m = "taint" -> refreshRollbackBinding(h)
      [] OTHER -> verifyMutation(h, m) \/ matchesCapturedPrior(h, m, prior)

RestorePackage(h, prior) ==
    [h EXCEPT !.package = prior, !.clustered = @ /\ prior # "none"]

(* Enablement and activity in one step: a service between the two is a      *)
(* residue that recovery meets again.                                      *)
restoreServicePrior(h, prior) == [h EXCEPT !.service = prior]

requarantineReleasedNode(h) ==
    IF validateCapacityState(h) THEN [h EXCEPT !.node = "quarantined"] ELSE h

RolledBack(h, m, prior) ==
    CASE m = "package" -> RestorePackage(h, prior)
      [] m = "service" -> restoreServicePrior(h, prior)
      [] OTHER -> requarantineReleasedNode(h)

-----------------------------------------------------------------------------
(* The worker join and the root authority.                                 *)
authorizeBootstrap(h) == [h EXCEPT !.authority = TRUE]

beginRootJoinIntent(h) == [h EXCEPT !.intent = TRUE]
updateRootKubernetesBinding(h) == [h EXCEPT !.bound = TRUE]
microK8sJoin(h) == [h EXCEPT !.clustered = TRUE, !.node = "quarantined"]

(* RootJoin: a bound Node is observed again, a journaled join is only      *)
(* observed, and a first join is journaled, made and bound.                *)
JoinOK(h) == IF h.bound \/ h.intent THEN Observable(h)
             ELSE h.package = "signed" /\ ~h.clustered
Joined(h) ==
    IF h.bound THEN h
    ELSE IF h.intent THEN updateRootKubernetesBinding(h)
    ELSE updateRootKubernetesBinding(microK8sJoin(beginRootJoinIntent(h)))
JoinPartly(h) ==
    IF h.bound \/ h.intent THEN {}
    ELSE {beginRootJoinIntent(h)}
         \cup IF JoinOK(h) THEN {microK8sJoin(beginRootJoinIntent(h))} ELSE {}

(* reconcileRootJoinRecovery, for RootAbortJoin: bind a Node that joined,  *)
(* or clear the intent when kubectl answers that there is none.            *)
AbortJoinOK(h) == ~h.bound /\ h.intent => h.package # "none"
AbortJoin(h) ==
    IF h.bound \/ ~h.intent THEN h
    ELSE IF Observable(h) THEN updateRootKubernetesBinding(h)
    ELSE [h EXCEPT !.intent = FALSE]

(* kubectl also exits 1 when it cannot reach the cluster.                  *)
AbortJoinUnanswered(h) == IF h.bound \/ ~h.intent THEN h ELSE [h EXCEPT !.intent = FALSE]

quarantineJoinedNode(h) == updateRootKubernetesBinding(h)

-----------------------------------------------------------------------------
(* Capacity, leaving, the daemon's state.                                  *)
releaseNodeCapacity(h) == [h EXCEPT !.node = "released"]

markNodeRetired(h) == [h EXCEPT !.node = "retired"]
leaveCluster(h) == IF h.clustered THEN [markNodeRetired(h) EXCEPT !.clustered = FALSE] ELSE h

(* The control plane, asked first, puts the Node in quarantine before its  *)
(* taint is rolled back, and retires it before it leaves.                  *)
rebootstrapNode(h) == requarantineReleasedNode(h)
drainNode(h) == IF h.clustered THEN markNodeRetired(h) ELSE h

(* finalizeServiceState: ownership, then the policy, then the service.     *)
transitionPrivateStateOwnership(h, owner) == [h EXCEPT !.owner = owner]
TransferToDaemon(h) == transitionPrivateStateOwnership(h, "daemon")
FinalizeOK(h) == h.service # "none"
startAndVerifyNodeService(h) == [h EXCEPT !.service = "running"]
finalizeServiceState(h) == startAndVerifyNodeService([TransferToDaemon(h) EXCEPT !.policy = TRUE])
FinalizePartly(h) == {TransferToDaemon(h), [TransferToDaemon(h) EXCEPT !.policy = TRUE]}

removeServiceSupport(h) == [h EXCEPT !.policy = FALSE]

(* prepare hands the private state to the caller and records its owner     *)
(* when an install pins the binary; restoreRecorded hands it back.         *)
snapshotServiceStateOwnership(h, pinned) == IF pinned THEN [h EXCEPT !.handoff = h.owner] ELSE h
prepareServiceState(h, pinned) ==
    transitionPrivateStateOwnership(snapshotServiceStateOwnership(h, pinned), "caller")
restoreServiceStateOwnership(h, owner) == [h EXCEPT !.owner = owner]
removeServiceStateHandoff(h) == [h EXCEPT !.handoff = "none"]
restoreRecorded(h) ==
    IF h.handoff = "none" THEN h
    ELSE removeServiceStateHandoff(restoreServiceStateOwnership(h, h.handoff))
=============================================================================
