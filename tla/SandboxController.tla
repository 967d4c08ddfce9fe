-------------------------- MODULE SandboxController --------------------------
(***************************************************************************)
(* The sandbox controller (internal/sandboxcontroller): worker processes   *)
(* that claim operations from the queue of SandboxQueue, drive the         *)
(* Kubernetes Sandbox of each one, and report back under their lease.      *)
(*                                                                         *)
(* A worker is a program counter, the work item it claimed (a snapshot by  *)
(* value, never refreshed) and the identities its process retained from    *)
(* its own creates.  A database call commits or not, and its answer may be *)
(* lost either way; a worker may crash between any two steps.  The         *)
(* Kubernetes API has no fencing token: a mutation happens only while the  *)
(* worker's lease is live, which is what the watchdog of the heartbeat     *)
(* enforces (module SandboxLease).                                         *)
(***************************************************************************)
EXTENDS SandboxQueue

VARIABLES
    workers,        \* per worker: program counter, work item, failure
    retained,       \* per worker and sandbox: evidence[...].record.UID
    cluster,        \* the Kubernetes Sandbox named after each sandbox
    uids            \* UIDs the API server has handed out

controllerVars == <<workers, retained, cluster, uids>>
allVars == <<vars, controllerVars>>

\* create: execute -> poll -> (sources -> release -> await) -> bind -> ready
\* cleanup: execute -> export -> receipt -> begin -> finalize -> absence -> cleaned
\* failure: failed -> (destroying -> proving -> destroyed) or finish
Executing == {"execute", "poll", "sources", "release", "await", "bind", "ready",
              "export", "receipt", "begin", "finalize", "absence", "cleaned"}

\* absent, created, admitted by Kueue, sources released, running, deletion
\* requested with the Blazn finalizer held, finalizer removed.
Phase == {"absent", "starting", "admitted", "released", "running", "deleting", "draining"}
Live == {"starting", "admitted", "released", "running"}

Failure == {"retryable", "ambiguous", "rejected"}

Idle == [pc |-> "idle", op |-> None, token |-> 0, backend |-> None, sources |-> None,
         exported |-> FALSE, failure |-> "none"]
Absent == [phase |-> "absent", uid |-> None]

ControllerInit ==
    /\ Init
    /\ workers = [w \in Worker |-> Idle]
    /\ retained = [w \in Worker |-> [s \in Sandbox |-> None]]
    /\ cluster = [s \in Sandbox |-> Absent]
    /\ uids = {}

-----------------------------------------------------------------------------
(* A worker and its item. *)

Item(w) == operations[workers[w].op]
Of(w) == Item(w).sandbox
Sourced(w) == Of(w) \in WithSources

\* The lease the worker acts under is still its own and still live.
Holds(w) == Fence(workers[w].op, w, workers[w].token)

At(w, pc) == workers[w].pc = pc
Goto(w, pc) == workers' = [workers EXCEPT ![w].pc = pc]
Fail(w, failure) == workers' = [workers EXCEPT ![w].pc = "failed", ![w].failure = failure]
Rest(w) == workers' = [workers EXCEPT ![w] = Idle]

\* The answer of a committed call reaches the worker, or the call fails with
\* an error that says nothing of the commit.
Answered(w, pc) == Goto(w, pc) \/ Fail(w, "retryable")

\* Only the worker's own state moves.
Internal == UNCHANGED <<vars, retained, cluster, uids>>

\* A call that matched no row or lost its fence returns false: the attempt is
\* dropped without a word (return nil).
Refused(w, call) == ~call /\ Rest(w) /\ Internal

\* What a claim reads of the database for the operation (workItemRow), and the
\* work item the worker makes of it.
workItemRow(o) ==
    [backend |-> Row(o).backend, sources |-> sources[operations[o].sandbox],
     exported |-> o \in exports]

decodeWorkItem(o) ==
    [pc |-> "execute", op |-> o, token |-> jobs'[o].token, backend |-> workItemRow(o).backend,
     sources |-> workItemRow(o).sources, exported |-> workItemRow(o).exported, failure |-> "none"]

\* A claim hands the worker a snapshot of what the database knows.
Claim(w, o) ==
    /\ At(w, "idle")
    /\ sandbox_controller_claim_v5(w, o)
    /\ workers' = IF jobs'[o].owner = w THEN [workers EXCEPT ![w] = decodeWorkItem(o)] ELSE workers
    /\ UNCHANGED <<retained, cluster, uids>>

\* A claimed row this build cannot decode (columns or an observation it does not
\* know of, or that contradict each other): Claim returns an error and Run ends,
\* with the lease taken and nobody working under it.
ClaimUndecoded(w, o) ==
    /\ At(w, "idle")
    /\ sandbox_controller_claim_v5(w, o) /\ jobs'[o].owner = w
    /\ retained' = [retained EXCEPT ![w] = [s \in Sandbox |-> None]]
    /\ UNCHANGED <<workers, cluster, uids>>

\* validateWorkItem refuses the item, one bound before observations were kept for
\* instance: it is reported as ambiguous at once, and nothing is destroyed.
RejectItem(w) ==
    /\ At(w, "execute")
    /\ workers' = [workers EXCEPT ![w].pc = "finish", ![w].failure = "ambiguous"]
    /\ Internal

\* The process dies; its next incarnation has no memory.  A store error while
\* renewing or finishing makes Run return, which is the same thing.
Crash(w) ==
    /\ workers' = [workers EXCEPT ![w] = Idle]
    /\ retained' = [retained EXCEPT ![w] = [s \in Sandbox |-> None]]
    /\ workers[w] # Idle \/ retained'[w] # retained[w]
    /\ UNCHANGED <<vars, cluster, uids>>

\* The heartbeat finds the lease gone, or too short to be safe, cancels the work
\* and reconcile returns.  The watchdog is early on purpose, so the database may
\* still count the lease as live.
LeaseLost(w) ==
    /\ workers[w].pc \in Executing \cup {"destroying", "proving"}
    /\ Rest(w) /\ Internal

\* A step of execute fails: the operation timeout or a store or transport error
\* (retryable), an identity that cannot be proven (ambiguous), a refusal.
StepFails(w, failure) ==
    /\ workers[w].pc \in Executing
    /\ failure = "retryable" \/ workers[w].pc \notin {"bind", "ready", "receipt", "cleaned"}
    /\ Fail(w, failure) /\ Internal

-----------------------------------------------------------------------------
(* create *)

\* The live object is the one the work item is about: it is the trusted one if
\* there is one, the bound one if the item has one, and holds its finalizer where
\* that is asked for.
verifyLiveRecord(w, trusted, finalizer) ==
    LET live == cluster[Of(w)]
    IN  /\ live.phase # "absent" /\ (finalizer => live.phase # "draining")
        /\ trusted \in {None, live.uid} /\ workers[w].backend \in {None, live.uid}

\* Where deleting an object no record names leaves it: gone but for its
\* dependents, or, when a call fails, as it was or with the finalizer held.
rejectCreated(phase, done) ==
    IF done THEN {"draining"} ELSE {phase, IF phase = "draining" THEN phase ELSE "deleting"}

retainRecord(w, b) == retained' = [retained EXCEPT ![w][Of(w)] = b]

\* The adapter creates the object.  A create may fail after the object exists,
\* with the object left as it is or removed again, in part or in full; nothing
\* is retained then.
CreateSandbox(w) ==
    \E b \in Backend \ uids,
       phase \in rejectCreated("starting", TRUE) \cup rejectCreated("starting", FALSE) :
         /\ cluster' = [cluster EXCEPT ![Of(w)] = [phase |-> phase, uid |-> b]]
         /\ uids' = uids \cup {b}
         /\ \/ phase = "starting" /\ Goto(w, "poll") /\ retainRecord(w, b)
            \/ (\E f \in Failure : Fail(w, f)) /\ UNCHANGED retained

\* EnsureCreated, the first step of a create with neither backend nor sources on
\* record: an existing object is adopted only on the UID this process
\* retained, a missing one is created only if this process retained none.
EnsureCreated(w) ==
    LET kept == retained[w][Of(w)]
    IN  /\ At(w, "execute") /\ Item(w).type = "create"
        /\ workers[w].backend = None /\ workers[w].sources = None
        /\ \/ cluster[Of(w)].phase = "absent" /\ kept = None /\ Holds(w) /\ CreateSandbox(w)
           \/ /\ cluster[Of(w)].phase # "absent" \/ kept # None
              /\ IF kept # None /\ verifyLiveRecord(w, kept, TRUE)
                   THEN Goto(w, "poll") ELSE Fail(w, "ambiguous")
              /\ UNCHANGED <<retained, cluster, uids>>
        /\ UNCHANGED vars

\* A create that has been recorded before is observed, never created again.
ObserveRecorded(w) ==
    /\ At(w, "execute") /\ Item(w).type = "create"
    /\ workers[w].backend # None \/ workers[w].sources # None
    /\ Goto(w, "poll") /\ Internal

\* The identity a create goes by: the persisted one, else the bootstrap one,
\* else the one just created.
Expected(w) ==
    IF workers[w].backend # None THEN workers[w].backend
    ELSE IF workers[w].sources # None THEN workers[w].sources
    ELSE retained[w][Of(w)]

\* Observe succeeds on the expected object; with sources an admitted Pod is
\* enough, without them it must be running.
Observed(w, phases) ==
    cluster[Of(w)].phase \in phases /\ cluster[Of(w)].uid = Expected(w)

\* The backend is ready and its identity that of the work item; a bound create
\* must find the very identity on record.
validateCreated(w) == Observed(w, {"running"})
validateExisting(w) == workers[w].backend \in {None, cluster[Of(w)].uid}

ObservePlain(w) ==
    /\ At(w, "poll") /\ ~Sourced(w)
    /\ validateCreated(w) /\ validateExisting(w)
    /\ Goto(w, IF workers[w].backend = None THEN "bind" ELSE "ready")
    /\ Internal

ObserveSourced(w) ==
    /\ At(w, "poll") /\ Sourced(w)
    /\ Observed(w, {"admitted", "released", "running"}) /\ validateExisting(w)
    /\ IF workers[w].sources # None THEN Goto(w, "release")
       ELSE IF cluster[Of(w)].phase = "running" THEN Fail(w, "ambiguous")
       ELSE Goto(w, "sources")
    /\ Internal

\* PrepareSourceBootstrap and MaterializeSources in the Pod, then RecordSources.
RecordSources(w) ==
    LET call == sandbox_controller_record_source_materialization_v1(
                    workers[w].op, w, workers[w].token, Expected(w))
    IN  /\ At(w, "sources")
        /\ \/ call /\ Answered(w, "release") /\ UNCHANGED <<retained, cluster, uids>>
           \/ Refused(w, ENABLED call)

\* RestrictSourceRuntime, and ReleaseSources unless the Pod is running.
ReleaseSources(w) ==
    LET s == Of(w)
    IN  /\ At(w, "release") /\ Holds(w)
        /\ cluster[s].uid = Expected(w)
        /\ IF cluster[s].phase = "admitted"
             THEN cluster' = [cluster EXCEPT ![s].phase = "released"] /\ Answered(w, "await")
             ELSE UNCHANGED cluster /\ Goto(w, "await")
        /\ UNCHANGED <<vars, retained, uids>>

AwaitReady(w) ==
    /\ At(w, "await")
    /\ validateCreated(w)
    /\ Goto(w, IF workers[w].backend = None THEN "bind" ELSE "ready")
    /\ Internal

BindBackend(w) ==
    LET call == sandbox_controller_bind_backend_v4(
                    workers[w].op, w, workers[w].token, Expected(w))
    IN  /\ At(w, "bind")
        /\ \/ call /\ Answered(w, "ready") /\ UNCHANGED <<retained, cluster, uids>>
           \/ Refused(w, ENABLED call)

\* A completion the worker does not look at again: nil, or an error that fails
\* the attempt.
Complete(w, completion, lost) ==
    LET call == sandbox_controller_complete_v5(workers[w].op, w, workers[w].token, completion)
    IN  \/ /\ call
           /\ Rest(w) \/ (lost /\ Fail(w, "retryable"))
           /\ UNCHANGED <<retained, cluster, uids>>
        \/ Refused(w, ENABLED call)

CompleteCreate(w) ==
    /\ At(w, "ready")
    /\ Complete(w, Completion("succeeded", Expected(w), FALSE, FALSE, FALSE, FALSE), TRUE)

-----------------------------------------------------------------------------
(* cleanup *)

\* Mutant of BeginCleanup: the artifacts are exported once the Pod is gone.
BeginWithDelete(w) ==
    /\ At(w, "execute") /\ Item(w).type \in {"stop", "delete"}
    /\ IF workers[w].backend = None THEN Fail(w, "ambiguous") ELSE Goto(w, "begin")
    /\ Internal

BeginCleanup(w) ==
    /\ At(w, "execute") /\ Item(w).type \in {"stop", "delete"}
    /\ IF workers[w].backend = None THEN Fail(w, "ambiguous")
       ELSE IF workers[w].exported THEN Goto(w, "begin")
       ELSE IF Of(w) \in WithRequired THEN Goto(w, "export")
       ELSE Goto(w, "receipt")
    /\ Internal

\* A persisted artifact is verified in the object store; another one is read
\* from the running Pod, stored and recorded.
verifyArtifactObject(w) == Of(w) \in artifacts

RecordArtifact(w) ==
    LET call == sandbox_controller_record_artifact_v1(
                    workers[w].op, w, workers[w].token, workers[w].backend)
    IN  \/ call /\ Answered(w, "receipt") /\ UNCHANGED <<retained, cluster, uids>>
        \/ Refused(w, ENABLED call)

ExportArtifacts(w) ==
    /\ At(w, "export")
    /\ \/ verifyArtifactObject(w) /\ Goto(w, "receipt") /\ Internal
       \/ /\ ~verifyArtifactObject(w)
          /\ cluster[Of(w)] = [phase |-> "running", uid |-> workers[w].backend]
          /\ RecordArtifact(w)

CompleteArtifactExport(w) ==
    LET call == sandbox_controller_complete_artifact_export_v1(
                    workers[w].op, w, workers[w].token, workers[w].backend)
    IN  /\ At(w, "receipt")
        /\ \/ call /\ Answered(w, "begin") /\ UNCHANGED <<retained, cluster, uids>>
           \/ Refused(w, ENABLED call)

\* The deletion request is accepted; the state after it may be impossible to prove.
Delete(w) ==
    /\ cluster[Of(w)].phase \in Live
    /\ cluster' = [cluster EXCEPT ![Of(w)].phase = "deleting"]
    /\ Goto(w, "finalize") \/ \E f \in Failure : Fail(w, f)

\* BeginDelete: a live object is deleted, a deletion under way is joined where
\* an earlier attempt left it, and a foreign object stops the cleanup.
BeginDelete(w) ==
    LET phase == cluster[Of(w)].phase
    IN  /\ At(w, "begin") /\ Holds(w)
        /\ \/ phase = "absent" /\ Goto(w, "absence") /\ UNCHANGED cluster
           \/ /\ phase # "absent" /\ ~verifyLiveRecord(w, None, FALSE)
              /\ Fail(w, "ambiguous") /\ UNCHANGED cluster
           \/ /\ verifyLiveRecord(w, None, FALSE)
              /\ \/ phase = "draining" /\ Goto(w, "absence") /\ UNCHANGED cluster
                 \/ phase = "deleting" /\ Goto(w, "finalize") /\ UNCHANGED cluster
                 \/ Delete(w)
        /\ UNCHANGED <<vars, retained, uids>>

\* The bound object is being deleted and the Blazn finalizer holds it.
validateDeleting(w) == cluster[Of(w)] = [phase |-> "deleting", uid |-> workers[w].backend]

\* Every required artifact of the sandbox is on record.
persistedArtifactReceipts(w) == Of(w) \in WithRequired => Of(w) \in artifacts

\* FinalizePreExported removes the Blazn finalizer, under the version it has read.
FinalizePreExported(w) ==
    /\ cluster' = [cluster EXCEPT ![Of(w)].phase = "draining"]
    /\ Answered(w, "absence")

Finalize(w) ==
    /\ At(w, "finalize") /\ Holds(w)
    /\ validateDeleting(w) /\ persistedArtifactReceipts(w) /\ FinalizePreExported(w)
    /\ UNCHANGED <<vars, retained, uids>>

\* No object of that name and no dependent is left.
ObserveAbsence(w) == cluster[Of(w)].phase = "absent"

waitForOwnedAbsence(w) == At(w, "absence") /\ ObserveAbsence(w) /\ Goto(w, "cleaned") /\ Internal

CompleteCleanup(w) ==
    /\ At(w, "cleaned")
    /\ Complete(w, Completion("succeeded", workers[w].backend, TRUE, TRUE, TRUE, TRUE), TRUE)

-----------------------------------------------------------------------------
(* Failure *)

\* Decided on the work item as it was claimed.
destroysUnboundCreate(w) ==
    /\ Item(w).type = "create"
    /\ workers[w].backend = None /\ workers[w].sources = None
    /\ workers[w].failure # "retryable" \/ workers[w].token >= MaxAttempts

\* refreshClaimLease: without a renewed lease nothing is destroyed.
RefreshLease(w) ==
    /\ At(w, "failed")
    /\ \/ destroysUnboundCreate(w) /\ Holds(w) /\ Goto(w, "destroying")
       \/ Goto(w, "finish")
    /\ Internal

\* Mutant of DestroyUnbound: the request goes out whether or not the lease is held.
DestroyUnfenced(w) ==
    /\ At(w, "destroying")
    /\ cluster[Of(w)].phase # "absent"
    /\ cluster' = [cluster EXCEPT ![Of(w)].phase = "draining"]
    /\ Goto(w, "proving")
    /\ UNCHANGED <<vars, retained, uids>>

\* DestroyUnboundCreate: the live object must be the one this process created,
\* if it remembers one.  The request may fail, or fail half-way, before
\* the finalizer is released.
DestroyUnbound(w) ==
    LET s == Of(w)
        live == cluster[s].phase # "absent"
    IN  /\ At(w, "destroying") /\ Holds(w)
        /\ \/ ~live /\ Goto(w, "proving") /\ UNCHANGED cluster
           \/ /\ live /\ ~verifyLiveRecord(w, retained[w][s], FALSE)
              /\ Goto(w, "finish") /\ UNCHANGED cluster
           \/ /\ live /\ verifyLiveRecord(w, retained[w][s], FALSE)
              /\ \E done \in BOOLEAN : \E phase \in rejectCreated(cluster[s].phase, done) :
                    /\ cluster' = [cluster EXCEPT ![s].phase = phase]
                    /\ Goto(w, IF done THEN "proving" ELSE "finish")
        /\ UNCHANGED <<vars, retained, uids>>

\* Mutant of ProveAbsence: the accepted delete request is taken for absence.
DeleteAccepted(w) == At(w, "proving") /\ Goto(w, "destroyed") /\ Internal

\* Absence is proven, or it is not and the failure is recorded as it was.
ProveAbsence(w) ==
    /\ At(w, "proving")
    /\ \/ ObserveAbsence(w) /\ Goto(w, "destroyed")
       \/ Goto(w, "finish")
    /\ Internal

finishDestroyedCreate(w) ==
    /\ At(w, "destroyed")
    /\ Complete(w, Completion("failed", None, TRUE, FALSE, TRUE, TRUE), FALSE)

\* The store schedules the next attempt, or has none left and ends the operation.
Retry(w) ==
    LET call == sandbox_controller_retry(workers[w].op, w, workers[w].token)
    IN  \/ call /\ Rest(w) /\ UNCHANGED <<retained, cluster, uids>>
        \/ Refused(w, ENABLED call)

\* Mutant of finishFailure: a rejection reports the backend it was given.
FinishWithBackend(w) ==
    /\ At(w, "finish")
    /\ Complete(w, Completion("failed", workers[w].backend, FALSE, FALSE, FALSE, FALSE), FALSE)

finishFailure(w) ==
    /\ At(w, "finish")
    /\ CASE workers[w].failure = "ambiguous" ->
              Complete(w, Completion("recovery_required", workers[w].backend,
                                     FALSE, FALSE, FALSE, FALSE), FALSE)
         [] workers[w].failure = "rejected" ->
              Complete(w, Completion("failed", None, FALSE, FALSE, FALSE, FALSE), FALSE)
         [] OTHER -> Retry(w)

-----------------------------------------------------------------------------
(* Kubernetes *)

\* Kueue admits the Pod, the kubelet starts it, the garbage collector removes
\* what no finalizer holds.
Progress(s) ==
    /\ \/ /\ cluster[s].phase = "starting"
          /\ cluster' = [cluster EXCEPT ![s].phase = "admitted"]
       \/ /\ cluster[s].phase = (IF s \in WithSources THEN "released" ELSE "admitted")
          /\ cluster' = [cluster EXCEPT ![s].phase = "running"]
       \/ /\ cluster[s].phase = "draining"
          /\ cluster' = [cluster EXCEPT ![s] = Absent]
    /\ UNCHANGED <<vars, workers, retained, uids>>

-----------------------------------------------------------------------------
CreateStep(w) ==
    \/ EnsureCreated(w) \/ ObserveRecorded(w) \/ ObservePlain(w) \/ ObserveSourced(w)
    \/ RecordSources(w) \/ ReleaseSources(w) \/ AwaitReady(w) \/ BindBackend(w) \/ CompleteCreate(w)

CleanupStep(w) ==
    \/ BeginCleanup(w) \/ ExportArtifacts(w) \/ CompleteArtifactExport(w) \/ BeginDelete(w)
    \/ Finalize(w) \/ waitForOwnedAbsence(w) \/ CompleteCleanup(w)

FailureStep(w) ==
    \/ RejectItem(w) \/ RefreshLease(w) \/ DestroyUnbound(w) \/ ProveAbsence(w)
    \/ finishDestroyedCreate(w) \/ finishFailure(w)

\* The rest of the queue's world: the API, the clock and the access grants.
Outside ==
    /\ \/ \E s \in Sandbox, o \in Op : Enqueue(s, o)
       \/ \E o \in Op : LeaseExpires(o) \/ RetryFallsDue(o)
       \/ \E g \in Grant : GrantStep(g)
    /\ UNCHANGED controllerVars

ControllerNext ==
    \/ \E w \in Worker, o \in Op : Claim(w, o) \/ ClaimUndecoded(w, o)
    \/ \E w \in Worker : CreateStep(w) \/ CleanupStep(w) \/ FailureStep(w)
    \/ \E w \in Worker, f \in Failure : StepFails(w, f)
    \/ \E w \in Worker : Crash(w) \/ LeaseLost(w)
    \/ \E s \in Sandbox : Progress(s)
    \/ Outside

ControllerSpec == ControllerInit /\ [][ControllerNext]_allVars

\* Fairness: idle controllers poll the queue; an attempt goes on until it ends,
\* OperationTimeout and the watchdog see to that; a lease nobody works under runs
\* out; the clock reaches next_attempt_at.  Kubernetes promises nothing, and a
\* worker may crash at any point, for ever.
ControllerFairness ==
    /\ \A o \in Op :
         /\ WF_allVars(\E w \in Worker : Claim(w, o))
         /\ WF_allVars(/\ \A w \in Worker : workers[w].op # o
                       /\ LeaseExpires(o) /\ UNCHANGED controllerVars)
         /\ WF_allVars(RetryFallsDue(o) /\ UNCHANGED controllerVars)
    /\ \A w \in Worker :
         WF_allVars(\/ CreateStep(w) \/ CleanupStep(w) \/ FailureStep(w)
                    \/ StepFails(w, "retryable") \/ LeaseLost(w))

ControllerFairSpec == ControllerSpec /\ ControllerFairness

-----------------------------------------------------------------------------
(* Properties. *)

\* The queue's own specification (Spec, with the steps that leave the queue alone
\* named first): the controller makes no change to the database that SandboxQueue
\* does not allow, and sends no completion other than its Completions, so every
\* theorem about the queue holds of the whole system.
ImplementsQueue == Init /\ [][UNCHANGED vars \/ Next]_vars

\* A receipt that reports a backend destroyed is true for ever: the Kubernetes
\* Sandbox and its dependents are gone and no late worker brings them back
\* (controller.go:229, backend_kubernetes.go:371).
DestroyedMeansGone ==
    \A o \in Op : receipts[o].destroyed => cluster[operations[o].sandbox].phase = "absent"

\* A sandbox the API shows as ready has the very backend on record running
\* (controller.go:470): no attempt, however it failed, timed out or lost the answer
\* of its calls, leaves a destroyed or a foreign backend behind a ready row.  What
\* Kubernetes itself does to a running Pod is not modelled.
ReadyIsRunning ==
    \A s \in Sandbox : sandboxes[s].state = "ready" =>
        cluster[s] = [phase |-> "running", uid |-> sandboxes[s].backend]

\* A sandbox that has been ready loses its Pod only after its required artifact
\* is stored (controller.go:539 before 549), whatever attempts were repeated.
NoArtifactLost ==
    \A s \in WithRequired :
        /\ \E o \in Op : operations[o].sandbox = s /\ operations[o].type = "create"
                         /\ operations[o].status = "succeeded"
        /\ cluster[s].phase \in {"deleting", "draining", "absent"}
        => s \in artifacts
==============================================================================
