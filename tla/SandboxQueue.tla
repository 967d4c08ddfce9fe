---------------------------- MODULE SandboxQueue ----------------------------
(***************************************************************************)
(* The durable sandbox queue: the PostgreSQL rows of one or more sandboxes *)
(* and the SECURITY DEFINER functions through which the control API and    *)
(* the sandbox controller change them (migrations 009-042).  Every action  *)
(* is one database transaction.                                            *)
(*                                                                         *)
(* Data are abstracted to identities.  A backend identity stands for the   *)
(* tuple (backend_uid, resource_version, admission_id) together with the   *)
(* two admission digests computed from it; a lease token is the number of  *)
(* the attempt that drew it, which is as unique as the code's random UUID; *)
(* times are reduced to what the functions ask of them: whether a lease is *)
(* still live, whether a retry is due, and which operation stopped_at      *)
(* names.  A call that returns false or raises leaves every row as it was  *)
(* and is not a step.                                                      *)
(***************************************************************************)
EXTENDS Naturals, FiniteSets

CONSTANTS
    Sandbox,        \* sandboxes the API may create
    Op,             \* identities of sandbox_operations rows
    Worker,         \* controller processes (lease_owner)
    Backend,        \* Kubernetes Sandbox identities
    Grant,          \* identities of sandbox_access_grants rows
    RunGrant,       \* the ones an Agent Run's controller issues
    None,           \* SQL NULL
    WithSources,    \* sandboxes whose template lists repositories
    WithRequired,   \* sandboxes whose contract has a required artifact
    MaxAttempts     \* 5 in the code

ASSUME NoneAssumption == None \notin Sandbox \cup Op \cup Worker \cup Backend
ASSUME ContractAssumption == WithSources \subseteq Sandbox /\ WithRequired \subseteq Sandbox
ASSUME GrantAssumption == RunGrant \subseteq Grant
ASSUME AttemptsAssumption == MaxAttempts \in Nat \ {0}

VARIABLES
    sandboxes,      \* sandboxes: state, desired_state, version, backend tuple, stopped_at
    operations,     \* sandbox_operations: sandbox, type, status, expected version
    jobs,           \* sandbox_reconcile_jobs: attempts, lease, due, completed_at
    receipts,       \* sandbox_operation_terminal_receipts, by operation
    admissions,     \* sandbox_workload_admissions: the admitted identity
    sources,        \* sandbox_source_materialization_receipts: the backend they name
    artifacts,      \* sandboxes whose required artifact is in sandbox_artifacts
    exports,        \* operations with a row in sandbox_artifact_export_receipts
    grants          \* sandbox_access_grants

vars == <<sandboxes, operations, jobs, receipts, admissions, sources,
          artifacts, exports, grants>>

OperationType == {"create", "stop", "delete"}
Nonterminal == {"pending", "running"}
Terminal == {"succeeded", "failed", "recovery_required"}

Row(o) == sandboxes[operations[o].sandbox]

SandboxRow ==
    [state : {"none", "requested", "queued", "provisioning", "ready", "stopping",
              "stopped", "deleting", "deleted", "failed"},
     desired : {"ready", "stopped", "deleted"},
     version : Nat,
     backend : Backend \cup {None},
     stopped_at : Op \cup {None}]
OperationRow ==
    [sandbox : Sandbox \cup {None}, type : OperationType \cup {"none"},
     status : Nonterminal \cup Terminal \cup {"free"}, expected : Nat]
JobRow ==
    [attempts : 0 .. MaxAttempts, owner : Worker \cup {None}, token : 0 .. MaxAttempts,
     live : BOOLEAN, due : BOOLEAN, completed : BOOLEAN]
ReceiptRow ==
    [status : Terminal \cup {"none"}, cleanup : BOOLEAN, export : BOOLEAN,
     revoked : BOOLEAN, destroyed : BOOLEAN, backend : Backend \cup {None},
     admission : Backend \cup {None}]
GrantRow ==
    [sandbox : Sandbox \cup {None},
     state : {"free", "issuing", "active", "consumed", "expired", "revoked"}]

\* The columns keep their types; a row that is in use names its sandbox.
TypeOK ==
    /\ sandboxes \in [Sandbox -> SandboxRow]
    /\ operations \in [Op -> OperationRow]
    /\ jobs \in [Op -> JobRow]
    /\ receipts \in [Op -> ReceiptRow]
    /\ admissions \in [Sandbox -> Backend \cup {None}]
    /\ sources \in [Sandbox -> Backend \cup {None}]
    /\ artifacts \subseteq Sandbox
    /\ exports \subseteq Op
    /\ grants \in [Grant -> GrantRow]
    /\ \A o \in Op : operations[o].status # "free" =>
          operations[o].sandbox \in Sandbox /\ operations[o].type \in OperationType
    /\ \A g \in Grant : grants[g].state # "free" => grants[g].sandbox \in Sandbox

\* A job with no lease, a job leased to w for its n-th attempt, a finished job.
IdleJob(n, due) == [attempts |-> n, owner |-> None, token |-> 0, live |-> FALSE,
                    due |-> due, completed |-> FALSE]
LeasedJob(n, w) == [attempts |-> n, owner |-> w, token |-> n, live |-> TRUE,
                    due |-> TRUE, completed |-> FALSE]
FinishedJob(n) == [attempts |-> n, owner |-> None, token |-> 0, live |-> FALSE,
                   due |-> FALSE, completed |-> TRUE]

Receipt(status, cleanup, export, revoked, destroyed, backend, admission) ==
    [status |-> status, cleanup |-> cleanup, export |-> export, revoked |-> revoked,
     destroyed |-> destroyed, backend |-> backend, admission |-> admission]

Init ==
    /\ sandboxes = [s \in Sandbox |-> [state |-> "none", desired |-> "ready", version |-> 0,
                                       backend |-> None, stopped_at |-> None]]
    /\ operations = [o \in Op |-> [sandbox |-> None, type |-> "none", status |-> "free",
                                   expected |-> 0]]
    /\ jobs = [o \in Op |-> IdleJob(0, FALSE)]
    /\ receipts = [o \in Op |-> Receipt("none", FALSE, FALSE, FALSE, FALSE, None, None)]
    /\ admissions = [s \in Sandbox |-> None]
    /\ sources = [s \in Sandbox |-> None]
    /\ artifacts = {}
    /\ exports = {}
    /\ grants = [g \in Grant |-> [sandbox |-> None, state |-> "free"]]

-----------------------------------------------------------------------------
(* Enqueueing: the control API, the expiry sweep and the Agent Run release. *)

\* Mutant of NoNonterminal: the index covers running rows only.
NoRunning(s) == \A o \in Op : operations[o].sandbox = s => operations[o].status # "running"

\* The partial unique index: an INSERT of a second pending or running row
\* raises, and the transaction that tried it rolls back.
NoNonterminal(s) ==
    \A o \in Op : operations[o].sandbox = s => operations[o].status \notin Nonterminal

\* UPDATE sandboxes: every statement that changes the row also sets
\* version = version + 1.
Update(s, state, desired, backend, stopped_at) ==
    sandboxes' = [sandboxes EXCEPT ![s] =
        [state |-> state, desired |-> desired, version |-> sandboxes[s].version + 1,
         backend |-> backend, stopped_at |-> stopped_at]]

\* INSERT INTO sandbox_operations and its trigger, which enqueues the job.
sandbox_controller_enqueue_operation(o, s, type, expected) ==
    /\ operations[o].status = "free"
    /\ NoNonterminal(s)
    /\ operations' = [operations EXCEPT ![o] =
         [sandbox |-> s, type |-> type, status |-> "pending", expected |-> expected]]
    /\ jobs' = [jobs EXCEPT ![o] = IdleJob(0, TRUE)]

sandbox_create_bound_sandbox(s) ==
    /\ sandboxes[s].state = "none"
    /\ Update(s, "requested", "ready", None, None)

createSandbox(s, o) ==
    /\ sandbox_create_bound_sandbox(s)
    /\ sandbox_controller_enqueue_operation(o, s, "create", 1)
    /\ UNCHANGED <<receipts, admissions, sources, artifacts, exports, grants>>

\* transitionSandbox's target states; the row's version is bumped and the
\* version the request named becomes the operation's expected version.
transitionSandbox(s, type) ==
    Update(s, IF type = "stop" THEN "stopping" ELSE "deleting",
           IF type = "stop" THEN "stopped" ELSE "deleted",
           sandboxes[s].backend, sandboxes[s].stopped_at)

Blocked(type) ==
    {"none", "stopping", "deleting", "deleted"} \cup (IF type = "stop" THEN {"stopped"} ELSE {})

createOperation(s, o, type) ==
    /\ sandboxes[s].state \notin Blocked(type)
    /\ transitionSandbox(s, type)
    /\ sandbox_controller_enqueue_operation(o, s, type, sandboxes[s].version)
    /\ UNCHANGED <<receipts, admissions, sources, artifacts, exports, grants>>

\* The sweep of expired sandboxes: any sandbox may be past expires_at.
sandbox_controller_enqueue_expired(s, o) ==
    /\ sandboxes[s].state \notin {"none", "stopping", "stopped", "deleting", "deleted", "failed"}
    /\ NoNonterminal(s)
    /\ transitionSandbox(s, "stop")
    /\ sandbox_controller_enqueue_operation(o, s, "stop", sandboxes[s].version)
    /\ UNCHANGED <<receipts, admissions, sources, artifacts, exports, grants>>

\* The release of finished Agent Runs stops their sandboxes in the same way.
agent_run_controller_release_sandboxes(s, o) ==
    /\ NoNonterminal(s)
    /\ sandboxes[s].state \notin {"none", "stopping", "stopped", "deleting", "deleted", "failed"}
    /\ transitionSandbox(s, "stop")
    /\ sandbox_controller_enqueue_operation(o, s, "stop", sandboxes[s].version)
    /\ UNCHANGED <<receipts, admissions, sources, artifacts, exports, grants>>

-----------------------------------------------------------------------------
(* What the controller functions share. *)

\* The state, desired state, version and identity an unfinished operation
\* must still find on its sandbox.
sandbox_controller_operation_is_current(o) ==
    LET op == operations[o]
        s == Row(o)
    IN  CASE op.type = "create" ->
               /\ s.desired = "ready"
               /\ \/ /\ op.status = "pending" /\ jobs[o].attempts = 0
                     /\ s.state = "requested" /\ s.version = op.expected /\ s.backend = None
                  \/ /\ jobs[o].attempts > 0
                     /\ s.state = "queued" /\ s.version = op.expected + 1 /\ s.backend = None
                  \/ /\ jobs[o].attempts > 0
                     /\ s.state = "provisioning" /\ s.version = op.expected + 2
                     /\ s.backend # None
          [] op.type = "stop" ->
               /\ op.status = "pending" \/ jobs[o].attempts > 0
               /\ s.state = "stopping" /\ s.desired = "stopped" /\ s.version = op.expected + 1
          [] op.type = "delete" ->
               /\ op.status = "pending" \/ jobs[o].attempts > 0
               /\ s.state = "deleting" /\ s.desired = "deleted" /\ s.version = op.expected + 1
          [] OTHER -> FALSE

\* The operation becomes terminal with its one receipt, and the job, which
\* ends with n attempts on record, loses its lease (sandbox_controller_finish_job).
Terminate(o, n, receipt) ==
    /\ operations' = [operations EXCEPT ![o].status = receipt.status]
    /\ jobs' = [jobs EXCEPT ![o] = FinishedJob(n)]
    /\ receipts' = [receipts EXCEPT ![o] = receipt]

RecoveryReceipt(o) ==
    Receipt("recovery_required", FALSE, FALSE, FALSE, FALSE, Row(o).backend, None)

\* The operation no longer matches its sandbox, which is left alone.
sandbox_controller_quarantine_stale(o) ==
    /\ Terminate(o, jobs[o].attempts, RecoveryReceipt(o))
    /\ UNCHANGED <<sandboxes, admissions, sources, artifacts, exports, grants>>

\* Mutant of Exhaust: the failed sandbox's identity is cleared.
ExhaustAndForget(o) ==
    /\ Terminate(o, jobs[o].attempts, RecoveryReceipt(o))
    /\ Update(operations[o].sandbox, "failed", Row(o).desired, None, Row(o).stopped_at)
    /\ UNCHANGED <<admissions, sources, artifacts, exports, grants>>

\* Attempts are used up: recovery_required, and the sandbox fails with the
\* backend identity it had.
Exhaust(o) ==
    /\ Terminate(o, jobs[o].attempts, RecoveryReceipt(o))
    /\ Update(operations[o].sandbox, "failed", Row(o).desired, Row(o).backend, Row(o).stopped_at)
    /\ UNCHANGED <<admissions, sources, artifacts, exports, grants>>

\* What a completion tells the database.
Completion(status, backend, cleanup, export, revoked, destroyed) ==
    [status |-> status, backend |-> backend, cleanup |-> cleanup, export |-> export,
     revoked |-> revoked, destroyed |-> destroyed]

sandbox_revoke_access_grants(s) ==
    [g \in Grant |-> IF grants[g].sandbox = s /\ grants[g].state = "active"
                       THEN [grants[g] EXCEPT !.state = "revoked"]
                       ELSE grants[g]]

\* What the base completion function refuses, by returning false (the exact
\* identity) or by raising (the rest).
Acceptable(o, c) ==
    LET s == operations[o].sandbox
        type == operations[o].type
    IN  /\ c.backend = sandboxes[s].backend
        /\ c.export /\ s \in WithRequired => s \in artifacts
        /\ c.status = "succeeded" /\ type = "create" => sandboxes[s].backend # None /\ ~c.destroyed
        /\ c.status = "succeeded" /\ type \in {"stop", "delete"} =>
              c.cleanup /\ c.export /\ c.revoked /\ c.destroyed

\* Mutant of Outcome: the state follows the operation's type alone.
OutcomeOfType(type, status) ==
    IF type = "create" THEN "ready" ELSE IF type = "stop" THEN "stopped" ELSE "deleted"

\* Where a completed operation leaves its sandbox.
Outcome(type, status) ==
    IF status # "succeeded" THEN "failed"
    ELSE IF type = "create" THEN "ready"
    ELSE IF type = "stop" THEN "stopped" ELSE "deleted"

StoppedAt(o, c) ==
    CASE c.status = "succeeded" /\ operations[o].type = "stop" -> o
      [] c.status = "succeeded" /\ operations[o].type = "delete" /\ Row(o).stopped_at = None -> o
      [] OTHER -> Row(o).stopped_at

\* The base completion: grants, receipt, operation, job and sandbox in one
\* transaction.  admission is the digest the wrappers add to the receipt.
sandbox_controller_complete(o, n, c, admission) ==
    LET s == operations[o].sandbox
        kept == IF c.destroyed THEN None ELSE Row(o).backend
    IN  /\ Acceptable(o, c)
        /\ Terminate(o, n, Receipt(c.status, c.cleanup, c.export, c.revoked, c.destroyed,
                                   kept, admission))
        /\ Update(s, Outcome(operations[o].type, c.status), Row(o).desired, kept, StoppedAt(o, c))
        /\ grants' = IF c.revoked THEN sandbox_revoke_access_grants(s) ELSE grants

-----------------------------------------------------------------------------
(* Claiming, and deleting a sandbox that has no backend. *)

\* No operation of the sandbox, other than the delete o itself, came after
\* previous, save deletes that did not succeed.  Operations of a sandbox are
\* ordered by the version they expect.
NothingLater(previous, o) ==
    \A later \in Op :
        /\ operations[later].sandbox = operations[o].sandbox
        /\ later # o
        /\ operations[later].status # "free"
        /\ operations[later].expected > operations[previous].expected
        => operations[later].type = "delete"
           /\ operations[later].status \in {"failed", "recovery_required"}

\* The stop that stopped_at names succeeded with a complete receipt.
StopProof(previous, o) ==
    LET s == operations[o].sandbox
        r == receipts[previous]
    IN  /\ operations[previous].sandbox = s
        /\ operations[previous].type = "stop" /\ operations[previous].status = "succeeded"
        /\ sandboxes[s].stopped_at = previous
        /\ operations[previous].expected + 2 <= operations[o].expected
        /\ r.cleanup /\ r.export /\ r.revoked /\ r.destroyed /\ r.backend = None
        /\ previous \in exports
        /\ admissions[s] # None /\ r.admission = admissions[s]
        /\ NothingLater(previous, o)

\* Mutant of FailedCreateProof: any failed create will do.
FailedCreate(previous, o) ==
    LET s == operations[o].sandbox
    IN  /\ operations[previous].sandbox = s
        /\ operations[previous].type = "create" /\ operations[previous].status = "failed"
        /\ operations[previous].expected < operations[o].expected
        /\ sandboxes[s].stopped_at = None
        /\ admissions[s] = None /\ s \notin artifacts /\ s \notin WithRequired
        /\ NothingLater(previous, o)

\* The create failed before its backend was recorded and reported the backend
\* destroyed; never an admitted sandbox, and never one that owes an artifact.
FailedCreateProof(previous, o) ==
    LET s == operations[o].sandbox
        r == receipts[previous]
    IN  /\ operations[previous].sandbox = s
        /\ operations[previous].type = "create" /\ operations[previous].status = "failed"
        /\ r.cleanup /\ r.revoked /\ r.destroyed /\ r.backend = None /\ r.admission = None
        /\ operations[previous].expected < operations[o].expected
        /\ sandboxes[s].stopped_at = None
        /\ admissions[s] = None /\ s \notin artifacts /\ s \notin WithRequired
        /\ NothingLater(previous, o)

\* A delete that finds no backend succeeds on the proof an earlier operation
\* left, and otherwise ends in recovery_required (prior_cleanup_unverified).
sandbox_controller_finalize_stopped_delete_v1(o, n) ==
    LET s == operations[o].sandbox
        done == Completion("succeeded", None, TRUE, TRUE, TRUE, TRUE)
        unverified == Completion("recovery_required", None, FALSE, FALSE, FALSE, FALSE)
    IN  /\ IF \E previous \in Op : StopProof(previous, o)
             THEN /\ sandbox_controller_complete(o, n, done, admissions[s])
                  /\ exports' = exports \cup {o}
           ELSE /\ IF \E previous \in Op : FailedCreateProof(previous, o)
                     THEN sandbox_controller_complete(o, n, done, None)
                     ELSE sandbox_controller_complete(o, n, unverified, None)
                /\ exports' = exports
        /\ UNCHANGED <<admissions, sources, artifacts>>

\* The attempt is leased to w under a token of its own; the first claim of a
\* create moves its sandbox from requested to queued.
Lease(w, o) ==
    /\ jobs' = [jobs EXCEPT ![o] = LeasedJob(jobs[o].attempts + 1, w)]
    /\ operations' = [operations EXCEPT ![o].status = "running"]
    /\ IF operations[o].type = "create" /\ Row(o).state = "requested"
         THEN Update(operations[o].sandbox, "queued", Row(o).desired, Row(o).backend, Row(o).stopped_at)
         ELSE UNCHANGED sandboxes
    /\ UNCHANGED <<receipts, admissions, sources, artifacts, exports, grants>>

\* Mutants of Claimable: terminal operations are not filtered out; a lease whose
\* worker died is never taken over.
ClaimableTerminal(o) ==
    /\ operations[o].status # "free"
    /\ jobs[o].token = 0 \/ ~jobs[o].live
    /\ jobs[o].attempts < MaxAttempts => jobs[o].due
ClaimableUnleased(o) ==
    /\ ~jobs[o].completed
    /\ operations[o].status \in Nonterminal
    /\ jobs[o].token = 0
    /\ jobs[o].attempts < MaxAttempts => jobs[o].due

Claimable(o) ==
    /\ ~jobs[o].completed
    /\ operations[o].status \in Nonterminal
    /\ jobs[o].token = 0 \/ ~jobs[o].live
    /\ jobs[o].attempts < MaxAttempts => jobs[o].due

sandbox_controller_claim_v5(w, o) ==
    /\ Claimable(o)
    /\ IF ~sandbox_controller_operation_is_current(o)
         THEN sandbox_controller_quarantine_stale(o)
       ELSE IF jobs[o].attempts >= MaxAttempts
         THEN Exhaust(o)
       ELSE IF operations[o].type = "delete" /\ Row(o).backend = None
         THEN sandbox_controller_finalize_stopped_delete_v1(o, jobs[o].attempts + 1)
       ELSE Lease(w, o)

-----------------------------------------------------------------------------
(* Calls under a lease: worker w presents token t. *)

Fence(o, w, t) ==
    /\ ~jobs[o].completed
    /\ jobs[o].owner = w /\ jobs[o].token = t /\ jobs[o].live
    /\ operations[o].status = "running"

\* A renewal restarts the time to expiry, which the model does not count.
sandbox_controller_renew(o, w, t) ==
    /\ Fence(o, w, t)
    /\ IF sandbox_controller_operation_is_current(o)
         THEN UNCHANGED vars
         ELSE sandbox_controller_quarantine_stale(o)

\* Recording the same identity again is accepted and changes nothing; another
\* identity is refused.
sandbox_controller_bind_backend(o, b) ==
    /\ Row(o).backend \in {None, b}
    /\ IF Row(o).backend = b
         THEN UNCHANGED sandboxes
         ELSE Update(operations[o].sandbox, "provisioning", Row(o).desired, b, Row(o).stopped_at)

\* The identity becomes the sandbox's admission, unless it has one.
sandbox_controller_bind_backend_v3(o, w, t, b) ==
    /\ Fence(o, w, t)
    /\ operations[o].type = "create"
    /\ IF ~sandbox_controller_operation_is_current(o)
         THEN sandbox_controller_quarantine_stale(o)
         ELSE /\ sandbox_controller_bind_backend(o, b)
              /\ admissions' = [admissions EXCEPT ![operations[o].sandbox] = IF @ = None THEN b ELSE @]
              /\ UNCHANGED <<operations, jobs, receipts, sources, artifacts, exports, grants>>

\* A sandbox with sources binds the backend they were materialized in.
sandbox_controller_bind_backend_v4(o, w, t, b) ==
    /\ operations[o].sandbox \in WithSources => sources[operations[o].sandbox] = b
    /\ sandbox_controller_bind_backend_v3(o, w, t, b)

sandbox_controller_record_source_materialization_v1(o, w, t, b) ==
    LET s == operations[o].sandbox
    IN  /\ Fence(o, w, t)
        /\ operations[o].type = "create"
        /\ s \in WithSources
        /\ sources' = [sources EXCEPT ![s] = IF @ = None THEN b ELSE @]
        /\ UNCHANGED <<sandboxes, operations, jobs, receipts, admissions, artifacts, exports, grants>>

sandbox_controller_record_artifact_v1(o, w, t, b) ==
    LET s == operations[o].sandbox
    IN  /\ Fence(o, w, t)
        /\ operations[o].type \in {"stop", "delete"}
        /\ admissions[s] = b
        /\ s \in WithRequired
        /\ artifacts' = artifacts \cup {s}
        /\ UNCHANGED <<sandboxes, operations, jobs, receipts, admissions, sources, exports, grants>>

sandbox_controller_complete_artifact_export_v1(o, w, t, b) ==
    LET s == operations[o].sandbox
    IN  /\ Fence(o, w, t)
        /\ operations[o].type \in {"stop", "delete"}
        /\ admissions[s] = b
        /\ s \in WithRequired => s \in artifacts
        /\ exports' = exports \cup {o}
        /\ UNCHANGED <<sandboxes, operations, jobs, receipts, admissions, sources, artifacts, grants>>

sandbox_controller_retry(o, w, t) ==
    /\ Fence(o, w, t)
    /\ IF ~sandbox_controller_operation_is_current(o)
         THEN sandbox_controller_quarantine_stale(o)
       ELSE IF jobs[o].attempts >= MaxAttempts
         THEN Exhaust(o)
       ELSE /\ jobs' = [jobs EXCEPT ![o] = IdleJob(jobs[o].attempts, FALSE)]
            /\ operations' = [operations EXCEPT ![o].status = "pending"]
            /\ UNCHANGED <<sandboxes, receipts, admissions, sources, artifacts, exports, grants>>

\* Version 5: a cleanup succeeds only after its artifact export is recorded.
WrapperV5(o, c) ==
    c.status = "succeeded" /\ operations[o].type \in {"stop", "delete"} => o \in exports /\ c.export

\* Version 4: a create with sources succeeds only with their receipt.
WrapperV4(o, c) ==
    c.status = "succeeded" /\ operations[o].type = "create" /\ operations[o].sandbox \in WithSources
      => sources[operations[o].sandbox] # None

\* Versions 3 and 2: the expected digests, which the worker computes from the
\* identity it names, are exactly the persisted ones; a row without a backend
\* takes none.
WrapperV3(o, c) ==
    LET s == operations[o].sandbox
    IN  /\ c.backend = admissions[s]
        /\ c.status = "succeeded" => admissions[s] # None

WrapperV2(o, c) ==
    IF Row(o).backend # None \/ (operations[o].type = "create" /\ c.status = "succeeded")
      THEN c.backend # None /\ c.backend = admissions[operations[o].sandbox]
      ELSE c.backend = None

sandbox_controller_complete_v5(o, w, t, c) ==
    /\ Fence(o, w, t)
    /\ WrapperV5(o, c) /\ WrapperV4(o, c) /\ WrapperV3(o, c) /\ WrapperV2(o, c)
    /\ IF sandbox_controller_operation_is_current(o)
         THEN /\ sandbox_controller_complete(o, jobs[o].attempts, c, admissions[operations[o].sandbox])
              /\ UNCHANGED <<admissions, sources, artifacts, exports>>
         ELSE sandbox_controller_quarantine_stale(o)

\* The completions the controller sends: a created backend, a finished
\* cleanup, a destroyed unbound create, an ambiguous failure, a rejection.
Completions ==
    {Completion("succeeded", b, FALSE, FALSE, FALSE, FALSE) : b \in Backend}
    \cup {Completion("succeeded", b, TRUE, TRUE, TRUE, TRUE) : b \in Backend}
    \cup {Completion("failed", None, TRUE, FALSE, TRUE, TRUE)}
    \cup {Completion("recovery_required", b, FALSE, FALSE, FALSE, FALSE) : b \in Backend \cup {None}}
    \cup {Completion("failed", None, FALSE, FALSE, FALSE, FALSE)}

-----------------------------------------------------------------------------
(* Time, and access grants. *)

LeaseExpires(o) ==
    /\ jobs[o].live
    /\ jobs' = [jobs EXCEPT ![o].live = FALSE]
    /\ UNCHANGED <<sandboxes, operations, receipts, admissions, sources, artifacts, exports, grants>>

RetryFallsDue(o) ==
    /\ operations[o].status \in Nonterminal /\ ~jobs[o].due
    /\ jobs' = [jobs EXCEPT ![o].due = TRUE]
    /\ UNCHANGED <<sandboxes, operations, receipts, admissions, sources, artifacts, exports, grants>>

\* Mutant of createAccessGrant: any sandbox that exists takes a grant.
GrantAnySandbox(g, s) ==
    /\ g \notin RunGrant
    /\ sandboxes[s].state \notin {"none", "deleted"}
    /\ grants[g].state = "free"
    /\ grants' = [grants EXCEPT ![g] = [sandbox |-> s, state |-> "active"]]
    /\ UNCHANGED <<sandboxes, operations, jobs, receipts, admissions, sources, artifacts, exports>>

createAccessGrant(g, s) ==
    /\ g \notin RunGrant
    /\ sandboxes[s].state = "ready"
    /\ grants[g].state = "free"
    /\ grants' = [grants EXCEPT ![g] = [sandbox |-> s, state |-> "active"]]
    /\ UNCHANGED <<sandboxes, operations, jobs, receipts, admissions, sources, artifacts, exports>>

\* A running Agent Run's grant: the sandbox is read without a lock, and the row is
\* inserted and becomes visible at some later time.
agent_run_controller_issue_grant(g, s) ==
    /\ g \in RunGrant
    /\ \/ /\ grants[g].state = "free" /\ sandboxes[s].state = "ready"
          /\ grants' = [grants EXCEPT ![g] = [sandbox |-> s, state |-> "issuing"]]
       \/ /\ grants[g] = [sandbox |-> s, state |-> "issuing"]
          /\ grants' = [grants EXCEPT ![g] = [sandbox |-> s, state |-> "active"]]
    /\ UNCHANGED <<sandboxes, operations, jobs, receipts, admissions, sources, artifacts, exports>>

\* A presented grant is marked expired when it is late, and is consumed only
\* while its sandbox is ready with a backend.
sandbox_controller_consume_access_grant_v1(g, late) ==
    /\ grants[g].state = "active"
    /\ \/ late /\ grants' = [grants EXCEPT ![g].state = "expired"]
       \/ /\ ~late
          /\ sandboxes[grants[g].sandbox].state = "ready"
          /\ sandboxes[grants[g].sandbox].backend # None
          /\ grants' = [grants EXCEPT ![g].state = "consumed"]
    /\ UNCHANGED <<sandboxes, operations, jobs, receipts, admissions, sources, artifacts, exports>>

-----------------------------------------------------------------------------
Token == 1 .. MaxAttempts

Enqueue(s, o) ==
    \/ createSandbox(s, o)
    \/ \E type \in {"stop", "delete"} : createOperation(s, o, type)
    \/ sandbox_controller_enqueue_expired(s, o)
    \/ agent_run_controller_release_sandboxes(s, o)

Leased(o, w, t) ==
    \/ sandbox_controller_renew(o, w, t)
    \/ \E b \in Backend : sandbox_controller_bind_backend_v4(o, w, t, b)
    \/ \E b \in Backend : sandbox_controller_record_source_materialization_v1(o, w, t, b)
    \/ \E b \in Backend : sandbox_controller_record_artifact_v1(o, w, t, b)
    \/ \E b \in Backend : sandbox_controller_complete_artifact_export_v1(o, w, t, b)
    \/ sandbox_controller_retry(o, w, t)
    \/ \E c \in Completions : sandbox_controller_complete_v5(o, w, t, c)

GrantStep(g) ==
    \/ \E s \in Sandbox : createAccessGrant(g, s) \/ agent_run_controller_issue_grant(g, s)
    \/ \E late \in BOOLEAN : sandbox_controller_consume_access_grant_v1(g, late)

Next ==
    \/ \E s \in Sandbox, o \in Op : Enqueue(s, o)
    \/ \E w \in Worker, o \in Op : sandbox_controller_claim_v5(w, o)
    \/ \E o \in Op, w \in Worker, t \in Token : Leased(o, w, t)
    \/ \E o \in Op : LeaseExpires(o) \/ RetryFallsDue(o)
    \/ \E g \in Grant : GrantStep(g)

Spec == Init /\ [][Next]_vars

-----------------------------------------------------------------------------
(* Properties. *)

\* Every pending or running operation still finds on its sandbox exactly the
\* state, desired state, version and identity it was enqueued against, whatever
\* the API, the sweeps and the controllers did in between.  So the branch that
\* quarantines a stale operation (013:237, 325, 359, 403, 467) is never taken,
\* and no operation is silently given up.
EveryOperationIsCurrent ==
    \A o \in Op : operations[o].status \in Nonterminal =>
        /\ operations[o].sandbox \in Sandbox
        /\ sandbox_controller_operation_is_current(o)

\* The backend a sandbox row names is the one that was admitted, and a row whose
\* admitted backend has been cleared has a receipt that reports that very
\* backend destroyed: the database never forgets a backend that may still run
\* (the CASE WHEN p_backend_destroyed of 013:522-524).
BackendIsNeverForgotten ==
    \A s \in Sandbox :
        /\ sandboxes[s].backend \in {None, admissions[s]}
        /\ admissions[s] # None /\ sandboxes[s].backend = None =>
              \E o \in Op : /\ operations[o].sandbox = s
                            /\ receipts[o].destroyed
                            /\ receipts[o].admission = admissions[s]

\* A ready sandbox has one admitted backend, its sources were materialized in
\* that same backend, and its create succeeded with a receipt naming it
\* (the wrappers of complete and the receipt trigger of 016:60).
ReadyIsEvidenced ==
    \A s \in Sandbox : sandboxes[s].state = "ready" =>
        /\ sandboxes[s].backend # None
        /\ s \in WithSources => sources[s] = sandboxes[s].backend
        /\ \E o \in Op : /\ operations[o].sandbox = s /\ operations[o].type = "create"
                         /\ receipts[o].status = "succeeded"
                         /\ receipts[o].backend = sandboxes[s].backend

\* A sandbox is deleted only on proof: its required artifact is stored; if it was
\* ever admitted, a successful cleanup exported its artifacts and destroyed that
\* backend; if it was not, its create reported everything it made destroyed
\* (042:29-72).
DeletedIsProven ==
    \A s \in Sandbox : sandboxes[s].state = "deleted" =>
        /\ s \in WithRequired => s \in artifacts
        /\ \E o \in Op :
             /\ operations[o].sandbox = s
             /\ receipts[o].cleanup /\ receipts[o].revoked /\ receipts[o].destroyed
             /\ receipts[o].admission = admissions[s]
             /\ IF admissions[s] # None
                  THEN o \in exports /\ receipts[o].status = "succeeded"
                  ELSE operations[o].type = "create" /\ receipts[o].status = "failed"

\* Once a sandbox is stopped or deleted no grant of the control API for it can
\* still be presented (013:488-497), whatever grants were issued while the
\* cleanup was under way.
NoAccessAfterStop ==
    \A g \in Grant \ RunGrant : grants[g].state = "active" =>
        sandboxes[grants[g].sandbox].state \notin {"stopped", "deleted"}

\* What a step must leave alone: rows of terminal operations, deleted sandboxes.
KeepsTerminal ==
    /\ \A o \in Op : operations[o].status \in Terminal =>
          /\ operations'[o] = operations[o]
          /\ receipts'[o] = receipts[o]
          /\ jobs'[o] = jobs[o]
    /\ \A s \in Sandbox : sandboxes[s].state = "deleted" => sandboxes'[s] = sandboxes[s]

\* A terminal operation, its receipt and its job never change again, and a
\* deleted sandbox stays as it is: no late call, retry or claim reopens them.
TerminalIsForever == [][KeepsTerminal]_vars

\* Every operation that is enqueued comes to an end within MaxAttempts claims,
\* even when each worker that claims it dies.
EveryOperationEnds ==
    \A o \in Op : operations[o].status \in Nonterminal ~> operations[o].status \in Terminal
=============================================================================
