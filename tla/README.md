# Formal models of Blazn

TLA+ modules for the parts of Blazn where an interleaving, a crash or a lost
answer decides whether the program is right: the sandbox control plane (queue,
controllers, lease, source bootstrap), Agent Runs and the agent in the sandbox,
the local proxy, the CLI's sessions, the Node installer, the MicroK8s issuer and
the harness worker. TLC checks small instances; TLAPS proves every invariant, every
action property and both refinements that the runs check, for every instance. Only the
two liveness properties stay with TLC. Paths below are relative to the repository; `013` stands for
`services/control-api/migrations/013_sandbox_controller_queue.sql`, and so on.

    tlc -workers 2 -config SandboxQueue.cfg MCSandboxQueue
    tlapm SandboxControllerProofs.tla

## 1. The system

| Component | State | Operations | What is hard | Correct when |
|---|---|---|---|---|
| **Sandbox queue**: `sandboxes`, `sandbox_operations`, `sandbox_reconcile_jobs`, receipts, grants; SQL functions of 009-042, `sandbox-service.ts`, `sandbox-store.ts` | rows | create, stop, delete, expiry sweep, Run release; claim, renew, bind, record sources, record artifact, complete export, retry, complete; issue and consume grants | three independent enqueuers, take-over of expired leases, late calls, attempt limit | one open operation per sandbox and never a stale one; no backend forgotten; ready, stopped and deleted are backed by receipts; terminal is final |
| **Sandbox controller** (`internal/sandboxcontroller`) and **Kubernetes adapter** (`internal/sandboxcontrol`) | work item, retained identities; the Sandbox object, Pod and Workload | `reconcile`, `create`, `cleanup`, the failure paths; create, observe, delete, finalize, absence | crash between any two calls, lost answers, no fencing in Kubernetes | what it reports about a backend is true of the cluster; artifacts are stored before the Pod goes; every operation ends |
| **Lease and heartbeat** (`controller.go:118-325`, `store_postgres.go:96-138`) | expiry in the database, deadline in the process | claim, refresh, renew, watchdog | two clocks, late answers, renewals that outlive their caller | no backend work outside the lease; no two workers |
| **Source bootstrap** (`source_runtime.go`, `source_network.go`, `kube_exec.go`, `internal/sandboxio`) | NetworkPolicies, files and markers on the Pod's volumes, the recorded receipt | restrict, allow, materialise, verify, release, wait | helpers of abandoned execs share the files; calls land after the lease is lost; Pods are replaced | a started sandbox has whole sources, closed egress and a true record |
| **Agent Run executor** (`agent-run-executor.ts`, 040) and **sandbox agent** (`internal/sandboxagent`) | inbox, state file, outbox, request files; messages, replies, outbox position | claim, upload, wait, reply, deliver, finalize; turn, step, emit, restart | two crashing parties and at-least-once delivery on both sides | an answer fits the request; what is delivered was answered; turns are only lost by a crash |
| **Proxy state and activation** (`internal/proxy/state`, `internal/proxy/activation`) | journal, receipt, reservation, lock, environment | on, run, off, status, recovery | crash between two file operations, racing processes, a user who edits the same variables | what was published can always be undone; the user's values come back |
| **Proxy router** (`internal/proxy/router`, `listener`, `adapter`) | routes, contexts, timers, normaliser and encoder state | admit, select, connect, prepare, stream, answer, shut down | a timer that races every step, half-sent streams, translation between three protocols | no leak, no fallback after the first byte, complete only when complete |
| **CLI authentication** (`internal/auth`) | credentials, lock and login fence files; the API's sessions | login, status, logout, revoke | two processes rotating one refresh token; lost answers | a live session can always be reached, or a named fault destroyed it |
| **Node installer and helper** (`internal/node`) | log, receipts, runtime record, cleanup journal, host | enroll, recover, repair, uninstall | a crash in the middle of host changes, a plan that expires, an unprivileged and a root process | every change is owned by a record; capacity follows a grant; retired before forgotten |
| **MicroK8s worker issuer** (`internal/microk8sissuer`) | issuance records, token file, Node labels, retired names | issue, revoke, observe, assign, hold, drain, rebootstrap, retire | a file shared with MicroK8s, partial commands, stale reads of a Node | no live token without a record, no retired machine back unnoticed |
| **Harness worker and adapter** (`internal/harnessworker`, `internal/harnessadapter`) | process tree, bounded queue, artifacts | start, copy, deliver, cancel, clean up, classify | goroutines and processes that outlive each other | success is earned, nothing survives, every run ends |
| Plugin broker and store, development builds, workspaces and registries of the API, CLI, generated clients | own rows, files or none | | | not modelled: section 7 |

How they interact. The control API inserts an operation and, by trigger, its job
(013:41). Controllers poll `sandbox_controller_claim_v5` (036:79) and receive a
work item, a snapshot by value with a fresh lease token. Everything they write
goes through functions that check owner, token, expiry and status under row
locks (the *fence*, 013:455-463). Kubernetes knows none of this: a controller
must stop touching it before its lease can be taken over, which is the
heartbeat's business. A create with sources runs a helper inside the Pod through
exec while the agent's container waits for a marker on a shared volume. When the
sandbox is ready, the executor of an Agent Run uploads messages into the agent's
inbox and reads its outbox through a grant. Outside of the control plane: the CLI
keeps a session that everything else uses, `blazn proxy` takes over environment
variables and answers model requests on a local port, and `blazn node` turns a
machine into a worker with a token the issuer hands out.

## 2. Modules

`MC*` modules add symmetry sets, constant values and the state constraint of
`queue`, and nothing else. Definitions keep the source's names; `PROJECT.json`
gives the lines of each. A definition commented as *mutant* is a plausible bug
used to show that a property can fail; no specification uses one.

### `SandboxQueue`: the database

One variable per table; every action is one transaction and keeps the SQL
function's name.

| Model | Code |
|---|---|
| `createSandbox`, `createOperation` | `sandbox-service.ts:20, 25` with the row lock, `transitionSandbox` (`sandbox-store.ts:53`) and the enqueue trigger (013:41) |
| `sandbox_controller_enqueue_expired`, `agent_run_controller_release_sandboxes` | 013:534, 040:344 |
| `sandbox_controller_claim_v5` | 036:79 over 013:196: `Claimable`, then quarantine, `Exhaust`, the delete without backend (042:10) or `Lease` |
| `Fence` | owner, token, live lease, running operation |
| `sandbox_controller_bind_backend_v4` | 032:8, over 019:62, over 013:335 |
| `sandbox_controller_complete_v5` | the wrappers of 035, 020, 019, 016 as `WrapperV5` ... `WrapperV2`, then `sandbox_controller_complete` (013:432) |
| `createAccessGrant` | `sandbox-service.ts:27`, under the sandbox's row lock: one step |
| `agent_run_controller_issue_grant` | 040:116, no lock: the read and the insert are two steps |
| `LeaseExpires`, `RetryFallsDue` | the clock, as far as the functions ask for it |

A backend identity stands for (UID, resource version, admission id) and the
digests computed from it. A token is the attempt's number, unique like the UUID.
`stopped_at` names the operation that set it; the order of operations that 042
takes from timestamps is the order of expected versions. A call that is refused
is no step. One required artifact and one set of sources per sandbox; optional
artifacts, warnings, events, audit, idempotency receipts and templates are left
out. The state `running` of a sandbox is declared but no function writes it.

### `SandboxController`: the controllers and the cluster

Extends `SandboxQueue`; every database step *is* an action of the queue. A
worker is a program counter, its item and the UIDs its process retained; the
cluster is one object per sandbox with a phase and a UID. The three paths:

    create   execute -> poll -> (sources -> release -> await) -> bind -> ready
    cleanup  execute -> export -> receipt -> begin -> finalize -> absence -> cleaned
    failure  failed -> (destroying -> proving -> destroyed) or finish

`Answered` lets the answer of a committed call be lost, `StepFails` fails any step
in each of the three ways `finishFailure` tells apart, `Crash` forgets the
process, `LeaseLost` is the heartbeat giving up. Mutations of the cluster need a
live lease (`Holds`): that is what `SandboxLease` establishes, except while a
failed create is destroyed under a lease that a late renewal has cut short
(section 5). `Progress` is
Kubernetes (external): it admits, starts and collects, or does nothing;
dependents that garbage collection leaves behind are folded into it.

Assumed: a database call is decided when its caller gives it up; a Kubernetes
mutation sent under the lease lands within the safety margin; Kubernetes does
not kill a running Pod on its own. A row this build cannot decode ends the
process with the lease held (`ClaimUndecoded`); an item `validateWorkItem` refuses is
reported as ambiguous at once (`RejectItem`). Left out: Agent node placement
evidence (`controller.go:450-466`), which never changes the outcome.

### `SandboxLease`: the lease in time

One operation, any number of workers, integer time. A call is *sent*, *read* (the
server samples its clock), applied and answered, each at a time of its own; the
deadline a worker derives is `databaseLeaseWindow`. `Abandon` turns a renewal
nobody awaits into a *stray* that still takes effect (at most one per worker), in any
order with the others: like 013:329, it overwrites the expiry with one counted from the
time it was read, which may be earlier than the one on the row. The history variable
`cut` holds the tokens whose lease was shortened in that way and not yet restored by a
renewal somebody awaits. An executing worker has no stray under its own token, since
its heartbeat stops with it; the destruction that follows a failed create renews under
the same token and may meet the heartbeat's last renewal. That case is
`Overtaken`, the one exception of both properties. `Slack` is how long after the
watchdog the work really stops. Both clocks advance together, since the code
compares durations only.

### `SourceHelper` and `SandboxBootstrap`: sources before the start

`SourceHelper` is `internal/sandboxio`: the files of a Pod's volumes with the
helpers that `bootstrap` and `release` run, each effect (reset, write, sync,
receipt, marker) a step, and the container that waits for the marker and fails on
anything but a whole one. `SandboxBootstrap` adds the controller's side: the deny
and allow policies, the preflight, the exec, the record and the release, workers
that lose their lease in any of these and leave a helper running that nobody
hears (`Unheard`), a killed helper, a replaced Pod and a foreign policy. One
source of two files; the same commit has the same digest; the walks that adopt
or verify a tree are atomic; a hundred polls are a wait that ends or is given up.

### `SandboxAgent` and `AgentRun`: a Run's conversation

`SandboxAgent` is the process in the sandbox: a *plan* is the list of durable
effects a function still has to perform (mark done, unlink, save the state, append
to the outbox, write a request), and a crash may happen before each, or inside the
append, which leaves a partial line. `AgentRun` adds the executor: claim, upload,
wait, `HandleRequest`, `HandleTurn`, reply, deliver and record as separate calls of
which any may be lost or repeated, controllers that take a Run over, the drain
and the finalisation. The conversation, tool output and the model's words are
abstracted to which request a reply answers. Inbox files are a set of named items, read in the order of their names.
`hist` is a history variable: which turns were opened, reported or lost by a
crash, and which request IDs a crashed process had used for a step it did not save
(`hist.unsaved`).

### `ProxyState`, `ProxyActivation`, `ProxyPublication`: the environment

`ProxyState` is `internal/proxy/state`: journal and receipt on disk and as they
would survive a loss of power, the lock and the reservation, and `AtomicWrite`,
`Remove` and the transition as sequences of file operations with a crash point
between any two. `ProxyActivation` is the service: `on`, `run`, `off`, `status` and the
recovery each of them begins with, as a program counter and a list of pending
effects per process, over the environment's variables. `ProxyPublication` is
the promise: at most one activation owns the environment, a variable changes hands
only from a recorded prior value and comes back to it unless the user has changed
it. `ImplementsPublication` is the refinement mapping from files to that promise.

Assumed: metadata operations reach the disk in order; `UpdatedAt` never goes
back; a prior value may itself be another activation's. Renewals of the scope lease are
stutters because its expiry is nondeterministic; policies, modes and OS sessions
only choose between two refusals; maps in memory that repeat the files are
omitted. `doctor`, `routes` and `tail` change nothing, `reset` is `off`.

### `ProxyStream` and `ProxyRouter`: a request

`ProxyStream` holds the pure part: the normaliser from upstream lines (chat,
responses) to events and the encoder from events to the client's protocol, with
the indexes, open items and terminators they keep. Output indexes are `0 .. MaxIndex`
(negative ones, which `finish` refuses, are left out), and the identifiers of calls, reasoning
items and the message are told apart. `ProxyRouter` is one request:
admission, selection, the attempt with its context, body and timer, the first
usable line (`prepareStream`), the stream or the plain answer, the reported
events and the shutdown. One request at a time: requests share nothing
but the listener.

### `SessionAuth`: the CLI's session

Processes that sign in, query (and refresh), sign out and revoke, each as a
program counter between the lock, the fence, the API call and the store write;
the API's sessions with their rotating tokens; a crash, a failed write, a lost
answer and a lock that times out at each of these. A delayed request equals a lost
answer; the local and the server's clock are nondeterministic. Left out: the
Keychain backend, damaged credentials, the browser and mail steps of the approval,
loss of power.

### `NodeHost` and `NodeInstall`: a machine becomes a worker

`NodeHost` is the host and the cluster as the installer sees them, with the plan
(a package, a service and a taint: one mutation of each kind that the
lifecycle treats differently). `NodeInstall` is one command at a time over the write-ahead
log, the receipts, the runtime record and the cleanup journal, with the root
helper's authority (what a plan may still do, and until when) and faults between any
two calls. A log tells the terminal receipts that were signed into it apart (`terminal`),
since the helper compares them by content. A standalone MicroK8s' own Node counts as absent; the Node object stays after
a leave; one enrollment; files, users, groups and directories are the
package mutation; conflicts on the Node's version are retried within the step. The state
between the two systemctl calls of `restoreServicePrior` (`platform_helper.go:1859-1866`)
is left out: it is one more residue that recovery meets and restores again.

### `MicroK8sIssuer`: join tokens and Nodes

The record of an issuance, the token file, the Node's label and the list of
retired names; each operation is split where it reads or writes one of them
outside of the lock. MicroK8s (external) appends to its token file in place or replaces it
by a rename, consumes and purges tokens. A kubelet may register its Node again at any
time. The registration guard (`infra/frontro/cluster`, `failurePolicy: Ignore`, bound with
Warn and Audit) refuses nothing: it marks a Node that registers under a listed name
(`GuardFlags`, the history field `flagged`). `gone` says that the name was retired and that no
issue has taken it off the list since. The eligibility label is absent, `true` or something
else, which `assign` refuses to overwrite. The socket, its readiness cache and key
material are left out; damaged files are refused and change nothing.

### `HermesAdapter` and `HarnessWorker`: a harness process

`HermesAdapter` is the copier, the bounded queue and the delivery goroutine between a
child's output and the client; `HarnessWorker` the run around it: start, wait,
cancel, the clean-up by group and by `/proc`, the artifacts and the classification.
Descendants may leave the group, hold the output open and fork while
`/proc` is being read. A bad record stands for every record the adapter refuses; ordinary
records (`adapter.go:575, 581`) are left out, since they take the same path as those of
artifacts and conclude nothing. The run begins when the assignment line has arrived. Linux
only; zombies, the baseline of other children and a failing `Prepare` are left out.

## 3. Runs

| Run | Instance | Distinct states | Shows |
|---|---|---|---|
| `queue` | one of two sandboxes, with sources and a required artifact or with neither; 4 operations, 2 workers, 2 backends, a user's grant and a Run's, 2 attempts | 634,617 | `EveryOperationIsCurrent`, `BackendIsNeverForgotten`, `ReadyIsEvidenced`, `DeletedIsProven`, `NoAccessAfterStop`, `TerminalIsForever` |
| `controller` | one sandbox with sources and artifact, 2 operations, 2 workers | 443,388 | `DestroyedMeansGone`, `ReadyIsRunning`, `NoArtifactLost`, `ImplementsQueue` |
| `controller_live` | 2 operations, 1 worker that may crash for ever | 47,983 | `EveryOperationEnds` |
| `lease` | 2 workers, lease 3, margin 1, 2 claims, time 0-5, renewals applied in any order | 2,019,233 | `WorkIsCovered`, `OneWorker` |
| `bootstrap` | 2 workers, 2 claims, 2 helpers, 2 Pods, a kill, a foreign policy | 1,264,346 | `SourcesAreWhole`, `EgressIsClosed`, `RecordIsTrue` |
| `agent` | 1 message, 2 steps, 2 faults, a cancel, a shutdown, an unreadable item | 5,630,783 | `OnlyCrashesLoseTurns`, `AnswerFits`, `DeliveredIsAnswered`, `SequencesNeverRepeat` |
| `proxy` | 2 processes, 2 commands, 2 activations, 2 variables, 2 faults, 1 edit | 1,289,520 | `PairIsBound`, `PublishedIsDurable`, `ImplementsPublication` |
| `router` | 1 or 2 routes, 4 lines, 1 call, 1 reasoning item, 2 indexes, 1 failed write | 1,516,948 | `AttemptOwnsItsResources`, `CompleteIsComplete`, `NoFallbackAfterFirstByte` |
| `auth` | 2 processes, 3 commands, 2 devices, 2 rotations, 2 faults | 1,761,546 | `LiveIsReachable`, `OneBackend`, `RotationIsSerialized` |
| `node` | 4 commands, 2 faults, a host with or without MicroK8s | 434,594 | `EveryChangeIsOwned`, `CapacityNeedsGrant`, `RetiredBeforeForgotten`, `WritesStayAuthorized` |
| `issuer` | 1 issuance with 2 bindings, 1 name, 2 registrations, 2 workspaces, 2 faults, 5 outside steps | 1,439,851 | `LiveTokenIsRecorded`, `OtherTokensAreKept`, `ReturnIsNoticed`, `LeavingIsFinal` |
| `worker` | 3 records, queue of 1, 1 descendant with 3 forks, 3 rounds | 1,669,292 | `SuccessIsEarned`, `NoSurvivors`, `EveryRunEnds` |

Why these bounds are enough.

- *Queue and controller*. Operations of different sandboxes share no row, so
  `OneSandbox` keeps one of the two in existence and loses no behaviour of it. Four
  operations cover create, stop, a delete that fails or is repeated, and
  the delete that looks back at them. Two attempts tell first, repeated and last
  apart; two workers are the holder and the one who takes over; two backends the
  right one and a foreign one. In `controller` the create and one cleanup
  interleave with a take-over.
- *Lease*. Lease 3, period 1 and margin 1 leave one tick between a granted
  renewal and the watchdog, so lateness of one tick already matters; time 5
  reaches past expiry and take-over. The proofs need none of these.
- *Bootstrap*. The second claim meets the first one's helper; the second Pod meets
  a record about the first; two files make a partial tree.
- *Agent*. Two steps make a request that is not the turn's first; two faults are a
  crash and a crash in the recovery, or a crash on each side. A second
  message adds no state that a retried or resumed one has not.
- *Proxy, auth, node, issuer*. Every command recovers what an earlier one left, so
  two commands (four for the Node, whose recovery is a command of its own) and two
  faults are a fault, a recovery and a fault in it. Two variables
  make a half-published environment; two rotations a token that is one behind.
- *Router*. Two routes are a failure and its fallback; four lines open, extend and
  close an item and end the stream; two indexes collide.
- *Worker*. One record in the queue, one being written and one too many; three forks in
  three rounds let a descendant be missed once, be missed twice, or be found again.

Symmetry is used only in runs without liveness, on sets that are never ordered.
Deadlock is checked in `issuer` and `router`; everywhere else a system whose commands,
operations or bounded clock have run out may stop, and the cfg says so.

Fairness. In `controller_live`: idle controllers poll for ever (`Run`,
`controller.go:77`), a lease nobody renews expires, the clock reaches
`next_attempt_at`, and an attempt goes on until it ends, because `OperationTimeout` and
the watchdog end it. Nothing is asked of Kubernetes, and crashes may go on for ever. In
`worker`: the runner, the copier and the delivery goroutine are scheduled, and the
run's timer fires. Nothing is asked of the child, its descendants or the client, but
`EveryRunEnds` speaks of a run that was assigned: before that the process waits for its
assignment line without bound (`protocol.go:50-58`). Every
condition is weak.

Every property has a mutant in `PROJECT.json`: a small plausible bug of the
code under which TLC finds the property violated.

## 4. Proofs

Every proof starts from the named assumptions on the constants in the modules
(`None`, `NoPod` and `NoWorker` are none of the identities they stand beside, bounds are
naturals, contracts and grants are subsets) and from nothing else; the
bounds on commands, faults, claims, attempts and changes are arbitrary. A property
is seldom inductive, so each module proves one invariant and derives the properties
from it. TLC checked every one of these invariants on the instances of section 3
before it was proved. The layout is the same throughout: a *footprint* (what a step of
one actor may do to what the others rely on), one lemma that every step with such
a footprint keeps the invariant, and one lemma per action that it has it.

`SandboxControllerProofs`, on the queue alone:

- `TypeCorrect`: `Spec => []TypeOK`.
- `OpenInvariant`: `Spec => []Open`. `EveryOperationIsCurrent` is not inductive:
  that a claim or an enqueue leaves *other* operations current needs that no
  other operation of the sandbox is open. `Open` adds
  `OneOpen` (the partial unique index, seen from the rows), `ClosedJobs` (a
  terminal operation's job is completed, so no fence lets it in) and `FreshRows`
  (a sandbox that does not exist yet has version 0). One lemma per transaction.
- `NoOperationGoesStale`, hence `EveryOperationIsCurrent`: the quarantine branches
  of 013 are dead code for operations enqueued by these functions.
- `TerminalStays`: `[][KeepsTerminal]_vars`, from `Open`.
- `StoppedIsClosed`: `[]NoAccessAfterStop`. Only a successful stop or delete
  reaches those states, and it revokes every active grant; while the sandbox is in
  one of them none is issued, since the row is locked and must say ready.
- `EvidenceInvariant`: `[]Evidence`, hence `NoBackendForgotten`, `ReadyHasEvidence`
  and `DeletedHasProof`. A receipt that proves something is that of a terminal
  operation (`ReceiptOf`), which by `Open` no later call touches, so the proof a row
  rests on cannot be taken away; nothing is admitted before a bind (`Unadmitted`), and
  the backend that is bound is the one the sources were materialised in
  (`SourcesNamed`).

The same module, on the controllers, over the queue's invariants:

- `ControllerInvariant`: `ControllerSpec => []ControllerInv`. A worker's own knowledge is in
  `Equipped` (past its first observation it goes by an identity, before it deletes
  anything the artifact is stored) and `Seen` (what the *holder of the lease* has
  observed of the cluster is still so). `Seen` is where fencing is needed: for a worker
  that lost its lease it is false, and the fence of the completing transaction keeps
  that worker's report out. `CreateFirst` (a create is the first operation of its
  sandbox) justifies destroying what an unbound create has made.
- `ControllerImplementsQueue`: `ControllerSpec => ImplementsQueue`. Every step of a controller is
  a transaction of `SandboxQueue` under the token the worker claimed, or a stutter.
- `GoneWhenDestroyed`, `RunningWhenReady`, `ArtifactsKept`: the three properties of the run.

`SandboxLeaseProofs`, for all `Lease`, `RenewEvery`, `Margin`, `Slack < Margin`,
workers and claims, and renewals applied in any order:

- `TypeCorrect`, as above.
- `WorkStaysCovered`: `Spec => []WorkIsCovered`; `WorkersStayApart`: `OneWorker`
  follows, since the job has one owner. The invariant gives each worker its
  `Share`: while it works and is not `Overtaken`, the lease is its own, does not expire before its
  deadline, and the watchdog has kept the time below it (`CoveredBy`); a call under
  way began in the past (`BegunBy`); no deadline is further ahead than
  a lease counted from now, nor than what the renewal that is awaited will write, so that one never
  leaves an expiry below it (`AheadBy`); a granted
  answer promises no more than the row holds, or is about a lease that is gone and has run out,
  or was cut (`PromisedTo`); a worker that waits for nothing has no call (`QuietAt`); a worker
  that executes has neither a stray nor a cut under its own token (`FirstHand`, `Undisturbed`), which
  is why the exception ends with the destruction of a failed create; tokens are those
  that were handed out (`KnownBy`). `PromisedTo` is what justifies
  accepting an answer: between answer and acceptance the row may have changed.

`SandboxBootstrapProofs`, for any number of workers, claims, helpers, Pods and files:

- `BootstrapInvariant`: `[]BootstrapInv`. In the Pod, `Chain` orders what outlives a helper:
  started after released, released after the receipt, the receipt after the marker, the marker
  after a check of the files; a helper that removes a file after such a check sets `late`.
  At the controllers, `Slots` gives each exchange its own helper (so an answer is
  never that of another worker's exec), `Sealed` ties an answer to the Pod, which counts only
  if that Pod is still there when the worker looks again, and `Recorded` says
  that a worker on the opening path that holds the lease has no record before it. From this
  `Closed`: once a receipt is on record, only a worker without the lease can still
  open the network.
- `SourcesWhole`, `EgressClosed`, `RecordTrue`: the three properties of the run.

`SessionAuthProofs`, for any number of processes, devices, rotations, faults and backends:

- `SessionInvariant`: `[]SessionInv`. A process that carries a stored credential is
  in the lock (`Mutex`), and it carries the session that is stored (`Held`), so between its
  call and its write nobody else can replace it; the session of a login that is not over is
  nobody else's (`Fresh`); while a login has the fence nothing is stored, except by a
  login that had to keep its session without one (`Fenced`); what is stored is behind the API
  only while a process is about to store what it was given (`Current`).
- `SessionsAreReachable`, `BackendIsUnique`, `RotationsAreSerial`: the three properties of the run.

`MicroK8sIssuerProofs`, for any number of issuances, requests, registrations and outside steps:

- `IssuerInvariant`: `[]IssuerInv`. An operation is about the request on record
  (`Keyed`, `Working`), adds a token only to a pending record, and writes *revoked* only when
  no line of the token is live; a request has at most one line (`Unique`), so expiring the one that
  was found is enough, although MicroK8s may have replaced the file in between; a
  patch that is not stale is applied to the Node that was read (`Checked`); a
  retired name is listed before its Node goes, and a Node that has come back was flagged (`Listed`).
- `LiveTokensAreRecorded`, `OtherTokensKept`, `ReturnsAreNoticed` and, as an action property,
  `LeavingStaysFinal`.

`ProxyProofs`, on the activation, for any number of processes, commands, activations, variables,
faults and edits:

- `ActivationInvariant`: `[]ActivationInv`. It speaks about *every* state of the two
  files that may survive a loss of power (`Recorded`), not only the one that is read:
  the pair is bound (`Bound`) and the environment has the journal it needs, with prior values
  that are the user's (`Kept`). A crash may come between any two operations, so the
  invariant also says what the holder of the lock has left: the end of one of six plans
  (`Ends`), with what the operations before have done to the files (`Repairing`,
  `Preparing`, `Publishing`, `Transiting`, `Clearing`, `ReceiptOnly`). One lemma per plan shows that its
  next operation keeps the records; that publication follows the *sync* of the journal, not
  only its rename, is the last conjunct of `Publishing`. A user's edit and a loss of power
  only take values of an activation away (`Fewer`), which disturbs none of this.
- `PairsAreBound`, `PublishedStaysDurable`: the invariants of the run.
- `ActivationImplementsPublication`: `Spec => ImplementsPublication`. `StepOK` sorts the steps into
  five kinds (`Quiet`, `Published`, `Restored`, `Edited`, `Lost`), each a step of
  `ProxyPublication` or none; the claim is the journal, damaged or not, and an operation
  may change it only while no value is out (`Claims`).

The same module, on the router, for any calls, reasoning items, output indexes, lines
of a stream, lost writes and retry policy:

- `RouterInvariant`: `RouterSpec => []RouterInv`. `Resources` gives the states of timer, watcher,
  context and body that each place of the handler allows; that a timer may be *firing* while
  the handler decides is why `AttemptOwnsItsResources` is not inductive: before the commit a body may
  be gone, but only with a timer that has fired, which `timerDidFire` sees. `Routed`: every
  route selected carries what the request needs, and the loop is at one of them. `Told`: before
  the stream the client and the encoder are new, before the end nothing was ended or called a
  success. `Translated`: normaliser, encoder and buffered events have their types, and
  every item announced to a client of the responses protocol has an index of its
  own kind (`Announced`): without it nothing follows from the check for collisions that
  `finish` makes, since that check reads the indexes and not what was sent.
- `AttemptsOwnTheirs`, `CompleteStays` and, as an action property, `NoFallbackOnceSent`. One lemma
  per line of a stream and event of the encoder, one per action. That the index
  `applyIndexHints` goes on from is a natural needs that the hinted indexes, which are bounded, have
  a greatest one (`MaxExists`), from the well-foundedness of the naturals (`Least`).

`HarnessProofs`, on Agent Runs, for any number of messages, steps, restarts, faults and inbox
files:

- `AgentRunInvariant`: `Spec => []AgentRunInv`. Next to the types (`AgentType`, `RunType`) it has one
  part for each thing that outlives a process. `Planned`: what the agent still has to write is the
  end of one of its plans, and a torn line is the first thing a living agent repairs.
  `Owed`: a message taken is in a turn, about to be reported, named by the state on
  disk, or lost. `Counted`: the state in memory is at most one step ahead of the one on disk.
  `Identified`: a request ID and its body, wherever they are (request file, batch, pending upload,
  inbox), come from a saved step, an unsaved one of a crashed process, or this process.
  `Numbered`: sequences on disk lie below the next one and beyond the recorded position. `InStep`: a
  controller's batch is what the outbox begins with, less the line it is recording.
  `Replied`: a turn reported as completed has its reply recorded, earlier in the outbox, or earlier
  among the pending calls, which is what makes a retry or a take-over harmless.
- `TurnsAreReported`, `AnswersFit`, `DeliveredHasReply`, `SequencesStayUnique`: the four properties of
  the run.

The same module, on the harness worker, for any number of records, rounds and forks, any queue and any
set of rewritten artifacts:

- `WorkerInvariant`: `WorkerSpec => []WorkerInv`. `Reaped`: what is known of the leader is so.
  `Watched`: while a descendant lives, every quiet round was one that missed it, and a tree
  called gone took two of them. `Delivering` and `Delivered`: what was accepted is what was written, then what is in
  hand, then the queue, in order. `Vouched` and `Justified`: what `Finalize`, `Classify` and `Collect`
  conclude rests on what they read, and nothing changes it afterwards.
- `SuccessWasEarned`, `NothingSurvives`: the two invariants of the run.

`NodeInstallProofs`, for any number of commands, failed calls and crashes; the plan
may expire at any time:

- `NodeInvariant`: `[]NodeInv`, which is `TypeOK` with two halves. `Data` holds whatever a
  command is doing, so also after a crash: what a log of each lifecycle says of the host
  (`InstallLog`: what is not listed, or was undone, is as before enrollment; `RepairLog`: an active
  receipt stays underneath; `UninstallLog`: what was undone is as before, and a host that has
  left takes no work), what holds without a log (`NoLogOK`), what a running policy, a released Node and a
  grant rest on (`Working`), and how far the clean-up has come (`AnyLog`, `Journal`).
  `Position` is what the running command may rely on where it is: its own log has
  come as far as its counter says (`OwnLog`), a rollback has left nothing behind it
  that is owed (`GoingBack`). None of the properties is inductive alone: that an undone entry
  may be marked *removed* needs the captured state to be the original one (`LeadsBack`), and that
  needs the order of the plan. One lemma per action; `EasedHost` deals at once with
  the calls that only take something from the host.
- `ChangesAreOwned`, `CapacityIsGranted`, `RetirementComesFirst`: the invariants of the run.
- `EveryWriteIsAuthorized`: `Spec => WritesStayAuthorized`, an action property, from `NodeInv`.

Assumed is only that *no file* differs from every record (`NoneIsNoRecord`).

Only model-checked: liveness under fairness (`EveryOperationEnds`, `EveryRunEnds`), which is out
of the prover's reach. Everything else the runs check is a theorem.

## 5. Disagreements and limits met while modelling

None of these is a violation of a property above: they are outcomes the models
contain and the properties exclude by name, or that lie outside of the model.

**Sandbox control plane**

- A Run's grant is inserted without a lock and can follow the stop's revocation
  (040:125); `docs/sandbox-contract.md:28` says "Stop revokes every grant". 040:143
  refuses such a grant when it is used, so `NoAccessAfterStop`
  speaks of the control API's grants.
- `reconcile` judges a failure by the item as it was claimed (`controller.go:159`), so
  a create whose sources were just recorded is destroyed as unbound; the comment at 178
  and `controller_unbound_test.go:92, 95` say otherwise. The object is gone either way.
- Renewals that are applied out of order shorten the lease: `effective_now` is read (013:308)
  before the wait for the rows (013:321) and written unconditionally (013:329). The last renewal of
  `execute`'s heartbeat, given up but still on its way, can be applied after the renewal
  of `destroyUnboundCreate` and leave an expiry below the deadline it works by: another
  controller may claim the operation while the first still deletes. `controller.go:194-195` says
  that it "renews the lease and keeps it alive with its own heartbeat", and
  `controller_test.go:587` fails when a "backend remained active until the database lease
  became reclaimable". In the instance of `lease`, TLC finds the case when `Overtaken` is
  taken out of `WorkIsCovered`; the exception says that it is the only one.
- `refreshClaimLease` budgets with the claim's deadline, which the heartbeat does
  not update (`controller.go:240`): a long failed create is not renewed to be
  destroyed, although the comment at 194 says so.
- Outside of the model: a Complete that commits after its caller gave up and began the
  next attempt (`store_postgres.go:286`); `created_at` (transaction start) compared
  with `completed_at` (042:48); an optional artifact that is never read again
  (`artifact_runtime.go:43`).
- In the model, and no property speaks of them: the object the last attempt created
  just before a crash stays behind (042:73); a non-retryable failure after the bind
  sends a completion that is refused, and the lease has to run out (`controller.go:602`).

**Source bootstrap**

- An allow policy whose POST lands after the lease was lost opens egress again
  (`source_network.go:252-261`); the reset of an abandoned helper can delete
  files another one has verified (`source_materializer.go:316-330`). `EgressIsClosed` and
  `SourcesAreWhole` name these cases.
- exec addresses the Pod by name, so a replacement between preflight and exec confuses
  the record. A torn receipt or marker is refused for ever; a container that
  looks between the creation and the writing of the marker fails the Pod. An
  answer of the release may be lost; the next attempt sees a ready Pod.

**Agent and executor**

- A crash between `markDone` and the save, or between the save of an empty `current` and
  the outbox line, never reports the turn, although `agent.go:57-58` says a
  restart does. The executor ignores `resumed` and uploads a claimed message again, against
  040:219-220; a repeated upload of a consumed item is processed again.
- Request identifiers `m%06d-%d` (`agent.go:330`) are used again by the process that follows
  a crash before the step was saved. The proof of `AnswerFits` showed that after a message that was
  uploaded twice and two crashes such an identifier can name a step of *another* message (TLC
  finds it with two messages, three faults and two restarts). `AnswerFits` names this case
  (`hist.unsaved`); no document promises unique identifiers.
  A failed baseline and a restart give a baseline of the changed tree. A message that
  arrives between drain and finalisation fails the Run. The code allows three restarts, the run one.

**Proxy**

- Router: `prepareStream` indexes an empty list when the first usable line is only
  reasoning; a forbidden fallback names the next route that was never tried
  (`upstream.go:37`); a finished live stream is reported as cancelled (`handler.go:180`
  compares nil with nil); index hints overwrite the tool indexes of chat over
  responses; a second message moves the text index; a deadline inside `Do` gives an
  event that validation drops; 413 becomes `policy_denied`; an error of `finish` leaves
  the client's stream without a terminator.
- Activation: what a lost reservation leaves behind is recovered by the next
  command only; nothing runs on its own.

**CLI authentication.** A login that has lost its fence and cannot revoke what it was
given keeps it, over a session another process may have stored meanwhile, which the
check at `service.go:213` refuses otherwise. `LiveIsReachable` names this case (`retained`).

**Node.** An enroll that is run again drops the pending join (`service.go:122`), and a
later recover confirms without consuming it; an uninstall cannot resume once the cluster was left
(comment at `state.go:60-61`); `AbortIncompleteJoin` ignores the binding it is given, so a
joined host can be called removed; exit status 1 of kubectl on an unreachable API is taken
for absence; a crash can lock the daemon out (`production_helper.go:165-167`);
recovering forward never saves the runtime binding; recovery of an install whose terminal
receipt was signed but not journaled signs a second one (`installer.go:303` returns the
first only for an uninstall), which the helper refuses once the plan has expired
(`platform_authority.go:471`), so that clean-up cannot end: `WritesStayAuthorized` names this case
(`SignedAgain`); an enroll that finds a log beside an active receipt leaves it there; an expired plan blocks forward
verification; every fresh-mode repair fails in Verify, and its rollback does not
restore capacity.

**Issuer.** After a revoked or failed issuance a retry collides with its own token until
MicroK8s purges it; a record whose token was revoked is handed out again until it expires; a late
retire puts a name on the list that was issued again; retire deletes by name, not by
the UID it checked (`backend.go:229`). The documents disagree about the registration guard:
`backend.go:235-236` says that it "refuses a Node created by a node credential under a name in
retiredNodeNames", and `docs/node-restriction-design.md:170-172` that "refusing that name at
creation is enough to keep a retired machine out"; the manifests ignore failures and only warn
and audit, and `docs/delivery/hosting-runbook.md:208-209` says of both policies that "they cannot
reject or delay a request". The model follows the manifests: a retired machine can come back
under its name, and `ReturnIsNoticed` says that it is flagged; that no such Node exists is
violated. An issue that fails after `ClearRetiredName` (`service.go:136`) leaves the name off
the list although no credential exists; from then on nothing is promised about it.

**Harness worker.** A write after an unconfirmed wait loses its record or panics on the
closed queue (`adapter.go:296-303`); one scan of `/proc` can miss a process that forks, which the
two quiet rounds are for; `send` chooses at random between queue and cancellation, so
a clean cancel is often reported as recovery_required; after SIGTERM the result is
usually not written (`protocol.go:71-84`); a descendant that holds stdout delays the
end until the timeout.

## 6. Plan

Done: all modules above, and a proof of every safety property of theirs. Next:
`AgentRunQueue`, the claim, the attempts and the sweeper of Agent Runs (038).

## 7. Not modelled, and why

- The queue side of Agent Runs (038): claims, attempts and binding to a sandbox; its fences
  are those of `SandboxQueue` over other rows. Planned.
- Development builds: a lease-based queue of the same shape over its own
  rows, and the export of an evidence bundle to a new directory.
- The plugin store and broker: install, rollback and remove replace one receipt by a
  rename under a lock file; the broker forwards one request at a time to the API.
- Workspaces, projects, harness registry and the Node broker: rows changed in single
  transactions; the broker's answers appear in `NodeInstall`.
- The Node daemon's heartbeat, adopt mode, macOS and a second enrollment of one host.
- HTTP routing, rendering and validation of manifests, object storage and exec
  transport, CLI output and generated clients: I/O or conversion of data;
  their failures are single steps of the modules above.
