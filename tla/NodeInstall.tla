---------------------------- MODULE NodeInstall -----------------------------
(***************************************************************************)
(* The lifecycle of a node on its host (internal/node): the commands       *)
(* enroll, recover, repair and uninstall, the installer's write-ahead log  *)
(* and signed receipt, the service's runtime record, the uninstall cleanup *)
(* journal, the root helper's authority and the control API's Node.        *)
(*                                                                         *)
(* One command runs at a time (the install and runtime locks).  A step is  *)
(* one call of the root helper or of the API together with the write that  *)
(* records its success.  A step may fail before, during or after the call, *)
(* and the process may crash there; the plan may expire at any time.       *)
(* Fresh mode on Linux, one enrollment.                                    *)
(***************************************************************************)
EXTENDS NodeHost

CONSTANTS None,         \* absent
          MaxCommands,  \* bound: commands given
          MaxFaults     \* bound: failed calls and crashes

VARIABLES host,     \* see NodeHost
          wal,      \* install-wal.json, or None
          receipt,  \* install-receipt.json, or None
          runtime,  \* runtime.json, or None
          identity, \* whether identity.json holds the key that the API knows
          journal,  \* whether uninstall-cleanup.json exists
          server,   \* the control API's Node and the receipt it activated
          expired,  \* whether the plan and the identity have expired
          cmd,      \* the running command and its memory
          spent     \* how much of each bound is used

vars == <<host, wal, receipt, runtime, identity, journal, server, expired, cmd, spent>>

-----------------------------------------------------------------------------
(* The files, the API's Node and the command in memory.  A log entry holds *)
(* the state captured before its mutation; `terminal` tells the signed     *)
(* terminal receipts of a log apart, 0 is none.                            *)
Status == {"pending", "applied", "removed", "residue"}
PackageState == {"none", "prior", "signed", "other"}
ServiceState == {"none", "enabled", "running"}
Entry == [status : Status, prior : PackageState \cup ServiceState \cup NodeState]
Entries == {s \in Seq(Entry) : Len(s) <= 3}
Receipt == [state : {"active", "removed", "recovery_required"}, kept : BOOLEAN, entries : Entries]
Log == [life : {"install", "repair", "uninstall"}, stage : 1 .. 4, verifying : BOOLEAN,
        left : BOOLEAN, residue : BOOLEAN, kept : BOOLEAN, cleanup : 0 .. 3, terminal : 0 .. 2,
        original : Receipt \cup {None}, entries : Entries]
Runtime == [bound : BOOLEAN, grant : {"none", "current", "stale"}, pending : BOOLEAN]
Server == [state : {"none", "installing", "verifying", "active", "removed"},
           receipt : {"none", "current", "stale"}]
Op == {"none", "enroll", "recover", "repair", "uninstall"}
PC == {"idle", "prepare", "restore", "begin", "exchange", "authorize", "runtime", "install",
       "load", "probe", "create", "capture", "apply", "issue", "join", "check", "confirm",
       "verify", "complete", "receipt", "unwal", "unwal_last", "bind", "activate", "recheck",
       "release", "finalize", "reconcile", "settle", "rollback", "undo", "rolled", "journal",
       "resume", "support", "retire", "forget", "terminal", "unwal_end", "unjournal"}
Command == [op : Op, pc : PC, i : 0 .. 4, joined : BOOLEAN, confirmed : BOOLEAN,
            handed : BOOLEAN, own : BOOLEAN]

(* An absent file is told from every record. *)
ASSUME NoneIsNoRecord == None \notin Log \cup Receipt \cup Runtime

(* The type invariant. *)
TypeOK ==
    /\ host \in Host
    /\ wal \in Log \cup {None}
    /\ receipt \in Receipt \cup {None}
    /\ runtime \in Runtime \cup {None}
    /\ server \in Server
    /\ identity \in BOOLEAN /\ journal \in BOOLEAN /\ expired \in BOOLEAN
    /\ cmd \in Command
    /\ spent \in [commands : Nat, faults : Nat]

-----------------------------------------------------------------------------
Lifecycle == [enroll |-> "install", repair |-> "repair", uninstall |-> "uninstall"]

Idle == [op |-> "none", pc |-> "idle", i |-> 0, joined |-> FALSE, confirmed |-> FALSE,
         handed |-> FALSE, own |-> FALSE]

Init ==
    /\ \E original \in {"none", "prior"} : host = FreshHost(original)
    /\ wal = None /\ receipt = None /\ runtime = None
    /\ identity = FALSE /\ journal = FALSE /\ expired = FALSE
    /\ server = [state |-> "none", receipt |-> "none"]
    /\ cmd = Idle
    /\ spent = [commands |-> 0, faults |-> 0]

-----------------------------------------------------------------------------
(* Helpers.                                                                *)
Fault == spent.faults < MaxFaults /\ spent' = [spent EXCEPT !.faults = @ + 1]

At(pc) == cmd.pc = pc
Goto(pc) == [cmd EXCEPT !.pc = pc]
Loop(pc, i) == [cmd EXCEPT !.pc = pc, !.i = i]

Active == receipt # None /\ receipt.state = "active"
Removed == receipt # None /\ receipt.state = "removed"

(* A failed command other than enroll hands the service state back.        *)
restoreAfterFailure == IF cmd.handed /\ cmd.op # "enroll" THEN Goto("restore") ELSE Idle

(* A failed step of Install or Repair rolls back; of Recover it does not.  *)
failAndRollback == IF cmd.own THEN Goto("rollback") ELSE restoreAfterFailure

(* A write that fails: the file may or may not have been replaced.         *)
WriteFails(failed) == Fault /\ cmd' \in {failed, Idle}

-----------------------------------------------------------------------------
(* What the root helper authorizes.  Once the plan has expired only work   *)
(* backed by the receipt or by the write-ahead log is left.                *)
verifyActivationRecoveryEvidence ==
    Active /\ host.bound /\ runtime # None /\ runtime.grant = "current"

authorizeReceiptBoundRecovery(operation) ==
    CASE operation \in {"release_capacity", "verify_grant"} -> verifyActivationRecoveryEvidence
      [] operation = "create_wal" -> cmd.op = "uninstall" /\ Active
      [] wal = None -> operation \in {"finalize", "remove_support"} /\ receipt # None
      [] operation = "leave_cluster" -> wal.life = "uninstall"
      [] operation \in {"abort_join", "quarantine_join"} -> wal.life = "install"
      [] OTHER -> operation \in {"probe", "rollback", "load_wal", "finalize", "remove_support"}

AuthorizeRootRequest(operation) ==
    host.authority /\ (expired => authorizeReceiptBoundRecovery(operation))

(* A call of the helper that succeeds, and one that does not: refused, or  *)
(* broken off with the host in any of the states in `partly`.              *)
Performs(operation, ok, after) ==
    /\ AuthorizeRootRequest(operation) /\ ok
    /\ host' = after
    /\ UNCHANGED spent

Interrupted(operation, partly, failed) ==
    /\ Fault
    /\ host' \in {host} \cup IF AuthorizeRootRequest(operation) THEN partly ELSE {}
    /\ cmd' \in {failed, Idle}

Breaks(operation, ok, partly, failed) ==
    \/ /\ ~(AuthorizeRootRequest(operation) /\ ok)
       /\ cmd' = failed
       /\ UNCHANGED <<host, spent>>
    \/ Interrupted(operation, partly, failed)

(* A read of the helper, which changes nothing.                            *)
Reads(operation, ok, next, failed) ==
    /\ cmd' = IF AuthorizeRootRequest(operation) /\ ok THEN next ELSE failed
    /\ UNCHANGED <<host, wal, receipt, runtime, identity, journal, server, expired, spent>>

KeepFiles == UNCHANGED <<wal, receipt, runtime, identity, journal, server, expired>>

-----------------------------------------------------------------------------
(* The write-ahead log and the receipts signed from it.                    *)
NewWAL ==
    [life |-> Lifecycle[cmd.op],
     stage |-> IF cmd.op = "uninstall" THEN 3 ELSE 1,
     verifying |-> FALSE, left |-> FALSE, residue |-> FALSE, kept |-> FALSE,
     cleanup |-> 0, terminal |-> 0,
     original |-> IF cmd.op = "enroll" THEN None ELSE receipt,
     entries |-> IF cmd.op = "uninstall" THEN receipt.entries ELSE <<>>]

(* Uninstall without --remove-managed-runtime passes over the package.     *)
KeepRuntime(w) == [w EXCEPT !.kept = TRUE, !.entries[1].status = "removed"]

Journaled(w, m) ==
    [w EXCEPT !.entries = Append(@, [status |-> "pending", prior |-> Captured(host, m)]),
              !.stage = IF w.life = "install" THEN 2 ELSE @]

Marked(w, k, status) ==
    [w EXCEPT !.entries[k].status = status, !.residue = @ \/ status = "residue"]

allMutationStatuses(entries, status) == \A k \in DOMAIN entries : entries[k].status = status

(* Recover: whether an install goes forward.                               *)
Forward(w) == w.stage = 4 \/ (w.verifying /\ allMutationStatuses(w.entries, "applied"))

signedReceipt(w, state) ==
    [state |-> state, kept |-> w.kept,
     entries |-> IF w.life = "repair"
                 THEN [k \in DOMAIN w.original.entries |->
                          [w.original.entries[k] EXCEPT !.status = "applied"]]
                 ELSE w.entries]

(* A newly signed active receipt has another digest than the one that the  *)
(* server activated.                                                       *)
Outdated(x) == IF x = "current" THEN "stale" ELSE x

(* validExpiredWALTransition with validWALStatusTransition and             *)
(* monotonicWALCheckpoint: how a log may change once the plan has expired. *)
validWALStatusTransition(before, after) ==
    \/ before = after
    \/ before = "pending" /\ after \in {"applied", "removed", "residue"}
    \/ before = "applied" /\ after \in {"removed", "residue"}

monotonicWALCheckpoint(v, w) == w.cleanup >= v.cleanup /\ (v.verifying => w.verifying)

terminalReceiptMatchesWAL(r, w) ==
    /\ r.entries = w.entries
    /\ IF r.state = "active"
       THEN ~w.residue /\ w.stage = 4 /\ allMutationStatuses(w.entries, "applied")
       ELSE r.state = IF w.residue THEN "recovery_required" ELSE "removed"

validExpiredWALTransition(v, w) ==
    /\ w.life = v.life /\ w.original = v.original /\ w.kept = v.kept
    /\ v.terminal # 0 => w.terminal = v.terminal
    /\ v.left => w.left
    /\ v.residue => w.residue
    /\ v.terminal = 0 /\ w.terminal # 0 => ~w.residue
    /\ w.stage >= v.stage
    /\ monotonicWALCheckpoint(v, w)
    /\ Len(w.entries) \in {Len(v.entries), Len(v.entries) + 1}
    /\ \A k \in DOMAIN v.entries :
          /\ w.entries[k].prior = v.entries[k].prior
          /\ validWALStatusTransition(v.entries[k].status, w.entries[k].status)
    /\ Len(w.entries) > Len(v.entries) => w.entries[Len(w.entries)].status = "pending"

-----------------------------------------------------------------------------
(* A command begins with the hand-over of the service state.               *)
Start(op) ==
    /\ cmd = Idle
    /\ spent.commands < MaxCommands
    /\ spent' = [spent EXCEPT !.commands = @ + 1]
    /\ cmd' = [Idle EXCEPT !.op = op, !.pc = "prepare"]
    /\ UNCHANGED <<host, wal, receipt, runtime, identity, journal, server, expired>>

(* verifyManagementBinaryPin.                                              *)
Pinned == ~Removed /\ (host.authority \/ receipt # None)

Prepare ==
    /\ At("prepare")
    /\ \/ /\ host' = prepareServiceState(host, Pinned)
          /\ cmd' = [Goto("begin") EXCEPT !.handed = TRUE]
          /\ UNCHANGED spent
       \/ /\ Fault
          /\ host' \in {host, snapshotServiceStateOwnership(host, Pinned),
                        prepareServiceState(host, Pinned),
                        IF Pinned THEN removeServiceStateHandoff(host) ELSE host}
          /\ cmd' = Idle
    /\ KeepFiles

Restore ==
    /\ At("restore")
    /\ \/ host' = restoreRecorded(host) /\ UNCHANGED spent
       \/ Fault /\ UNCHANGED host
    /\ cmd' = Idle
    /\ KeepFiles

-----------------------------------------------------------------------------
(* Enroll.                                                                 *)
(* recoverActivatedCapacity, which comes first: a runtime that holds the   *)
(* joined Node goes on from its activation.                                *)
BeginEnroll ==
    /\ At("begin") /\ cmd.op = "enroll"
    /\ cmd' = IF runtime = None \/ ~runtime.bound THEN Goto("exchange")
              ELSE IF receipt = None \/ runtime.grant = "stale" THEN Idle
              ELSE IF runtime.grant = "none" THEN Goto("activate") ELSE Goto("recheck")
    /\ UNCHANGED <<host, wal, receipt, runtime, identity, journal, server, expired, spent>>

(* LoadOrCreate: a key made after the enrollment is not the enrolled one.  *)
LoadOrCreate == identity \/ server.state = "none"

(* The API answers the same exchange again until the join is consumed.     *)
ExchangeOK == ~expired /\ LoadOrCreate /\ server.state \in {"none", "installing"}
ExchangeNodeEnrollment ==
    /\ At("exchange")
    /\ identity' = LoadOrCreate
    /\ \/ /\ ExchangeOK
          /\ server' = [server EXCEPT !.state = "installing"]
          /\ cmd' = Goto("authorize")
          /\ UNCHANGED spent
       \/ ~ExchangeOK /\ cmd' = Idle /\ UNCHANGED <<server, spent>>
       \/ /\ Fault /\ cmd' = Idle
          /\ server' \in {server}
                 \cup IF ExchangeOK THEN {[server EXCEPT !.state = "installing"]} ELSE {}
    /\ UNCHANGED <<host, wal, receipt, runtime, journal, expired>>

AuthorizeBootstrap ==
    /\ At("authorize")
    /\ \/ /\ ExchangeOK
          /\ host' = authorizeBootstrap(host)
          /\ cmd' = Goto("runtime")
          /\ UNCHANGED spent
       \/ ~ExchangeOK /\ cmd' = Idle /\ UNCHANGED <<host, spent>>
       \/ Fault /\ cmd' = Idle /\ host' \in {host, authorizeBootstrap(host)}
    /\ KeepFiles

(* SaveRuntime, with a new record.                                         *)
SaveNewRuntime ==
    LET record == [bound |-> FALSE, grant |-> "none", pending |-> FALSE]
    IN  /\ At("runtime")
        /\ \/ runtime' = record /\ cmd' = Goto("install") /\ UNCHANGED spent
           \/ WriteFails(Idle) /\ runtime' \in {runtime, record}
        /\ UNCHANGED <<host, wal, receipt, identity, journal, server, expired>>

(* Install: an active receipt is only verified again.                      *)
BeginInstall ==
    /\ At("install")
    /\ cmd' = IF receipt = None \/ Removed THEN Goto("probe")
              ELSE IF Active THEN Loop("check", Len(Plan) + 1) ELSE Idle
    /\ UNCHANGED <<host, wal, receipt, runtime, identity, journal, server, expired, spent>>

-----------------------------------------------------------------------------
(* Recover, Repair, Uninstall: what is there to go on with.                *)
boundRuntime == runtime # None /\ identity
trustedActiveReceipt == Active

BeginLifecycle ==
    /\ At("begin") /\ cmd.op # "enroll"
    /\ cmd' = IF cmd.op # "repair" /\ journal THEN Goto("resume")
              ELSE IF ~boundRuntime THEN restoreAfterFailure
              ELSE IF cmd.op # "repair" THEN Goto("load")
              ELSE IF ~expired /\ trustedActiveReceipt THEN Goto("create") ELSE restoreAfterFailure
    /\ UNCHANGED <<host, wal, receipt, runtime, identity, journal, server, expired, spent>>

LoadWAL ==
    /\ At("load")
    /\ Reads("load_wal", TRUE,
             IF cmd.op = "recover"
             THEN IF wal = None THEN restoreAfterFailure ELSE Goto("probe")
             ELSE IF wal # None /\ wal.life = "uninstall"
             THEN IF wal.terminal # 0 THEN Goto("journal") ELSE Goto("probe")
             ELSE IF trustedActiveReceipt THEN Goto("create") ELSE restoreAfterFailure,
             restoreAfterFailure)

(* Preflight: the helper's probe also tells which Node is joined.          *)
Preflight ==
    /\ At("probe")
    /\ LET next == CASE cmd.op = "enroll" -> "create" [] cmd.op = "repair" -> "capture"
                     [] cmd.op = "recover" -> "reconcile" [] OTHER -> "rollback"
       IN  Reads("probe", ProbeOK(host),
                 [Goto(next) EXCEPT !.joined = host.bound, !.i = 1],
                 restoreAfterFailure)

CreateWAL ==
    /\ At("create")
    /\ \/ /\ wal = None /\ AuthorizeRootRequest("create_wal")
          /\ \/ wal' = NewWAL
             \/ cmd.op = "uninstall" /\ wal' = KeepRuntime(NewWAL)
          /\ cmd' = [Goto(IF cmd.op = "enroll" THEN "capture" ELSE "probe")
                        EXCEPT !.own = (cmd.op # "uninstall")]
          /\ UNCHANGED spent
       \/ /\ wal # None \/ ~AuthorizeRootRequest("create_wal")
          /\ cmd' = restoreAfterFailure
          /\ UNCHANGED <<wal, spent>>
       \/ /\ wal = None /\ AuthorizeRootRequest("create_wal")
          /\ WriteFails(restoreAfterFailure)
          /\ wal' \in {wal, NewWAL}
    /\ UNCHANGED <<host, receipt, runtime, identity, journal, server, expired>>

-----------------------------------------------------------------------------
(* The mutations, in the order of the plan.                                *)
(* Capture; ensureJoined comes before the first cluster mutation.          *)
Capture ==
    /\ At("capture")
    /\ IF cmd.i > Len(Plan) THEN cmd' = Goto("check") /\ UNCHANGED <<host, wal, spent>>
       ELSE IF Plan[cmd.i] = "taint" /\ ~cmd.joined
       THEN cmd' = Goto("issue") /\ UNCHANGED <<host, wal, spent>>
       ELSE \/ /\ Performs("capture", CaptureOK(host, Plan[cmd.i]), host)
               /\ wal' = Journaled(wal, Plan[cmd.i])
               /\ cmd' = Goto("apply")
            \/ /\ Breaks("capture", CaptureOK(host, Plan[cmd.i]), {}, failAndRollback)
               /\ UNCHANGED wal
    /\ UNCHANGED <<receipt, runtime, identity, journal, server, expired>>

Apply ==
    LET m == Plan[cmd.i]
    IN  /\ At("apply")
        /\ \/ /\ Performs("apply", ApplyOK(host, m), Applied(host, m))
              /\ wal' = Marked(wal, cmd.i, "applied")
              /\ cmd' = Loop("capture", cmd.i + 1)
           \/ /\ Breaks("apply", ApplyOK(host, m), {Applied(host, m)}, failAndRollback)
              /\ UNCHANGED wal
        /\ UNCHANGED <<receipt, runtime, identity, journal, server, expired>>

(* WorkerCredential: the issuance is kept before the host joins.           *)
WorkerCredential ==
    LET issued == [runtime EXCEPT !.pending = TRUE]
    IN  /\ At("issue")
        /\ \/ /\ server.state = "installing" /\ ~expired
              /\ runtime' = issued /\ cmd' = Goto("join")
              /\ UNCHANGED spent
           \/ /\ server.state # "installing" \/ expired
              /\ cmd' = failAndRollback
              /\ UNCHANGED <<runtime, spent>>
           \/ WriteFails(failAndRollback) /\ runtime' \in {runtime, issued}
        /\ UNCHANGED <<host, wal, receipt, identity, journal, server, expired>>

EnsureJoined ==
    /\ At("join")
    /\ \/ /\ Performs("join", JoinOK(host), Joined(host))
          /\ cmd' = [Goto("capture") EXCEPT !.joined = TRUE]
       \/ Breaks("join", JoinOK(host),
                 JoinPartly(host) \cup (IF JoinOK(host) THEN {Joined(host)} ELSE {}),
                 failAndRollback)
    /\ KeepFiles

(* Verify: the checkpoint, the consumption of the join, the helper.        *)
Checkpoint ==
    LET next == IF ~cmd.joined THEN Goto("issue")
                ELSE IF cmd.confirmed THEN Goto("verify") ELSE Goto("confirm")
        saved == [wal EXCEPT !.verifying = TRUE]
    IN  /\ At("check")
        /\ IF cmd.op = "enroll" /\ cmd.own /\ cmd.joined
           THEN \/ wal' = saved /\ cmd' = next /\ UNCHANGED spent
                \/ WriteFails(failAndRollback) /\ wal' \in {wal, saved}
           ELSE cmd' = next /\ UNCHANGED <<wal, spent>>
        /\ UNCHANGED <<host, receipt, runtime, identity, journal, server, expired>>

(* ConfirmJoined, from Verify and from recovery.                           *)
ConfirmOK == runtime # None /\ runtime.pending /\ server.state \in {"installing", "verifying"}
Consumed == [server EXCEPT !.state = "verifying"]
ConfirmJoined(next, failed) ==
    \/ /\ ConfirmOK
       /\ server' = Consumed /\ runtime' = [runtime EXCEPT !.pending = FALSE]
       /\ cmd' = [next EXCEPT !.confirmed = TRUE]
       /\ UNCHANGED spent
    \/ ConfirmOK /\ WriteFails(failed) /\ server' \in {server, Consumed} /\ UNCHANGED runtime

Confirm ==
    /\ At("confirm")
    /\ \/ ConfirmJoined(Goto("verify"), failAndRollback)
       \/ ~ConfirmOK /\ cmd' = failAndRollback /\ UNCHANGED <<runtime, server, spent>>
    /\ UNCHANGED <<host, wal, receipt, identity, journal, expired>>

Verify ==
    /\ At("verify")
    /\ \/ /\ Performs("verify", VerifyOK(host), updateRootKubernetesBinding(host))
          /\ cmd' = IF cmd.op = "enroll" /\ ~cmd.own THEN Goto("bind") ELSE Goto("complete")
       \/ Breaks("verify", VerifyOK(host), {}, failAndRollback)
    /\ KeepFiles

Complete ==
    LET saved == [wal EXCEPT !.stage = 4, !.verifying = TRUE]
    IN  /\ At("complete")
        /\ \/ wal' = saved /\ cmd' = Goto("receipt") /\ UNCHANGED spent
           \/ WriteFails(restoreAfterFailure) /\ wal' \in {wal, saved}
        /\ UNCHANGED <<host, receipt, runtime, identity, journal, server, expired>>

(* SaveReceipt of an active receipt signed from the completed log.         *)
Publish ==
    /\ receipt' = signedReceipt(wal, "active")
    /\ runtime' = [runtime EXCEPT !.grant = Outdated(@)]
    /\ server' = [server EXCEPT !.receipt = Outdated(@)]

PublishActive ==
    /\ At("receipt")
    /\ \/ Publish /\ UNCHANGED spent
          /\ cmd' = IF cmd.op = "recover" THEN Goto("finalize") ELSE Goto("unwal")
       \/ /\ WriteFails(restoreAfterFailure)
          /\ Publish \/ UNCHANGED <<receipt, runtime, server>>
    /\ UNCHANGED <<host, wal, identity, journal, expired>>

RemoveWAL ==
    /\ At("unwal") \/ At("unwal_last")
    /\ \/ /\ wal' = None
          /\ cmd' = IF At("unwal_last")
                    THEN IF cmd.op = "recover" THEN Idle ELSE restoreAfterFailure
                    ELSE IF cmd.op = "enroll" THEN Goto("bind") ELSE Goto("finalize")
          /\ UNCHANGED spent
       \/ WriteFails(restoreAfterFailure) /\ wal' \in {wal, None}
    /\ UNCHANGED <<host, receipt, runtime, identity, journal, server, expired>>

-----------------------------------------------------------------------------
(* Activation and capacity.                                                *)
BindRuntime ==
    LET record == [bound |-> TRUE, grant |-> "none", pending |-> FALSE]
    IN  /\ At("bind")
        /\ \/ runtime' = record /\ cmd' = Goto("activate") /\ UNCHANGED spent
           \/ WriteFails(Idle) /\ runtime' \in {runtime, record}
        /\ UNCHANGED <<host, wal, receipt, identity, journal, server, expired>>

ActivateOK ==
    /\ Active /\ identity
    /\ server.state = "verifying" \/ server = [state |-> "active", receipt |-> "current"]
Activated == [state |-> "active", receipt |-> "current"]
Granted == [runtime EXCEPT !.grant = "current"]

(* Mutant of ActivateNode: the capacity is released first, the grant that  *)
(* allows it is kept afterwards.                                           *)
ActivateUnkept ==
    /\ At("activate") /\ ActivateOK
    /\ server' = Activated /\ host' = releaseNodeCapacity(host)
    /\ cmd' = Goto(IF cmd.joined THEN "release" ELSE "recheck")
    /\ UNCHANGED <<runtime, wal, receipt, identity, journal, expired, spent>>

ActivateNode ==
    /\ At("activate")
    /\ \/ /\ ActivateOK
          /\ server' = Activated /\ runtime' = Granted
          /\ cmd' = Goto(IF cmd.joined THEN "release" ELSE "recheck")
          /\ UNCHANGED spent
       \/ ~ActivateOK /\ cmd' = Idle /\ UNCHANGED <<server, runtime, spent>>
       \/ ActivateOK /\ WriteFails(Idle) /\ server' \in {server, Activated} /\ UNCHANGED runtime
    /\ UNCHANGED <<host, wal, receipt, identity, journal, expired>>

RecoverActivatedCapacity ==
    /\ At("recheck")
    /\ Reads("verify_grant", verifyActivatedCapacityState(host),
             [Goto("release") EXCEPT !.joined = TRUE], Idle)

ReleaseNodeCapacity ==
    LET ok == verifyActivationRecoveryEvidence /\ Observable(host)
    IN  /\ At("release")
        /\ \/ /\ Performs("release_capacity", ok, releaseNodeCapacity(host))
              /\ cmd' = Goto("finalize")
           \/ Interrupted("release_capacity", IF ok THEN {releaseNodeCapacity(host)} ELSE {}, Idle)
        /\ KeepFiles

(* FinalizeServiceState ends enroll, which leaves alone a log that it      *)
(* found, and repair; in recovery and after a failed repair the log is     *)
(* removed last.                                                           *)
FinalizeServiceState ==
    /\ At("finalize")
    /\ \/ /\ Performs("finalize", FinalizeOK(host), finalizeServiceState(host))
          /\ cmd' = IF wal = None \/ cmd.op = "enroll" THEN Idle ELSE Goto("unwal_last")
       \/ Breaks("finalize", FinalizeOK(host),
                 FinalizePartly(host)
                     \cup (IF FinalizeOK(host) THEN {finalizeServiceState(host)} ELSE {}),
                 restoreAfterFailure)
    /\ KeepFiles

-----------------------------------------------------------------------------
(* Recover.                                                                *)
ReconcileRecovery ==
    /\ At("reconcile")
    /\ IF cmd.joined THEN cmd' = Goto("settle") /\ UNCHANGED <<host, spent>>
       ELSE \/ /\ Performs("abort_join", AbortJoinOK(host), AbortJoin(host))
               /\ cmd' = [Goto("settle") EXCEPT !.joined = host'.bound]
            \/ /\ Fault /\ AuthorizeRootRequest("abort_join") /\ AbortJoinOK(host)
               /\ host' = AbortJoinUnanswered(host)
               /\ cmd' = [Goto("settle") EXCEPT !.joined = host'.bound]
            \/ Breaks("abort_join", AbortJoinOK(host), {AbortJoin(host)}, restoreAfterFailure)
    /\ KeepFiles

(* The pending issuance is consumed for a joined Node, else dropped; then  *)
(* the log says which way to go.                                           *)
NextOfRecovery ==
    IF wal.life = "repair"
    THEN IF wal.stage = 4 THEN Goto("receipt") ELSE Goto("rollback")
    ELSE IF wal.life = "uninstall" /\ wal.terminal # 0 THEN Goto("journal")
    ELSE IF wal.life = "install" /\ Forward(wal)
    THEN IF wal.stage = 4 THEN Goto("receipt") ELSE Loop("check", Len(Plan) + 1)
    ELSE Goto("rollback")

SettleJoin ==
    LET cleared == [runtime EXCEPT !.pending = FALSE]
        next == [NextOfRecovery EXCEPT !.confirmed = cmd.joined]
    IN  /\ At("settle")
        /\ IF ~runtime.pending THEN cmd' = next /\ UNCHANGED <<runtime, server, spent>>
           ELSE IF cmd.joined THEN ConfirmJoined(NextOfRecovery, restoreAfterFailure)
           ELSE /\ UNCHANGED server
                /\ \/ runtime' = cleared /\ cmd' = next /\ UNCHANGED spent
                   \/ WriteFails(restoreAfterFailure) /\ runtime' \in {runtime, cleared}
        /\ UNCHANGED <<host, wal, receipt, identity, journal, expired>>

-----------------------------------------------------------------------------
(* rollback, in the reverse order of the plan.                             *)
(* Mutant of BeginRollback: a retry starts without the old residues.       *)
RollbackAfresh ==
    /\ At("rollback")
    /\ wal' = [wal EXCEPT !.stage = 3, !.residue = FALSE]
    /\ cmd' = Loop("undo", Len(wal.entries))
    /\ UNCHANGED <<host, receipt, runtime, identity, journal, server, expired, spent>>

BeginRollback ==
    LET saved == [wal EXCEPT !.stage = 3]
    IN  /\ At("rollback")
        /\ \/ wal' = saved /\ cmd' = Loop("undo", Len(wal.entries)) /\ UNCHANGED spent
           \/ WriteFails(restoreAfterFailure) /\ wal' \in {wal, saved}
        /\ UNCHANGED <<host, receipt, runtime, identity, journal, server, expired>>

(* Mutant of Owed: what is not marked applied is taken as not applied.     *)
OwedIfApplied(k) == wal.entries[k].status = "applied"

(* A pending mutation may have been applied before a crash.                *)
Owed(k) == wal.entries[k].status \in {"pending", "applied"}

MustLeave(k) == wal.life = "uninstall" /\ Plan[k] = "package" /\ ~wal.left

LeaveCluster ==
    /\ At("undo") /\ cmd.i > 0 /\ MustLeave(cmd.i)
    /\ \/ /\ Performs("leave_cluster", TRUE, IF cmd.joined THEN leaveCluster(host) ELSE host)
          /\ wal' = [wal EXCEPT !.left = TRUE]
          /\ UNCHANGED cmd
       \/ /\ Interrupted("leave_cluster", {drainNode(host), leaveCluster(host)},
                         restoreAfterFailure)
          /\ UNCHANGED wal
    /\ UNCHANGED <<receipt, runtime, identity, journal, server, expired>>

RollbackMutation ==
    LET k == cmd.i
        before == IF wal.life = "uninstall" /\ Plan[k] = "taint"
                  THEN rebootstrapNode(host) ELSE host
        ok == RollbackOK(host, Plan[k], wal.entries[k].prior)
        after == RolledBack(host, Plan[k], wal.entries[k].prior)
        next == Loop("undo", k - 1)
    IN  /\ At("undo") /\ k > 0 /\ ~MustLeave(k)
        /\ IF ~Owed(k) THEN cmd' = next /\ UNCHANGED <<host, wal, spent>>
           ELSE \/ /\ Performs("rollback", ok, after)
                   /\ wal' = Marked(wal, k, "removed")
                   /\ cmd' = next
                \/ /\ Breaks("rollback", ok, {before} \cup (IF ok THEN {after} ELSE {}), next)
                   /\ wal' = IF cmd' = Idle THEN wal ELSE Marked(wal, k, "residue")
        /\ UNCHANGED <<receipt, runtime, identity, journal, server, expired>>

(* AbortIncompleteJoin: a joined worker stays, quarantined, as a residue.  *)
AbortIncompleteJoin ==
    LET failed == Goto("rolled")
        residue == [wal EXCEPT !.residue = TRUE]
    IN  /\ At("undo") /\ cmd.i = 0
        /\ IF wal.life # "install" THEN cmd' = Goto("rolled") /\ UNCHANGED <<host, wal, spent>>
           ELSE IF cmd.joined
           THEN /\ \/ /\ Performs("quarantine_join", Observable(host), quarantineJoinedNode(host))
                      /\ cmd' = failed
                   \/ Breaks("quarantine_join", Observable(host), {}, failed)
                /\ wal' = IF cmd' = Idle THEN wal ELSE residue
           ELSE \/ /\ Performs("abort_join", AbortJoinOK(host), AbortJoin(host))
                   /\ cmd' = failed
                   /\ UNCHANGED wal
                \/ /\ Breaks("abort_join", AbortJoinOK(host), {AbortJoin(host)}, failed)
                   /\ wal' = IF cmd' = Idle THEN wal ELSE residue
        /\ UNCHANGED <<receipt, runtime, identity, journal, server, expired>>

(* What a finished rollback leaves behind.                                 *)
Outcome(w) == signedReceipt(w, IF w.residue THEN "recovery_required" ELSE "removed")

(* failRepairAndRollback and recoverRepair: the original receipt is back.  *)
FinishRepairRollback ==
    /\ At("rolled") /\ wal.life = "repair"
    /\ IF wal.residue THEN cmd' = restoreAfterFailure /\ UNCHANGED <<receipt, spent>>
       ELSE \/ receipt' = wal.original /\ cmd' = Goto("finalize") /\ UNCHANGED spent
            \/ WriteFails(restoreAfterFailure) /\ receipt' \in {receipt, wal.original}
    /\ UNCHANGED <<host, wal, runtime, identity, journal, server, expired>>

(* failAndRollback in enroll, and a rollback that left residues.           *)
FinishRollback ==
    /\ At("rolled") /\ wal.life # "repair"
    /\ cmd.op = "enroll" \/ wal.residue
    /\ \/ /\ receipt' = Outcome(wal) /\ UNCHANGED spent
          /\ cmd' = IF wal.residue THEN restoreAfterFailure ELSE Goto("unwal_last")
       \/ WriteFails(restoreAfterFailure) /\ receipt' \in {receipt, Outcome(wal)}
    /\ UNCHANGED <<host, wal, runtime, identity, journal, server, expired>>

(* Otherwise the terminal receipt is signed into the log.  Recovery of an  *)
(* install whose terminal receipt was signed but not journaled rolls back  *)
(* and signs again, and the helper refuses to replace a signed receipt     *)
(* once the plan has expired.                                              *)
AnotherReceipt(terminal) == IF terminal = 1 THEN 2 ELSE 1

SignTerminal ==
    LET saved == [wal EXCEPT !.cleanup = 1, !.terminal = AnotherReceipt(@)]
        accepted == expired => validExpiredWALTransition(wal, saved)
    IN  /\ At("rolled") /\ wal.life # "repair"
        /\ cmd.op # "enroll" /\ ~wal.residue
        /\ \/ accepted /\ wal' = saved /\ cmd' = Goto("journal") /\ UNCHANGED spent
           \/ ~accepted /\ cmd' = Idle /\ UNCHANGED <<wal, spent>>
           \/ WriteFails(Idle) /\ wal' \in {wal} \cup IF accepted THEN {saved} ELSE {}
        /\ UNCHANGED <<host, receipt, runtime, identity, journal, server, expired>>

-----------------------------------------------------------------------------
(* resumeUninstallCleanup.                                                 *)
CreateCleanup ==
    /\ At("journal")
    /\ \/ journal' = TRUE /\ cmd' = Goto("resume") /\ UNCHANGED spent
       \/ WriteFails(Idle) /\ journal' \in {journal, TRUE}
    /\ UNCHANGED <<host, wal, receipt, runtime, identity, server, expired>>

CleanupStep ==
    IF wal = None THEN IF Removed THEN Goto("unjournal") ELSE Idle
    ELSE CASE wal.cleanup = 1 -> Goto("support") [] wal.cleanup = 2 -> Goto("retire")
           [] wal.cleanup = 3 -> Goto("terminal") [] OTHER -> Idle

ResumeCleanup ==
    /\ At("resume")
    /\ Reads("load_wal", TRUE, CleanupStep, Idle)

RemoveSupport ==
    /\ At("support")
    /\ \/ /\ Performs("remove_support", TRUE, removeServiceSupport(host))
          /\ wal' = [wal EXCEPT !.cleanup = 2]
          /\ cmd' = Goto("retire")
       \/ Interrupted("remove_support", {removeServiceSupport(host)}, Idle) /\ UNCHANGED wal
    /\ UNCHANGED <<receipt, runtime, identity, journal, server, expired>>

(* retireRemovedNode: the API retires the Node, or refuses definitely: it  *)
(* was never active, or this receipt does not follow the one it knows.     *)
Retirable == server.state = "active" /\ identity
Retired == [server EXCEPT !.state = "removed"]

(* Mutant of RetireRemovedNode: a failed call counts as an answer.         *)
RetireUnanswered ==
    /\ At("retire")
    /\ \/ Retirable /\ server' = Retired /\ UNCHANGED spent
       \/ ~Retirable /\ UNCHANGED <<server, spent>>
       \/ Fault /\ UNCHANGED server
    /\ cmd' = Goto("forget")
    /\ UNCHANGED <<host, wal, receipt, runtime, identity, journal, expired>>

RetireRemovedNode ==
    /\ At("retire")
    /\ \/ Retirable /\ server' = Retired /\ cmd' = Goto("forget") /\ UNCHANGED spent
       \/ /\ ~Retirable \/ server.receipt = "stale"
          /\ cmd' = Goto("forget") /\ UNCHANGED <<server, spent>>
       \/ Fault /\ cmd' = Idle /\ server' \in {server} \cup IF Retirable THEN {Retired} ELSE {}
    /\ UNCHANGED <<host, wal, receipt, runtime, identity, journal, expired>>

(* removeLocalNodeState: the identity, then the runtime.                   *)
RemoveLocalState ==
    /\ At("forget")
    /\ \/ /\ identity' = FALSE /\ runtime' = None
          /\ wal' = [wal EXCEPT !.cleanup = 3]
          /\ cmd' = Goto("terminal")
          /\ UNCHANGED spent
       \/ /\ WriteFails(Idle) /\ UNCHANGED wal
          /\ \/ identity' = FALSE /\ runtime' \in {runtime, None}
             \/ UNCHANGED <<identity, runtime>>
    /\ UNCHANGED <<host, receipt, journal, server, expired>>

PublishTerminal ==
    /\ At("terminal")
    /\ \/ receipt' = Outcome(wal) /\ cmd' = Goto("unwal_end") /\ UNCHANGED spent
       \/ WriteFails(Idle) /\ receipt' \in {receipt, Outcome(wal)}
    /\ UNCHANGED <<host, wal, runtime, identity, journal, server, expired>>

EndCleanup ==
    /\ \/ /\ At("unwal_end")
          /\ \/ wal' = None /\ cmd' = Goto("unjournal") /\ UNCHANGED spent
             \/ WriteFails(Idle) /\ wal' \in {wal, None}
          /\ UNCHANGED journal
       \/ /\ At("unjournal")
          /\ \/ journal' = FALSE /\ UNCHANGED spent
             \/ Fault /\ journal' \in {journal, FALSE}
          /\ cmd' = Idle
          /\ UNCHANGED wal
    /\ UNCHANGED <<host, receipt, runtime, identity, server, expired>>

-----------------------------------------------------------------------------
Expire ==
    /\ ~expired /\ host.authority
    /\ expired' = TRUE
    /\ UNCHANGED <<host, wal, receipt, runtime, identity, journal, server, cmd, spent>>

(* The package changes behind the installer's back.                        *)
Refresh ==
    /\ host.package = "signed" /\ cmd = Idle
    /\ Fault
    /\ host' = Refreshed(host)
    /\ UNCHANGED cmd
    /\ KeepFiles

Next ==
    \/ \E op \in {"enroll", "recover", "repair", "uninstall"} : Start(op)
    \/ Prepare \/ Restore \/ Expire \/ Refresh
    \/ BeginEnroll \/ ExchangeNodeEnrollment \/ AuthorizeBootstrap \/ SaveNewRuntime \/ BeginInstall
    \/ BeginLifecycle \/ LoadWAL \/ Preflight \/ CreateWAL
    \/ Capture \/ Apply \/ WorkerCredential \/ EnsureJoined
    \/ Checkpoint \/ Confirm \/ Verify \/ Complete \/ PublishActive \/ RemoveWAL
    \/ BindRuntime \/ ActivateNode \/ RecoverActivatedCapacity \/ ReleaseNodeCapacity
    \/ FinalizeServiceState
    \/ ReconcileRecovery \/ SettleJoin
    \/ BeginRollback \/ LeaveCluster \/ RollbackMutation \/ AbortIncompleteJoin
    \/ FinishRepairRollback \/ FinishRollback \/ SignTerminal
    \/ CreateCleanup \/ ResumeCleanup \/ RemoveSupport \/ RetireRemovedNode \/ RemoveLocalState
    \/ PublishTerminal \/ EndCleanup

Spec == Init /\ [][Next]_vars

-----------------------------------------------------------------------------
(* Nothing that the installer put on the host is without a record: while   *)
(* it differs from what was there before, a log entry that is still owed,  *)
(* a residue, or an active receipt (or one that says the runtime was kept) *)
(* accounts for it, across every crash between the change and its record.  *)
(* So a host whose receipt says removed is what it was before enrollment,  *)
(* the runtime that uninstall keeps apart: the daemon is off, its sudo     *)
(* policy is gone and the Node takes no work.                              *)
Accounted(k) ==
    \/ /\ wal # None /\ wal.life = "install" /\ k <= Len(wal.entries)
       /\ wal.entries[k].status # "removed"
    \/ wal # None /\ wal.life # "install"
    \/ receipt # None /\ (receipt.state # "removed" \/ (receipt.kept /\ Plan[k] = "package"))

EveryChangeIsOwned ==
    /\ host.package # host.original => Accounted(1)
    /\ host.service # "none" => Accounted(2)
    /\ Removed /\ wal = None => ~host.policy /\ host.node # "released"

(* A Node takes work only while the server's activation grant is on disk:  *)
(* otherwise a crash would leave capacity that no later command can trace  *)
(* to an activation (Service.Enroll keeps the grant before the release).   *)
CapacityNeedsGrant ==
    host.node = "released" => /\ server.state = "active"
                              /\ runtime # None /\ runtime.grant # "none"

(* The identity that signs the retirement is forgotten only once the API   *)
(* has retired the Node or refused for good (retireRemovedNode).           *)
RetiredBeforeForgotten ==
    server.state = "active" /\ ~identity => server.receipt = "stale"

(* Every write of the log or of a receipt is one that the helper would     *)
(* still accept after the plan has expired (validExpiredWALTransition,     *)
(* terminalReceiptMatchesWAL), so expiry never stops a command or a        *)
(* recovery between two writes.  The one exception is the second signature *)
(* of a rolled back install, which is only made before.  A repair only     *)
(* publishes active receipts.                                              *)
SignedAgain(v, w) ==
    v.life = "install" /\ v.terminal # 0 /\ w = [v EXCEPT !.terminal = AnotherReceipt(@)]

WritesStayAuthorized ==
    [][wal # None =>
          /\ wal' # None => \/ validExpiredWALTransition(wal, wal')
                            \/ ~expired /\ SignedAgain(wal, wal')
          /\ receipt' # receipt =>
                IF wal.life = "repair" THEN receipt'.state = "active"
                ELSE terminalReceiptMatchesWAL(receipt', wal)]_vars
=============================================================================
