--------------------------- MODULE MicroK8sIssuer ---------------------------
(***************************************************************************)
(* The worker credential issuer of a MicroK8s cluster                      *)
(* (internal/microk8sissuer): its durable issuance records, the token file *)
(* it shares with MicroK8s, and the Node object and the list of retired    *)
(* names it maintains for one Node name.                                   *)
(*                                                                         *)
(*   issue    check -> (revoke) -> clear -> pending -> add -> record       *)
(*   revoke   revoke -> expire -> revoked                                  *)
(*   retire   get -> list -> delete                                        *)
(*   assign, hold, drain, rebootstrap      get -> patch                    *)
(*                                                                         *)
(* One operation runs at a time (the flock of Service.locked).  Between    *)
(* its steps MicroK8s, the worker and administrators act; a command or a   *)
(* write may fail, with or without its effect, and the process may crash   *)
(* or run out of its deadline.  A token is a function of its request.      *)
(***************************************************************************)
EXTENDS Naturals, Sequences, FiniteSets

CONSTANTS Issuance,    \* issuance identifiers
          Term,        \* what else a request binds (its lifetime)
          Workspace,   \* workspaces a Node can be bound to
          None,        \* absent
          MaxFaults,   \* bound: failures and crashes
          MaxChanges,  \* bound: steps of MicroK8s, workers and administrators
          MaxUid       \* bound: Nodes registered under the name

VARIABLES state,     \* [Issuance -> its durable record, or None]
          file,      \* cluster-tokens.txt: a sequence of lines
          node,      \* the Node object of the name, or None
          registry,  \* the registration ConfigMap, or None
          op,        \* the running operation
          bound,     \* UIDs that observe has reported
          gone,      \* history: a Node was retired, no issue has cleared the name since
          appended,  \* history: how many lines MicroK8s appended by itself
          uids,      \* how many Nodes were registered
          spent      \* how much of each bound is used

vars == <<state, file, node, registry, op, bound, gone, appended, uids, spent>>

Request == [id : Issuance, term : Term]
Status == {"pending", "issued", "revoke_required", "revoked"}
Reason == {"none", "paused", "offline"}
Line == [token : Request \cup {None}, expiry : {"future", "past", "never"}]
(* The Node: its markers, labels and taints, and, as history, whether the  *)
(* registration guard flagged its creation.                                *)
Node == [uid : 1 .. MaxUid, role : {"plain", "blazn", "master"},
         boot : {"none", "pending", "foreign"}, ws : Workspace \cup {None},
         eligible : {"none", "true", "other"}, unschedulable : BOOLEAN, retired : BOOLEAN,
         hold : Reason, flagged : BOOLEAN]
durableState == [req : Request, status : Status, fresh : BOOLEAN]

ASSUME NoneAssumption == None \notin Request \cup Node \cup durableState
ASSUME UidAssumption == MaxUid \in Nat

(* An operation: its kind, its position, what it was asked, the offset of  *)
(* the token it is about to expire (0: the file was replaced), where the   *)
(* revocation came from, and whether the Node changed since it was read.   *)
Idle == [kind |-> "none", step |-> "idle", arg |-> None, at |-> 0, from |-> "none", stale |-> FALSE]

Init ==
    /\ state = [i \in Issuance |-> None]
    /\ file = << >> /\ node = None /\ op = Idle
    /\ registry \in {None} \cup [listed : {FALSE}, host : BOOLEAN]
    /\ bound = {} /\ gone = FALSE /\ appended = 0 /\ uids = 0
    /\ spent = [faults |-> 0, changes |-> 0]

At(kind, step) == op.kind = kind /\ op.step = step
Goto(step) == op' = [op EXCEPT !.step = step]
Done == op' = Idle

Fault == /\ spent.faults < MaxFaults /\ spent' = [spent EXCEPT !.faults = @ + 1]
Change == /\ spent.changes < MaxChanges /\ spent' = [spent EXCEPT !.changes = @ + 1]
Works == UNCHANGED spent

-----------------------------------------------------------------------------
(* The token file.  parseTokenFile finds the line of a token.              *)

Lines(token) == {k \in 1 .. Len(file) : file[k].token = token}
Live(token) == \E k \in Lines(token) : file[k].expiry = "future"

(* Where a revocation leads (issue, recordFailedIssue, revoke, and the     *)
(* failed write of an issued record, which ignores how it went).           *)
Revoked == IF op.from = "drop" THEN Done
           ELSE Goto([retry |-> "clear", failed |-> "notePending", revoke |-> "revoked"][op.from])
NotRevoked == IF op.from = "failed" THEN Goto("noteRequired") ELSE Done

(* MicroK8sBackend.Revoke up to the write: open, lock, read and parse.     *)
RevokeRead ==
    /\ op.step = "revoke"
    /\ \/ /\ Works
          /\ IF Lines(op.arg) = {} THEN Revoked
             ELSE op' = [op EXCEPT !.step = "expire", !.at = CHOOSE k \in Lines(op.arg) : TRUE]
       \/ Fault /\ NotRevoked
    /\ UNCHANGED <<state, file, node, registry, bound, gone, appended, uids>>

Expired(lines, k) == [lines EXCEPT ![k].expiry = "past"]

(* Mutant of expireTokenInPlace: the file is written back up to the line,  *)
(* without it, which loses what was appended behind.                       *)
RewriteFile ==
    /\ op.step = "expire"
    /\ Works /\ Revoked
    /\ file' = SelectSeq(SubSeq(file, 1, IF op.at = 0 THEN Len(file) ELSE op.at),
                         LAMBDA l : l.token # op.arg)
    /\ UNCHANGED <<state, node, registry, bound, gone, appended, uids>>

(* expireTokenInPlace from the write on.  In a file that was replaced the  *)
(* write is lost and the verification refuses.                             *)
expireTokenInPlace ==
    /\ op.step = "expire"
    /\ \/ /\ op.at # 0 /\ file' = Expired(file, op.at)
          /\ \/ Works /\ Revoked
             \/ Fault /\ NotRevoked
       \/ /\ op.at = 0 /\ Works /\ NotRevoked /\ UNCHANGED file
       \/ /\ op.at # 0 /\ Fault /\ NotRevoked /\ UNCHANGED file
    /\ UNCHANGED <<state, node, registry, bound, gone, appended, uids>>

-----------------------------------------------------------------------------
(* Durable records.                                                        *)

Record(r, status) == [req |-> r, status |-> status, fresh |-> status = "issued"]

(* A credential that is issued and has not expired.                        *)
Valid(i) == state[i] # None /\ state[i].status = "issued" /\ state[i].fresh

(* writeState: the rename makes the record durable; an error after it is   *)
(* an error all the same.                                                  *)
WriteState(status, then, failed) ==
    /\ \/ /\ state' = [state EXCEPT ![op.arg.id] = Record(op.arg, status)]
          /\ (Works /\ then) \/ (Fault /\ failed)
       \/ Fault /\ failed /\ UNCHANGED state
    /\ UNCHANGED <<file, node, bound, gone, appended, uids>>

(* Mutant of IssueBegin: a record of another request is not refused.       *)
IssueUnbound(r) ==
    /\ op = Idle
    /\ ~ Valid(r.id)
    /\ op' = [Idle EXCEPT !.kind = "issue", !.arg = r, !.from = "retry",
                          !.step = IF state[r.id] # None /\ state[r.id].status # "revoked"
                                   THEN "revoke" ELSE "clear"]
    /\ UNCHANGED <<state, file, node, registry, bound, gone, appended, uids, spent>>

(* issue: a record of another request is refused, a credential that is     *)
(* still valid is returned again, and a token that may exist is revoked    *)
(* first.  (The two refusals and the returned credential change nothing.)  *)
IssueBegin(r) ==
    /\ op = Idle
    /\ state[r.id] # None => state[r.id].req = r
    /\ ~ Valid(r.id)
    /\ op' = [Idle EXCEPT !.kind = "issue", !.arg = r, !.from = "retry",
                          !.step = IF state[r.id] # None /\ state[r.id].status # "revoked"
                                   THEN "revoke" ELSE "clear"]
    /\ UNCHANGED <<state, file, node, registry, bound, gone, appended, uids, spent>>

(* ClearRetiredName: the name leaves the list before a credential exists,  *)
(* and stays off it when the rest of the issue fails.                      *)
ClearRetiredName ==
    /\ At("issue", "clear")
    /\ \/ /\ Works /\ Goto("pending") /\ gone' = FALSE
          /\ registry' = IF registry = None THEN None ELSE [registry EXCEPT !.listed = FALSE]
       \/ Fault /\ Done /\ UNCHANGED <<registry, gone>>
    /\ UNCHANGED <<state, file, node, bound, appended, uids>>

WritePending ==
    /\ At("issue", "pending")
    /\ WriteState("pending", Goto("add"), Done)
    /\ UNCHANGED registry

(* MicroK8sBackend.Issue: refused when the file still has a line of the    *)
(* token; add-node appends one; the answer and the file are then checked.  *)
Failed == op' = [op EXCEPT !.step = "revoke", !.from = "failed"]

AddNode ==
    /\ At("issue", "add")
    /\ \/ Lines(op.arg) # {} /\ Works /\ Failed /\ UNCHANGED file
       \/ /\ Lines(op.arg) = {}
          /\ file' = Append(file, [token |-> op.arg, expiry |-> "future"])
          /\ (Works /\ Goto("record")) \/ (Fault /\ Failed)
       \/ Lines(op.arg) = {} /\ Fault /\ Failed /\ UNCHANGED file
    /\ UNCHANGED <<state, node, registry, bound, gone, appended, uids>>

(* The issued record; when it cannot be written the token is revoked.      *)
WriteIssued ==
    /\ At("issue", "record")
    /\ WriteState("issued", Done, op' = [op EXCEPT !.step = "revoke", !.from = "drop"])
    /\ UNCHANGED registry

recordFailedIssue ==
    /\ op.step \in {"notePending", "noteRequired"}
    /\ WriteState(IF op.step = "notePending" THEN "pending" ELSE "revoke_required", Done, Done)
    /\ UNCHANGED registry

(* revoke: an issuance that never was, or that is revoked, changes nothing.*)
RevokeBegin(i) ==
    /\ op = Idle
    /\ state[i] # None /\ state[i].status # "revoked"
    /\ op' = [Idle EXCEPT !.kind = "revoke", !.step = "revoke", !.from = "revoke",
                          !.arg = state[i].req]
    /\ UNCHANGED <<state, file, node, registry, bound, gone, appended, uids, spent>>

WriteRevoked ==
    /\ At("revoke", "revoked")
    /\ WriteState("revoked", Done, Done)
    /\ UNCHANGED registry

(* What Observe accepts: exactly the bootstrap taint, no control plane.    *)
InQuarantine == node # None /\ node.boot = "pending" /\ node.role # "master"

(* observe reports the UID of a worker in quarantine, for a credential     *)
(* that is issued and valid.                                               *)
observe(i) ==
    /\ op = Idle /\ Valid(i) /\ InQuarantine
    /\ bound' = bound \cup {node.uid}
    /\ UNCHANGED <<state, file, node, registry, op, gone, appended, uids, spent>>

-----------------------------------------------------------------------------
(* Operations on the Node: read and check, then one conditional patch.     *)

Get(kind, step, arg, ok) ==
    /\ op = Idle /\ node # None /\ arg.uid \in bound
    /\ node.uid = arg.uid /\ ok
    /\ op' = [Idle EXCEPT !.kind = kind, !.step = step, !.arg = [want |-> arg, read |-> node]]
    /\ UNCHANGED <<state, file, node, registry, bound, gone, appended, uids, spent>>

(* Mutant of Patch: without the test of the resource version.              *)
PatchBlindly(n) ==
    /\ \/ /\ Works /\ Done
          /\ node' = IF node = None THEN None ELSE [n EXCEPT !.uid = node.uid]
       \/ Fault /\ Done /\ UNCHANGED node
    /\ UNCHANGED <<state, file, registry, bound, gone, appended, uids>>

(* A patch of a Node that changed since it was read is refused.            *)
Patch(n) ==
    /\ \/ ~ op.stale /\ Works /\ Done /\ node' = n
       \/ op.stale /\ Works /\ Done /\ UNCHANGED node
       \/ Fault /\ Done /\ UNCHANGED node
    /\ UNCHANGED <<state, file, registry, bound, gone, appended, uids>>

Released(n, w) == [n EXCEPT !.ws = w, !.eligible = "true", !.boot = "none", !.unschedulable = FALSE]
Assign(u, w) ==
    Get("assign", "patch", [uid |-> u, ws |-> w],
        /\ ~ node.retired /\ node.role = "blazn"
        /\ node.ws \in {None, w} /\ node.eligible # "other"
        /\ node # Released(node, w))
AssignPatch == At("assign", "patch") /\ Patch(Released(op.arg.read, op.arg.want.ws))

Hold(u, reason) ==
    Get("hold", "patch", [uid |-> u, hold |-> reason], node.role = "blazn" /\ node.hold # reason)
HoldPatch == At("hold", "patch") /\ Patch([op.arg.read EXCEPT !.hold = op.arg.want.hold])

Drained(n) == [n EXCEPT !.retired = TRUE, !.unschedulable = TRUE]
Drain(u) == Get("drain", "patch", [uid |-> u], node.role = "blazn" /\ node # Drained(node))
DrainPatch == At("drain", "patch") /\ Patch(Drained(op.arg.read))

Quarantined(n) == [n EXCEPT !.boot = "pending", !.eligible = "none"]
Rebootstrap(u) ==
    Get("rebootstrap", "patch", [uid |-> u],
        node.boot # "foreign" /\ node.role = "blazn" /\ node # Quarantined(node))
RebootstrapPatch == At("rebootstrap", "patch") /\ Patch(Quarantined(op.arg.read))

(* Retire: list the name, then delete the Node by its name.                *)
Retire(u) == Get("retire", "list", [uid |-> u], node.role = "blazn" /\ node.retired)

(* Mutant of updateRetiredNames: a name that cannot be listed is ignored.  *)
ListUnchecked ==
    /\ At("retire", "list")
    /\ \/ Works /\ Goto("delete")
          /\ registry' = IF registry = None THEN None ELSE [registry EXCEPT !.listed = TRUE]
       \/ Fault /\ Goto("delete") /\ UNCHANGED registry
    /\ UNCHANGED <<state, file, node, bound, gone, appended, uids>>

(* updateRetiredNames(retire): a Frontro host is never listed.             *)
updateRetiredNames ==
    /\ At("retire", "list")
    /\ \/ registry = None /\ Works /\ Goto("delete") /\ UNCHANGED registry
       \/ registry # None /\ registry.host /\ Works /\ Done /\ UNCHANGED registry
       \/ /\ registry # None /\ ~ registry.host /\ Works /\ Goto("delete")
          /\ registry' = [registry EXCEPT !.listed = TRUE]
       \/ Fault /\ Done /\ UNCHANGED registry
       \/ /\ registry # None /\ ~ registry.host /\ Fault /\ Done
          /\ registry' = [registry EXCEPT !.listed = TRUE]
    /\ UNCHANGED <<state, file, node, bound, gone, appended, uids>>

DeleteNode ==
    /\ At("retire", "delete")
    /\ \/ node' = None /\ gone' = (gone \/ node # None) /\ Works /\ Done
       \/ Fault /\ Done /\ UNCHANGED <<node, gone>>
    /\ UNCHANGED <<state, file, registry, bound, appended, uids>>

(* A crash, or the deadline of the request.                                *)
Crash ==
    /\ op # Idle /\ Fault /\ Done
    /\ UNCHANGED <<state, file, node, registry, bound, gone, appended, uids>>

-----------------------------------------------------------------------------
(* External: MicroK8s, the workers, administrators and the clock.          *)

Touched == op' = [op EXCEPT !.stale = @ \/ op.step = "patch"]

(* The second rule of the registration guard fails; without the ConfigMap  *)
(* there is nothing to evaluate.                                           *)
GuardFlags == registry # None /\ registry.listed

(* A kubelet creates its Node.  The guard is bound with Warn and Audit: it *)
(* flags the request and lets it pass.                                     *)
Register(role, boot) ==
    /\ node = None /\ uids < MaxUid /\ Change
    /\ uids' = uids + 1
    /\ node' = [uid |-> uids', role |-> role, boot |-> boot, ws |-> None, eligible |-> "none",
                unschedulable |-> FALSE, retired |-> FALSE, hold |-> "none",
                flagged |-> GuardFlags]
    /\ Touched /\ UNCHANGED <<state, file, registry, bound, gone, appended>>

(* The worker's own installer marks its Node, and marks it as leaving      *)
(* (markNodeRetired); a heartbeat changes only the resource version; an    *)
(* administrator labels the Node as not eligible, or removes it.           *)
NodeChange ==
    /\ node # None /\ Change
    /\ \/ node.role = "plain" /\ node' = [node EXCEPT !.role = "blazn"] /\ Touched
       \/ node.role = "blazn" /\ node' = Drained(node) /\ Touched
       \/ op.step = "patch" /\ UNCHANGED node /\ Touched
       \/ node.eligible # "other" /\ node' = [node EXCEPT !.eligible = "other"] /\ Touched
       \/ node' = None /\ Touched
    /\ UNCHANGED <<state, file, registry, bound, gone, appended, uids>>

(* MicroK8s appends a token of its own, or replaces the file by one        *)
(* without the expired lines, in the order they had.                       *)
Purged ==
    LET kept == {k \in 1 .. Len(file) : file[k].expiry # "past"}
        Rank(k) == Cardinality({j \in kept : j <= k})
    IN  [i \in 1 .. Cardinality(kept) |-> file[CHOOSE k \in kept : Rank(k) = i]]

AppendToken ==
    /\ Change /\ file' = Append(file, [token |-> None, expiry |-> "never"])
    /\ appended' = appended + 1
    /\ UNCHANGED <<state, node, registry, op, bound, gone, uids>>

Purge ==
    /\ Change /\ file' = Purged
    /\ op' = [op EXCEPT !.at = 0]
    /\ UNCHANGED <<state, node, registry, bound, gone, appended, uids>>

(* A token and the credential that carries it lapse.                       *)
Lapse(i) ==
    /\ Change /\ state[i] # None
    /\ file' = [k \in 1 .. Len(file) |->
                  IF file[k].token = state[i].req THEN [file[k] EXCEPT !.expiry = "past"] ELSE file[k]]
    /\ state' = [state EXCEPT ![i].fresh = FALSE]
    /\ UNCHANGED <<node, registry, op, bound, gone, appended, uids>>

External ==
    \/ \E role \in {"plain", "master"}, boot \in {"none", "pending", "foreign"} : Register(role, boot)
    \/ NodeChange \/ AppendToken \/ Purge
    \/ \E i \in Issuance : Lapse(i)

Next ==
    \/ \E r \in Request : IssueBegin(r)
    \/ \E i \in Issuance : RevokeBegin(i) \/ observe(i)
    \/ RevokeRead \/ expireTokenInPlace
    \/ ClearRetiredName \/ WritePending \/ AddNode \/ WriteIssued \/ recordFailedIssue \/ WriteRevoked
    \/ \E u \in bound :
          \/ \E w \in Workspace : Assign(u, w)
          \/ \E reason \in Reason : Hold(u, reason)
          \/ Drain(u) \/ Rebootstrap(u) \/ Retire(u)
    \/ AssignPatch \/ HoldPatch \/ DrainPatch \/ RebootstrapPatch
    \/ updateRetiredNames \/ DeleteNode
    \/ Crash \/ External

Spec == Init /\ [][Next]_vars

-----------------------------------------------------------------------------
(* A join token that MicroK8s would accept always has a durable record of  *)
(* the request it was derived from that is not yet revoked, so that a      *)
(* retry or a revocation finds it: wherever issue, its cleanup or revoke   *)
(* fails or crashes, no answer and no record calls a live token gone.      *)
LiveTokenIsRecorded ==
    \A r \in Request : Live(r) =>
        /\ state[r.id] # None /\ state[r.id].req = r
        /\ state[r.id].status \in {"pending", "issued", "revoke_required"}

(* Revocation leaves every token that MicroK8s or an administrator wrote   *)
(* in place, whatever is appended or replaced while it runs.               *)
OtherTokensAreKept == Cardinality(Lines(None)) = appended

(* In a cluster with the registration guard, a machine whose Node was      *)
(* retired does not come back under its name unnoticed (backend.go:224),   *)
(* until an issue clears the name: retire lists it first, wherever it      *)
(* stops and whatever registers or is removed meanwhile.                   *)
ReturnIsNoticed == gone /\ registry # None /\ node # None => node.flagged

(* A worker that is leaving never becomes schedulable again, and a Node is *)
(* never moved to another workspace: neither the issuer's operations nor   *)
(* what happens between their read and their patch undoes either.          *)
LeavingIsFinal ==
    [][node # None /\ node' # None /\ node'.uid = node.uid =>
          /\ node.retired /\ node.unschedulable => node'.retired /\ node'.unschedulable
          /\ node.ws # None => node'.ws = node.ws]_vars
=============================================================================
