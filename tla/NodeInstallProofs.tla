-------------------------- MODULE NodeInstallProofs -------------------------
(***************************************************************************)
(* Theorems about NodeInstall, for any number of commands, failed calls    *)
(* and crashes.                                                            *)
(***************************************************************************)
EXTENDS NodeInstall, TLAPS

-----------------------------------------------------------------------------
(* The inductive invariant: first what each file says of the host. *)

AllApplied(es) == \A k \in DOMAIN es : es[k].status = "applied"
AllRemoved(es) == \A k \in DOMAIN es : es[k].status = "removed"
NoneOwed(es) == \A k \in DOMAIN es : es[k].status \in {"removed", "residue"}

\* The entries of a complete plan lead back to what was there before enrollment.
LeadsBack(es, h) ==
    /\ Len(es) >= 1 => es[1].prior = h.original
    /\ Len(es) >= 2 => es[2].prior = "none"
Complete3(es, h) == Len(es) = 3 /\ LeadsBack(es, h) /\ AllApplied(es)

Managed(h) == h.package \in {"signed", "other"}
IsActive(r) == r # None /\ r.state = "active"
IsRemoved(r) == r # None /\ r.state = "removed"

ReceiptOK(r, h) == IsActive(r) => Complete3(r.entries, h) /\ h.bound

\* A log of an install: what it has not listed, or has undone, is as it was.
InstallLog(w, h, r, sv) ==
    /\ ~w.left /\ ~w.kept
    /\ LeadsBack(w.entries, h) /\ (w.verifying => Len(w.entries) = 3)
    /\ h.package # h.original => Len(w.entries) >= 1 /\ w.entries[1].status # "removed"
    /\ h.service # "none" => Len(w.entries) >= 2 /\ w.entries[2].status # "removed"
    /\ w.stage # 4 => ~IsActive(r) /\ sv.state # "active" /\ ~h.policy
    /\ w.stage = 4 => Complete3(w.entries, h) /\ h.bound /\ Managed(h)

\* A log of a repair: the active receipt that it started from stays.
RepairLog(w, h, r) ==
    /\ w.terminal = 0
    /\ IsActive(r) /\ IsActive(w.original) /\ Complete3(w.original.entries, h)
    /\ Len(w.entries) >= 1 => w.entries[1].prior \in {"signed", "other"}
    /\ Len(w.entries) >= 2 => w.entries[2].prior \in ServiceState

\* A log of an uninstall: what it has undone is as it was before enrollment.
UninstallLog(w, h) ==
    /\ w.stage = 3 /\ h.bound
    /\ Len(w.entries) = 3 /\ LeadsBack(w.entries, h)
    /\ w.kept => w.entries[1].status = "removed"
    /\ w.entries[1].status = "removed" /\ ~w.kept => h.package = h.original
    /\ w.entries[2].status = "removed" => h.service = "none"
    /\ w.left => ~h.clustered /\ h.node # "released"
    /\ w.terminal # 0 => w.left /\ ~w.residue

\* Any log: residues are remembered, and a terminal receipt is signed when
\* nothing is left to undo.
AnyLog(w, h, id) ==
    /\ \A k \in DOMAIN w.entries : w.entries[k].status = "residue" => w.residue
    /\ w.entries # <<>> /\ AllApplied(w.entries) => ~w.residue /\ w.terminal = 0
    /\ w.terminal = 0 <=> w.cleanup = 0
    /\ w.terminal # 0 => w.stage = 3 /\ AllRemoved(w.entries)
    /\ w.cleanup >= 2 => ~h.policy
    /\ w.cleanup = 3 => ~id

LogOK(w, h, r, sv, id) ==
    w # None => /\ AnyLog(w, h, id)
                /\ w.life = "install" => InstallLog(w, h, r, sv)
                /\ w.life = "repair" => RepairLog(w, h, r)
                /\ w.life = "uninstall" => UninstallLog(w, h)

NoLogOK(w, h, r) ==
    w = None => /\ h.package # h.original => r # None /\ (r.state # "removed" \/ r.kept)
                /\ h.service # "none" => r # None /\ r.state # "removed"

\* Without an uninstall under way an active receipt stands for a managed package.
PackageOK(w, h, r) ==
    IsActive(r) /\ (w = None \/ w.life # "uninstall") => Managed(h)

\* What is still at work, and what the server knows of it.
Working(h, r, ru, sv) ==
    /\ h.policy => r # None /\ r.state # "removed"
    /\ h.node = "released" => /\ r # None /\ r.state # "removed"
                              /\ h.clustered
                              /\ sv.state = "active"
                              /\ ru # None /\ ru.grant # "none"
    /\ ru # None /\ ru.grant # "none" => sv.state \in {"active", "removed"}
    /\ sv.state = "removed" => h.bound /\ ~h.clustered

Known(w, r, j, id, sv) ==
    /\ w # None \/ r # None \/ j => sv.state # "none"
    /\ IsRemoved(r) /\ r.kept => ~id
    /\ sv.state = "active" /\ ~id => sv.receipt = "stale"

Journal(w, j, id) ==
    /\ j => IF w = None THEN ~id ELSE w.terminal # 0 /\ ~w.residue
    /\ w # None /\ w.cleanup >= 2 => j

-----------------------------------------------------------------------------
(* Then where a command can be. *)

Forward7 == {"capture", "issue", "join", "check", "confirm", "verify", "complete"}
Back == {"rollback", "undo", "rolled"}
Lifecycles == Forward7 \cup Back \cup
    {"load", "probe", "create", "apply", "receipt", "unwal", "reconcile", "settle"}
Cleanup == {"support", "retire", "forget", "terminal", "unwal_end"}
NewEnroll == Forward7 \cup {"authorize", "runtime", "install", "probe", "create", "apply",
                            "receipt", "unwal", "bind"}

\* Which command is where.
OpOK(c) ==
    /\ c.own => c.op \in {"enroll", "repair"}
    /\ c.pc \in {"exchange", "authorize", "runtime", "install", "bind", "activate", "recheck", "release"} =>
          c.op = "enroll"
    /\ c.pc \in {"authorize", "runtime", "install", "begin", "prepare", "exchange", "load", "create"} => ~c.own
    /\ c.pc \in {"prepare", "begin"} => c.op # "none"
    /\ c.pc \in {"reconcile", "settle"} => c.op = "recover"
    /\ c.pc = "load" => c.op \in {"recover", "uninstall"}
    /\ c.pc = "create" => c.op \in {"enroll", "repair", "uninstall"} /\ (c.op = "enroll" => c.i = 1)
    /\ c.pc = "probe" => c.op # "none" /\ (c.own <=> c.op = "repair")
    /\ c.pc = "apply" => c.own
    /\ c.pc \in Back => c.op # "none" /\ (c.own <=> c.op \in {"enroll", "repair"})
    /\ c.pc \in Forward7 => c.op \in {"enroll", "repair", "recover"} /\ (c.op = "repair" => c.own)
    /\ c.pc = "complete" => c.own \/ c.op = "recover"
    /\ c.pc = "receipt" => c.own \/ c.op = "recover"
    /\ c.pc = "unwal" => c.own
    /\ c.pc \in Cleanup \cup {"journal", "resume", "unjournal"} => c.op \in {"recover", "uninstall"}

\* A command that goes forward with its own log has come as far as its log says.
OwnLog(c, w) ==
    /\ w # None /\ w.life = IF c.op = "enroll" THEN "install" ELSE "repair"
    /\ w.terminal = 0 /\ ~w.residue /\ w.stage < 3
    /\ IF c.pc = "apply"
       THEN /\ c.i \in 1 .. 3 /\ Len(w.entries) = c.i
            /\ \A k \in 1 .. c.i : w.entries[k].status = IF k = c.i THEN "pending" ELSE "applied"
       ELSE /\ AllApplied(w.entries)
            /\ c.pc \in Forward7 => c.i \in 1 .. 4 /\ Len(w.entries) = c.i - 1
            /\ c.pc = "probe" => Len(w.entries) = 0
            /\ c.pc \in {"check", "confirm", "verify", "complete"} => c.i = 4

\* One that goes forward without: recovery of a complete install, or an
\* enrollment that found an active receipt.
OthersLog(c, w, r) ==
    /\ c.i = 4
    /\ IF c.op = "recover"
       THEN /\ w # None /\ w.life = "install" /\ w.stage < 4
            /\ Len(w.entries) = 3 /\ AllApplied(w.entries)
       ELSE IsActive(r)

GoingForward(c, w, r, h) ==
    /\ c.pc \in Forward7 \cup {"apply"} \/ (c.pc = "probe" /\ c.op = "repair") =>
          IF c.own THEN OwnLog(c, w) ELSE OthersLog(c, w, r)
    /\ c.pc = "complete" => h.bound /\ Managed(h)
    /\ c.pc = "receipt" => w # None /\ w.stage = 4 /\ w.life # "uninstall"

GoingBack(c, w) ==
    c.pc \in Back =>
        /\ w # None /\ w.stage <= 3
        /\ c.own => w.life = (IF c.op = "enroll" THEN "install" ELSE "repair") /\ w.terminal = 0
        /\ c.op = "uninstall" => w.life = "uninstall"
        /\ w.life = "uninstall" => c.joined /\ w.terminal = 0
        /\ c.pc # "rollback" => w.stage = 3
        /\ c.pc = "undo" => /\ c.i \in 0 .. Len(w.entries)
                            /\ \A k \in DOMAIN w.entries :
                                  k > c.i => w.entries[k].status \in {"removed", "residue"}
                            /\ c.i = 0 /\ w.life = "uninstall" => w.left
        /\ c.pc = "rolled" => NoneOwed(w.entries) /\ (w.life = "uninstall" => w.left)

Terminal(w, r) == IsRemoved(r) /\ r.kept = w.kept /\ AllRemoved(w.entries)

\* What the other steps rely on.
Elsewhere(c, w, r, ru, j, id, sv) ==
    /\ c.op = "enroll" /\ c.pc \in NewEnroll => id /\ sv.state \in {"installing", "verifying"}
    /\ c.pc \in Lifecycles => id /\ ru # None
    /\ c.pc \in Lifecycles /\ c.op \in {"recover", "uninstall"} => ~j
    /\ c.pc \in {"install", "activate"} => ru # None
    /\ c.op = "enroll" /\ c.pc \in {"probe", "create"} => r = None \/ IsRemoved(r)
    /\ c.op # "enroll" /\ c.pc = "create" => IsActive(r)
    /\ c.op \in {"recover", "uninstall"} /\ c.pc \in {"probe", "reconcile", "settle"} =>
          /\ w # None
          /\ c.op = "uninstall" => w.life = "uninstall" /\ w.terminal = 0
          /\ c.pc # "probe" /\ w.life = "uninstall" => c.joined
    /\ c.pc = "finalize" => /\ IsActive(r)
                            /\ w # None => /\ w.terminal = 0
                                           /\ c.op # "enroll" => w.life # "uninstall"
    /\ c.pc = "journal" => w # None /\ w.terminal # 0 /\ ~w.residue
    /\ c.pc = "resume" => j
    /\ c.pc = "unjournal" => w = None
    /\ c.pc = "unwal" => IsActive(r)
    /\ c.pc \in {"unwal", "unwal_last"} =>
          /\ w # None /\ w.terminal = 0
          /\ (IsActive(r) /\ w.life # "uninstall") \/ Terminal(w, r)
    /\ c.pc \in Cleanup => /\ w # None /\ j
                           /\ w.cleanup = CASE c.pc = "support" -> 1
                                            [] c.pc \in {"retire", "forget"} -> 2 [] OTHER -> 3
    /\ c.pc = "forget" /\ sv.state = "active" => sv.receipt = "stale"
    /\ c.pc = "unwal_end" => Terminal(w, r)

Data(w, r, ru, id, j, sv, h) ==
    /\ ReceiptOK(r, h)
    /\ LogOK(w, h, r, sv, id)
    /\ NoLogOK(w, h, r)
    /\ PackageOK(w, h, r)
    /\ Working(h, r, ru, sv)
    /\ Known(w, r, j, id, sv)
    /\ Journal(w, j, id)

Position(c, w, r, ru, id, j, sv, h) ==
    /\ OpOK(c)
    /\ GoingForward(c, w, r, h)
    /\ GoingBack(c, w)
    /\ Elsewhere(c, w, r, ru, j, id, sv)

NodeInv ==
    /\ TypeOK
    /\ Data(wal, receipt, runtime, identity, journal, server, host)
    /\ Position(cmd, wal, receipt, runtime, identity, journal, server, host)

-----------------------------------------------------------------------------
(* Commands that end, and hosts that only lose. *)

Ends(c) == c \in Command /\ (c = Idle \/ (c.pc = "restore" /\ (c.own => c.op \in {"enroll", "repair"})))

\* A command that ends, or only has to hand the service state back, relies on nothing.
LEMMA EndedAnywhere ==
    ASSUME NEW c, Ends(c), NEW w, NEW r, NEW ru, NEW id, NEW j, NEW sv, NEW h
    PROVE  Position(c, w, r, ru, id, j, sv, h)
<1>1. /\ c.pc \in {"idle", "restore"}
      /\ c.own => c.op \in {"enroll", "repair"}
  BY DEF Ends, Idle
<1>2. OpOK(c)
  BY <1>1 DEF OpOK, Back, Forward7, Cleanup
<1>3. GoingForward(c, w, r, h) /\ GoingBack(c, w)
  BY <1>1 DEF GoingForward, GoingBack, Forward7, Back
<1>4. Elsewhere(c, w, r, ru, j, id, sv)
  BY <1>1 DEF Elsewhere, NewEnroll, Lifecycles, Forward7, Back, Cleanup
<1>. QED  BY <1>2, <1>3, <1>4 DEF Position

LEMMA CommandEnds ==
    ASSUME TypeOK, OpOK(cmd)
    PROVE  Ends(Idle) /\ Ends(restoreAfterFailure)
<1>1. Idle \in Command
  BY DEF Idle, Command, Op, PC
<1>2. Goto("restore") \in Command /\ Goto("restore").pc = "restore"
      /\ (Goto("restore").own => Goto("restore").op \in {"enroll", "repair"})
  BY DEF Goto, TypeOK, Command, PC, OpOK
<1>. QED  BY <1>1, <1>2 DEF Ends, restoreAfterFailure

\* A host that runs no more than it did, on the same package and service.
Eases(h, g) ==
    /\ g \in Host
    /\ g.package = h.package /\ g.original = h.original /\ g.service = h.service
    /\ h.bound => g.bound
    /\ g.policy => h.policy
    /\ g.node = "released" => h.node = "released" /\ (h.clustered => g.clustered)
    /\ g.clustered => h.clustered \/ ~h.bound

LEMMA EasedHost ==
    ASSUME NEW h \in Host, NEW g, Eases(h, g), NEW w, NEW r, NEW ru, NEW id, NEW j, NEW sv
    PROVE  /\ Data(w, r, ru, id, j, sv, h) => Data(w, r, ru, id, j, sv, g)
           /\ \A c : Position(c, w, r, ru, id, j, sv, h) => Position(c, w, r, ru, id, j, sv, g)
<1>1. ASSUME NEW es PROVE LeadsBack(es, h) <=> LeadsBack(es, g)
  BY DEF LeadsBack, Eases
<1>2. ASSUME NEW es PROVE Complete3(es, h) <=> Complete3(es, g)
  BY <1>1 DEF Complete3
<1>3. Managed(h) <=> Managed(g)
  BY DEF Managed, Eases
<1>4. ReceiptOK(r, h) => ReceiptOK(r, g)
  BY <1>2 DEF ReceiptOK, Eases
<1>5. InstallLog(w, h, r, sv) => InstallLog(w, g, r, sv)
  BY <1>1, <1>2, <1>3 DEF InstallLog, Eases
<1>6. RepairLog(w, h, r) => RepairLog(w, g, r)
  BY <1>2 DEF RepairLog
<1>7. UninstallLog(w, h) => UninstallLog(w, g)
  BY <1>1 DEF UninstallLog, Eases
<1>8. AnyLog(w, h, id) => AnyLog(w, g, id)
  BY DEF AnyLog, Eases
<1>9. LogOK(w, h, r, sv, id) => LogOK(w, g, r, sv, id)
  BY <1>5, <1>6, <1>7, <1>8 DEF LogOK
<1>10. NoLogOK(w, h, r) => NoLogOK(w, g, r)
  BY DEF NoLogOK, Eases
<1>11. PackageOK(w, h, r) => PackageOK(w, g, r)
  BY <1>3 DEF PackageOK
<1>12. Working(h, r, ru, sv) => Working(g, r, ru, sv)
  BY DEF Working, Eases, Host
<1>13. ASSUME NEW c PROVE GoingForward(c, w, r, h) => GoingForward(c, w, r, g)
  BY <1>3 DEF GoingForward, Eases
<1>. QED  BY <1>4, <1>9, <1>10, <1>11, <1>12, <1>13 DEF Data, Position

\* What the root helper does to a host, the changes of the plan and the release apart.
LEMMA HostOperations ==
    ASSUME NEW h \in Host
    PROVE  /\ Eases(h, h)
           /\ \A p \in BOOLEAN : /\ Eases(h, snapshotServiceStateOwnership(h, p))
                                 /\ Eases(h, prepareServiceState(h, p))
           /\ Eases(h, removeServiceStateHandoff(h)) /\ Eases(h, restoreRecorded(h))
           /\ Eases(h, authorizeBootstrap(h)) /\ Eases(h, updateRootKubernetesBinding(h))
           /\ Eases(h, AbortJoin(h)) /\ Eases(h, AbortJoinUnanswered(h)) /\ Eases(h, quarantineJoinedNode(h))
           /\ Eases(h, requarantineReleasedNode(h)) /\ Eases(h, rebootstrapNode(h))
           /\ Eases(h, drainNode(h)) /\ Eases(h, leaveCluster(h))
           /\ Eases(h, removeServiceSupport(h))
           /\ Eases(h, Joined(h)) /\ \A g \in JoinPartly(h) : Eases(h, g)
<1>. USE DEF Host, NodeState
<1>1. Eases(h, h)
  BY DEF Eases
<1>2. ASSUME NEW p \in BOOLEAN PROVE Eases(h, snapshotServiceStateOwnership(h, p)) /\ Eases(h, prepareServiceState(h, p))
  BY DEF Eases, snapshotServiceStateOwnership, prepareServiceState, transitionPrivateStateOwnership
<1>3. Eases(h, removeServiceStateHandoff(h)) /\ Eases(h, restoreRecorded(h))
  <2>1. Eases(h, removeServiceStateHandoff(h))
    BY DEF Eases, removeServiceStateHandoff
  <2>2. CASE h.handoff = "none"
    BY <1>1, <2>1, <2>2 DEF restoreRecorded
  <2>3. CASE h.handoff # "none"
    <3>1. PICK g : g = [h EXCEPT !.owner = h.handoff]
      OBVIOUS
    <3>2. g \in Host /\ Eases(h, g)
      BY <2>3, <3>1 DEF Eases
    <3>3. Eases(g, removeServiceStateHandoff(g))
      BY <3>2 DEF Eases, removeServiceStateHandoff
    <3>4. Eases(h, removeServiceStateHandoff(g))
      BY <3>2, <3>3 DEF Eases
    <3>. QED  BY <2>1, <2>3, <3>1, <3>4 DEF restoreRecorded, restoreServiceStateOwnership
  <2>. QED  BY <2>2, <2>3
<1>4. Eases(h, authorizeBootstrap(h)) /\ Eases(h, updateRootKubernetesBinding(h)) /\ Eases(h, quarantineJoinedNode(h))
  <2>1. Eases(h, [h EXCEPT !.authority = TRUE])
    BY DEF Eases
  <2>2. Eases(h, [h EXCEPT !.bound = TRUE])
    BY DEF Eases
  <2>. QED  BY <2>1, <2>2 DEF authorizeBootstrap, updateRootKubernetesBinding, quarantineJoinedNode
<1>5. Eases(h, AbortJoin(h)) /\ Eases(h, AbortJoinUnanswered(h))
  <2>1. Eases(h, [h EXCEPT !.intent = FALSE])
    BY DEF Eases
  <2>. QED  BY <1>1, <1>4, <2>1 DEF AbortJoin, AbortJoinUnanswered
<1>6. Eases(h, requarantineReleasedNode(h)) /\ Eases(h, rebootstrapNode(h))
  BY DEF Eases, requarantineReleasedNode, rebootstrapNode, validateCapacityState
<1>7. Eases(h, drainNode(h)) /\ Eases(h, leaveCluster(h))
  <2>1. PICK g : g = [h EXCEPT !.node = "retired"]
    OBVIOUS
  <2>2. g \in Host /\ g = markNodeRetired(h)
    BY <2>1 DEF markNodeRetired
  <2>3. Eases(h, g) /\ Eases(h, [g EXCEPT !.clustered = FALSE])
    BY <2>1 DEF Eases
  <2>. QED  BY <1>1, <2>2, <2>3 DEF drainNode, leaveCluster
<1>8. Eases(h, removeServiceSupport(h))
  BY DEF Eases, removeServiceSupport
<1>9. Eases(h, Joined(h)) /\ \A g \in JoinPartly(h) : Eases(h, g)
  <2>1. PICK a : a = beginRootJoinIntent(h)
    OBVIOUS
  <2>2. a \in Host /\ a = [h EXCEPT !.intent = TRUE] /\ Eases(h, a)
    BY <2>1 DEF beginRootJoinIntent, Eases
  <2>3. PICK b : b = microK8sJoin(a)
    OBVIOUS
  <2>4. /\ b \in Host /\ b.node = "quarantined"
        /\ b.package = a.package /\ b.original = a.original /\ b.service = a.service
        /\ b.bound = a.bound /\ b.policy = a.policy
    <3>1. PICK g : g = [a EXCEPT !.clustered = TRUE]
      OBVIOUS
    <3>2. /\ g \in Host
          /\ g.package = a.package /\ g.original = a.original /\ g.service = a.service
          /\ g.bound = a.bound /\ g.policy = a.policy
      BY <2>2, <3>1
    <3>3. b = [g EXCEPT !.node = "quarantined"]
      BY <2>3, <3>1 DEF microK8sJoin
    <3>. QED  BY <3>2, <3>3
  <2>5. ~h.bound => Eases(h, b) /\ Eases(h, updateRootKubernetesBinding(b))
    <3>1. /\ a.package = h.package /\ a.original = h.original /\ a.service = h.service
          /\ a.bound = h.bound /\ a.policy = h.policy
      BY <2>2
    <3>. QED  BY <2>4, <3>1 DEF updateRootKubernetesBinding, Eases
  <2>6. Eases(h, Joined(h))
    BY <1>1, <1>4, <2>1, <2>3, <2>5 DEF Joined
  <2>7. JoinPartly(h) \subseteq {a, b} /\ (h.bound => JoinPartly(h) = {})
    BY <2>1, <2>3 DEF JoinPartly
  <2>. QED  BY <2>2, <2>5, <2>6, <2>7
<1>. QED  BY <1>1, <1>2, <1>3, <1>4, <1>5, <1>6, <1>7, <1>8, <1>9

-----------------------------------------------------------------------------
(* Steps that only move on. *)

\* The bounds are spent one by one.
LEMMA Spending ==
    ASSUME TypeOK, Fault \/ UNCHANGED spent
    PROVE  spent' \in [commands : Nat, faults : Nat]
  BY DEF TypeOK, Fault

\* The places of a command, once for all.
LEMMA Places ==
    /\ "idle" \in PC /\ "prepare" \in PC /\ "restore" \in PC /\ "begin" \in PC /\ "exchange" \in PC
    /\ "authorize" \in PC /\ "runtime" \in PC /\ "install" \in PC /\ "load" \in PC /\ "probe" \in PC
    /\ "create" \in PC /\ "capture" \in PC /\ "apply" \in PC /\ "issue" \in PC /\ "join" \in PC
    /\ "check" \in PC /\ "confirm" \in PC /\ "verify" \in PC /\ "complete" \in PC /\ "receipt" \in PC
    /\ "unwal" \in PC /\ "unwal_last" \in PC /\ "bind" \in PC /\ "activate" \in PC /\ "recheck" \in PC
    /\ "release" \in PC /\ "finalize" \in PC /\ "reconcile" \in PC /\ "settle" \in PC /\ "rollback" \in PC
    /\ "undo" \in PC /\ "rolled" \in PC /\ "journal" \in PC /\ "resume" \in PC /\ "support" \in PC
    /\ "retire" \in PC /\ "forget" \in PC /\ "terminal" \in PC /\ "unwal_end" \in PC /\ "unjournal" \in PC
  BY DEF PC

\* What a command may go to.
LEMMA Moves ==
    ASSUME TypeOK, NEW pc \in PC
    PROVE  /\ Goto(pc) \in Command /\ Goto(pc).pc = pc
           /\ Goto(pc).op = cmd.op /\ Goto(pc).own = cmd.own /\ Goto(pc).i = cmd.i
           /\ Goto(pc).joined = cmd.joined
           /\ \A i \in 0 .. 4 : /\ Loop(pc, i) \in Command /\ Loop(pc, i).pc = pc /\ Loop(pc, i).i = i
                                /\ Loop(pc, i).op = cmd.op /\ Loop(pc, i).own = cmd.own
                                /\ Loop(pc, i).joined = cmd.joined
  BY DEF TypeOK, Command, Goto, Loop

LEMMA OnlyCommand ==
    ASSUME NodeInv, cmd' \in Command, spent' \in [commands : Nat, faults : Nat], expired' \in BOOLEAN,
           UNCHANGED <<host, wal, receipt, runtime, identity, journal, server>>,
           Position(cmd', wal, receipt, runtime, identity, journal, server, host)
    PROVE  NodeInv'
<1>1. TypeOK'
  BY DEF NodeInv, TypeOK
<1>2. Data(wal, receipt, runtime, identity, journal, server, host)'
  BY DEF NodeInv
<1>3. Position(cmd, wal, receipt, runtime, identity, journal, server, host)'
  BY DEF NodeInv
<1>. QED  BY <1>1, <1>2, <1>3 DEF NodeInv

LEMMA StartStep ==
    ASSUME NodeInv, NEW op \in {"enroll", "recover", "repair", "uninstall"}, Start(op)
    PROVE  NodeInv'
<1>1. cmd' \in Command /\ cmd'.pc = "prepare" /\ cmd'.op = op /\ ~cmd'.own
  <2>1. PICK a : a = [Idle EXCEPT !.op = op]
    OBVIOUS
  <2>2. a \in Command /\ a.op = op /\ ~a.own
    <3>1. Idle \in Command /\ ~Idle.own
      BY DEF Idle, Command, Op, PC
    <3>. QED  BY <2>1, <3>1 DEF Command, Op
  <2>3. cmd' = [a EXCEPT !.pc = "prepare"]
    BY <2>1 DEF Start
  <2>. QED  BY <2>2, <2>3 DEF Command, PC
<1>2. spent' \in [commands : Nat, faults : Nat]
  BY DEF Start, NodeInv, TypeOK
<1>3. Position(cmd', wal, receipt, runtime, identity, journal, server, host)
  BY <1>1 DEF Position, OpOK, GoingForward, GoingBack, Elsewhere, Forward7, Back, Lifecycles, Cleanup, NewEnroll
<1>. QED  BY <1>1, <1>2, <1>3, OnlyCommand DEF Start, NodeInv, TypeOK

LEMMA ExpireStep ==
    ASSUME NodeInv, Expire
    PROVE  NodeInv'
  BY OnlyCommand DEF Expire, NodeInv, TypeOK

LEMMA BeginEnrollStep ==
    ASSUME NodeInv, BeginEnroll
    PROVE  NodeInv'
<1>1. ASSUME NEW pc \in {"exchange", "activate", "recheck"}, cmd' = Goto(pc), pc = "activate" => runtime # None
      PROVE  cmd' \in Command /\ Position(cmd', wal, receipt, runtime, identity, journal, server, host)
  <2>1. cmd' \in Command /\ cmd'.pc = pc /\ cmd'.op = "enroll" /\ ~cmd'.own
    <3>1. pc \in PC
      BY DEF PC
    <3>2. ~cmd.own /\ cmd.op = "enroll"
      BY DEF BeginEnroll, At, NodeInv, Position, OpOK
    <3>. QED  BY <1>1, <3>1, <3>2, Moves DEF NodeInv
  <2>. QED
    BY <1>1, <2>1 DEF Position, OpOK, GoingForward, GoingBack, Elsewhere, Forward7, Back, Lifecycles, Cleanup, NewEnroll
<1>2. CASE cmd' = Idle
  BY <1>2, CommandEnds, EndedAnywhere, OnlyCommand DEF BeginEnroll, NodeInv, TypeOK, Ends, Position
<1>3. CASE cmd' # Idle
  <2>1. cmd' \in Command /\ Position(cmd', wal, receipt, runtime, identity, journal, server, host)
    BY <1>1, <1>3 DEF BeginEnroll
  <2>. QED  BY <2>1, OnlyCommand DEF BeginEnroll, NodeInv, TypeOK
<1>. QED  BY <1>2, <1>3

LEMMA BeginInstallStep ==
    ASSUME NodeInv, BeginInstall
    PROVE  NodeInv'
<1>0. Len(Plan) = 3
  BY DEF Plan
<1>1. /\ cmd.op = "enroll" /\ ~cmd.own /\ identity /\ server.state \in {"installing", "verifying"}
      /\ runtime # None
  BY DEF BeginInstall, At, NodeInv, Position, OpOK, Elsewhere, NewEnroll
<1>2. CASE receipt = None \/ Removed
  <2>1. cmd' = Goto("probe")
    BY <1>2 DEF BeginInstall
  <2>2. cmd' \in Command /\ cmd'.pc = "probe" /\ cmd'.op = "enroll" /\ ~cmd'.own
    BY <1>1, <2>1, Moves, Places DEF NodeInv
  <2>3. Position(cmd', wal, receipt, runtime, identity, journal, server, host)
    BY <1>1, <1>2, <2>2 DEF Position, OpOK, GoingForward, GoingBack, Elsewhere, Forward7, Back, Lifecycles, Cleanup, NewEnroll, Removed, IsRemoved
  <2>. QED  BY <2>2, <2>3, OnlyCommand DEF BeginInstall, NodeInv, TypeOK
<1>3. CASE ~(receipt = None \/ Removed) /\ Active
  <2>1. cmd' = Loop("check", 4)
    BY <1>0, <1>3 DEF BeginInstall
  <2>2. cmd' \in Command /\ cmd'.pc = "check" /\ cmd'.op = "enroll" /\ ~cmd'.own /\ cmd'.i = 4
    BY <1>1, <2>1, Moves, Places DEF NodeInv
  <2>3. Position(cmd', wal, receipt, runtime, identity, journal, server, host)
    BY <1>1, <1>3, <2>2 DEF Position, OpOK, GoingForward, GoingBack, Elsewhere, Forward7, Back, Lifecycles, Cleanup, NewEnroll, Active, IsActive, OthersLog
  <2>. QED  BY <2>2, <2>3, OnlyCommand DEF BeginInstall, NodeInv, TypeOK
<1>4. CASE ~(receipt = None \/ Removed) /\ ~Active
  <2>1. cmd' = Idle
    BY <1>4 DEF BeginInstall
  <2>. QED  BY <2>1, CommandEnds, EndedAnywhere, OnlyCommand DEF BeginInstall, NodeInv, TypeOK, Ends, Position
<1>. QED  BY <1>2, <1>3, <1>4

LEMMA BeginLifecycleStep ==
    ASSUME NodeInv, BeginLifecycle
    PROVE  NodeInv'
<1>1. cmd.op # "enroll" /\ ~cmd.own /\ cmd.op # "none" /\ cmd.op \in Op
  BY DEF BeginLifecycle, At, NodeInv, TypeOK, Command, Position, OpOK
<1>2. ASSUME NEW pc \in {"resume", "load", "create"}, cmd' = Goto(pc),
             IF pc = "resume" THEN journal ELSE identity /\ runtime # None,
             IF pc = "create" THEN Active /\ cmd.op = "repair" ELSE cmd.op # "repair",
             pc = "load" => ~journal
      PROVE  cmd' \in Command /\ Position(cmd', wal, receipt, runtime, identity, journal, server, host)
  <2>1. cmd' \in Command /\ cmd'.pc = pc /\ cmd'.op = cmd.op /\ ~cmd'.own
    BY <1>1, <1>2, Moves, Places DEF NodeInv
  <2>. QED  BY <1>1, <1>2, <2>1
      DEF Position, OpOK, GoingForward, GoingBack, Elsewhere, Forward7, Back, Lifecycles, Cleanup,
          NewEnroll, Op, Active, IsActive
<1>3. CASE Ends(cmd')
  BY <1>3, EndedAnywhere, OnlyCommand DEF BeginLifecycle, NodeInv, TypeOK, Ends
<1>4. CASE ~Ends(cmd')
  <2>1. cmd' # restoreAfterFailure
    BY <1>4, CommandEnds DEF NodeInv, Position
  <2>2. cmd' \in Command /\ Position(cmd', wal, receipt, runtime, identity, journal, server, host)
    BY <1>2, <2>1 DEF BeginLifecycle, boundRuntime, trustedActiveReceipt
  <2>. QED  BY <2>2, OnlyCommand DEF BeginLifecycle, NodeInv, TypeOK
<1>. QED  BY <1>3, <1>4

LEMMA LoadWALStep ==
    ASSUME NodeInv, LoadWAL
    PROVE  NodeInv'
<1>1. cmd.op \in {"recover", "uninstall"} /\ ~cmd.own /\ identity /\ runtime # None /\ ~journal
  BY DEF LoadWAL, At, NodeInv, Position, OpOK, Elsewhere, Lifecycles
<1>2. CASE Ends(cmd')
  BY <1>2, EndedAnywhere, OnlyCommand DEF LoadWAL, Reads, NodeInv, TypeOK, Ends
<1>3. CASE ~Ends(cmd')
  <2>1. cmd' # restoreAfterFailure
    BY <1>3, CommandEnds DEF NodeInv, Position
  <2>2. PICK pc \in {"probe", "journal", "create"} :
           /\ cmd' = Goto(pc)
           /\ pc = "probe" => /\ wal # None
                              /\ cmd.op = "uninstall" => wal.life = "uninstall" /\ wal.terminal = 0
           /\ pc = "journal" => wal # None /\ wal.life = "uninstall" /\ wal.terminal # 0
           /\ pc = "create" => Active /\ cmd.op # "recover"
    BY <2>1 DEF LoadWAL, Reads, trustedActiveReceipt
  <2>3. cmd' \in Command /\ cmd'.pc = pc /\ cmd'.op = cmd.op /\ ~cmd'.own
    BY <1>1, <2>2, Moves, Places DEF NodeInv
  <2>4. wal # None /\ wal.life = "uninstall" /\ wal.terminal # 0 => ~wal.residue
    BY DEF NodeInv, Data, LogOK, UninstallLog
  <2>5. Position(cmd', wal, receipt, runtime, identity, journal, server, host)
    BY <1>1, <2>2, <2>3, <2>4
       DEF Position, OpOK, GoingForward, GoingBack, Elsewhere, Forward7, Back, Lifecycles,
           Cleanup, NewEnroll, Active, IsActive
  <2>. QED  BY <2>3, <2>5, OnlyCommand DEF LoadWAL, Reads, NodeInv, TypeOK
<1>. QED  BY <1>2, <1>3

LEMMA PreflightStep ==
    ASSUME NodeInv, Preflight
    PROVE  NodeInv'
<1>1. /\ cmd.op \in {"enroll", "recover", "repair", "uninstall"} /\ (cmd.own <=> cmd.op = "repair")
      /\ identity /\ runtime # None
      /\ cmd.op = "enroll" => (receipt = None \/ IsRemoved(receipt)) /\ server.state \in {"installing", "verifying"}
      /\ cmd.op = "repair" => OwnLog(cmd, wal)
      /\ cmd.op \in {"recover", "uninstall"} => wal # None /\ ~journal
      /\ cmd.op = "uninstall" => wal.life = "uninstall" /\ wal.terminal = 0
  BY
     DEF Preflight, At, NodeInv, TypeOK, Command, Op, Position, OpOK, GoingForward, Elsewhere,
         Lifecycles, NewEnroll
<1>2. CASE cmd' = restoreAfterFailure
  BY <1>2, CommandEnds, EndedAnywhere, OnlyCommand
     DEF Preflight, Reads, NodeInv, TypeOK, Ends, Position
<1>3. CASE cmd' # restoreAfterFailure
  <2>1. PICK pc \in {"create", "capture", "reconcile", "rollback"} :
           /\ cmd' = [Goto(pc) EXCEPT !.joined = host.bound, !.i = 1]
           /\ cmd.op = "enroll" => pc = "create"
           /\ cmd.op = "repair" => pc = "capture"
           /\ cmd.op = "recover" => pc = "reconcile"
           /\ cmd.op = "uninstall" => pc = "rollback"
    BY <1>1, <1>3 DEF Preflight, Reads
  <2>2. /\ cmd' \in Command /\ cmd'.pc = pc /\ cmd'.op = cmd.op /\ cmd'.own = cmd.own
        /\ cmd'.joined = host.bound /\ cmd'.i = 1
    <3>1. pc \in PC
      BY DEF PC
    <3>2. PICK a : a = [Goto(pc) EXCEPT !.joined = host.bound]
      OBVIOUS
    <3>3. /\ a \in Command /\ a.pc = pc /\ a.op = cmd.op /\ a.own = cmd.own
          /\ a.joined = host.bound
      BY <3>1, <3>2, Moves DEF NodeInv, TypeOK, Host, Command
    <3>4. cmd' = [a EXCEPT !.i = 1]
      BY <2>1, <3>2
    <3>. QED  BY <3>3, <3>4 DEF Command
  <2>3. wal # None /\ wal.life = "uninstall" => host.bound /\ wal.stage = 3
    BY DEF NodeInv, Data, LogOK, UninstallLog
  <2>4. OpOK(cmd')
    BY <1>1, <2>1, <2>2 DEF OpOK, Forward7, Back, Cleanup
  <2>5. GoingForward(cmd', wal, receipt, host)
    <3>1. cmd.op = "repair" => OwnLog(cmd', wal)
      BY <1>1, <2>1, <2>2 DEF OwnLog, Forward7, Preflight, At
    <3>. QED  BY <1>1, <2>1, <2>2, <3>1 DEF GoingForward, Forward7
  <2>6. GoingBack(cmd', wal)
    BY <1>1, <2>1, <2>2, <2>3 DEF GoingBack, Back
  <2>7. Elsewhere(cmd', wal, receipt, runtime, journal, identity, server)
    BY <1>1, <2>1, <2>2, <2>3 DEF Elsewhere, Forward7, Back, Lifecycles, Cleanup, NewEnroll
  <2>8. Position(cmd', wal, receipt, runtime, identity, journal, server, host)
    BY <2>4, <2>5, <2>6, <2>7 DEF Position
  <2>. QED  BY <2>2, <2>8, OnlyCommand DEF Preflight, Reads, NodeInv, TypeOK
<1>. QED  BY <1>2, <1>3

LEMMA ResumeCleanupStep ==
    ASSUME NodeInv, ResumeCleanup
    PROVE  NodeInv'
<1>1. cmd.op \in {"recover", "uninstall"} /\ cmd.own = FALSE /\ journal
  BY DEF ResumeCleanup, At, NodeInv, TypeOK, Command, Position, OpOK, Elsewhere
<1>2. CASE cmd' = Idle
  BY <1>2, CommandEnds, EndedAnywhere, OnlyCommand
     DEF ResumeCleanup, Reads, NodeInv, TypeOK, Ends, Position
<1>3. CASE cmd' # Idle
  <2>1. PICK pc \in {"unjournal", "support", "retire", "terminal"} :
           /\ cmd' = Goto(pc)
           /\ pc = "unjournal" <=> wal = None
           /\ pc = "support" => wal.cleanup = 1
           /\ pc = "retire" => wal.cleanup = 2
           /\ pc = "terminal" => wal.cleanup = 3
    BY <1>3 DEF ResumeCleanup, Reads, CleanupStep
  <2>2. cmd' \in Command /\ cmd'.pc = pc /\ cmd'.op = cmd.op /\ ~cmd'.own
    BY <1>1, <2>1, Moves, Places DEF NodeInv
  <2>3. Position(cmd', wal, receipt, runtime, identity, journal, server, host)
    BY <1>1, <2>1, <2>2
       DEF Position, OpOK, GoingForward, GoingBack, Elsewhere, Forward7, Back, Lifecycles,
           Cleanup, NewEnroll
  <2>. QED  BY <2>2, <2>3, OnlyCommand DEF ResumeCleanup, Reads, NodeInv, TypeOK
<1>. QED  BY <1>2, <1>3

LEMMA RecoverActivatedCapacityStep ==
    ASSUME NodeInv, RecoverActivatedCapacity
    PROVE  NodeInv'
<1>1. cmd.op = "enroll" /\ cmd \in Command
  BY DEF RecoverActivatedCapacity, At, NodeInv, TypeOK, Position, OpOK
<1>2. CASE cmd' = Idle
  BY <1>2, CommandEnds, EndedAnywhere, OnlyCommand
     DEF RecoverActivatedCapacity, Reads, NodeInv, TypeOK, Ends, Position
<1>3. CASE cmd' # Idle
  <2>1. cmd' = [Goto("release") EXCEPT !.joined = TRUE]
    BY <1>3 DEF RecoverActivatedCapacity, Reads
  <2>2. cmd' \in Command /\ cmd'.pc = "release" /\ cmd'.op = "enroll" /\ cmd'.own = cmd.own
    <3>1. PICK a : a = Goto("release")
      OBVIOUS
    <3>2. a \in Command /\ a.pc = "release" /\ a.op = "enroll" /\ a.own = cmd.own
      BY <1>1, <3>1, Moves, Places DEF NodeInv
    <3>. QED  BY <2>1, <3>1, <3>2 DEF Command
  <2>3. Position(cmd', wal, receipt, runtime, identity, journal, server, host)
    BY <2>2
       DEF Position, OpOK, GoingForward, GoingBack, Elsewhere, Forward7, Back, Lifecycles,
           Cleanup, NewEnroll
  <2>. QED  BY <2>2, <2>3, OnlyCommand DEF RecoverActivatedCapacity, Reads, NodeInv, TypeOK
<1>. QED  BY <1>2, <1>3

-----------------------------------------------------------------------------
(* Steps that change the host alone. *)

\* The files and the API's Node are as they were, and the host runs no more than it did.
LEMMA OnlyHost ==
    ASSUME NodeInv, cmd' \in Command, spent' \in [commands : Nat, faults : Nat], KeepFiles,
           Eases(host, host'),
           Position(cmd', wal, receipt, runtime, identity, journal, server, host')
    PROVE  NodeInv'
<1>1. TypeOK'
  BY DEF NodeInv, TypeOK, KeepFiles, Eases
<1>2. Data(wal, receipt, runtime, identity, journal, server, host')
  BY EasedHost DEF NodeInv, TypeOK
<1>. QED  BY <1>1, <1>2 DEF NodeInv, KeepFiles

\* A call of the helper that does not succeed leaves its command as it says.
LEMMA Broken ==
    ASSUME TypeOK, NEW operation, NEW ok, NEW partly, NEW failed,
           Breaks(operation, ok, partly, failed) \/ Interrupted(operation, partly, failed)
    PROVE  /\ cmd' \in {failed, Idle}
           /\ host' \in {host} \cup partly
           /\ spent' \in [commands : Nat, faults : Nat]
<1>1. Fault \/ UNCHANGED spent
  BY DEF Breaks, Interrupted
<1>. QED  BY <1>1, Spending DEF Breaks, Interrupted

\* A command that fails forward rolls its own log back, and relies on little.
LEMMA FailsBack ==
    ASSUME NodeInv, cmd.pc \in Forward7 \cup {"apply"},
           NEW w \in Log \cup {None}, cmd.own => OwnLog(cmd, w), NEW r, NEW ru, ru # None, NEW sv, NEW h
    PROVE  /\ failAndRollback \in Command /\ Idle \in Command
           /\ Position(failAndRollback, w, r, ru, identity, journal, sv, h)
           /\ Position(Idle, w, r, ru, identity, journal, sv, h)
<1>1. TypeOK /\ OpOK(cmd) /\ identity
  BY DEF NodeInv, Position, Elsewhere, Lifecycles
<1>2. CASE ~cmd.own
  BY <1>1, <1>2, CommandEnds, EndedAnywhere DEF failAndRollback, Ends
<1>3. CASE cmd.own
  <2>1. cmd.op \in {"enroll", "repair"}
    BY <1>1, <1>3 DEF OpOK
  <2>2. PICK c : c = failAndRollback
    OBVIOUS
  <2>3. c \in Command /\ c.pc = "rollback" /\ c.op = cmd.op /\ c.own
    <3>1. c = Goto("rollback") /\ "rollback" \in PC
      BY <1>3, <2>2 DEF failAndRollback, PC
    <3>. QED  BY <1>1, <1>3, <3>1, Moves
  <2>4. /\ w # None /\ w.stage <= 3 /\ w.terminal = 0
        /\ w.life = IF cmd.op = "enroll" THEN "install" ELSE "repair"
    BY <1>3 DEF OwnLog, Log
  <2>5. Position(c, w, r, ru, identity, journal, sv, h)
    BY <1>1, <2>1, <2>3, <2>4
       DEF Position, OpOK, GoingForward, GoingBack, Elsewhere, Forward7, Back, Lifecycles,
           Cleanup, NewEnroll
  <2>. QED  BY <1>1, <2>2, <2>3, <2>5, CommandEnds, EndedAnywhere DEF Ends
<1>. QED  BY <1>2, <1>3

LEMMA PrepareStep ==
    ASSUME NodeInv, Prepare
    PROVE  NodeInv'
<1>1. host \in Host /\ Pinned \in BOOLEAN
  BY DEF NodeInv, TypeOK, Pinned, Removed, Host
<1>2. /\ Eases(host, host) /\ Eases(host, snapshotServiceStateOwnership(host, Pinned))
      /\ Eases(host, prepareServiceState(host, Pinned)) /\ Eases(host, removeServiceStateHandoff(host))
  BY <1>1, HostOperations
<1>3. Eases(host, host')
  BY <1>2 DEF Prepare
<1>4. CASE cmd' = Idle
  BY <1>3, <1>4, CommandEnds, EndedAnywhere, OnlyHost, Spending DEF Prepare, NodeInv, Ends, Position
<1>5. CASE cmd' # Idle
  <2>1. cmd' = [Goto("begin") EXCEPT !.handed = TRUE]
    BY <1>5 DEF Prepare
  <2>2. cmd.op # "none" /\ ~cmd.own
    BY DEF Prepare, At, NodeInv, Position, OpOK
  <2>3. cmd' \in Command /\ cmd'.pc = "begin" /\ cmd'.op # "none" /\ ~cmd'.own
    <3>1. PICK a : a = Goto("begin")
      OBVIOUS
    <3>2. a \in Command /\ a.pc = "begin" /\ a.op # "none" /\ ~a.own
      BY <2>2, <3>1, Moves, Places DEF NodeInv
    <3>. QED  BY <2>1, <3>1, <3>2 DEF Command
  <2>4. Position(cmd', wal, receipt, runtime, identity, journal, server, host')
    BY <2>3
       DEF Position, OpOK, GoingForward, GoingBack, Elsewhere, Forward7, Back, Lifecycles,
           Cleanup, NewEnroll
  <2>. QED  BY <1>3, <2>3, <2>4, OnlyHost, Spending DEF Prepare, NodeInv
<1>. QED  BY <1>4, <1>5

LEMMA RestoreStep ==
    ASSUME NodeInv, Restore
    PROVE  NodeInv'
<1>1. Eases(host, host')
  BY HostOperations DEF Restore, NodeInv, TypeOK
<1>. QED  BY <1>1, CommandEnds, EndedAnywhere, OnlyHost, Spending
    DEF Restore, NodeInv, Ends, Position

LEMMA AuthorizeBootstrapStep ==
    ASSUME NodeInv, AuthorizeBootstrap
    PROVE  NodeInv'
<1>1. Eases(host, host')
  BY HostOperations DEF AuthorizeBootstrap, NodeInv, TypeOK
<1>2. CASE cmd' = Idle
  BY <1>1, <1>2, CommandEnds, EndedAnywhere, OnlyHost, Spending
     DEF AuthorizeBootstrap, NodeInv, Ends, Position
<1>3. CASE cmd' # Idle
  <2>1. cmd' = Goto("runtime")
    BY <1>3 DEF AuthorizeBootstrap
  <2>2. cmd.op = "enroll" /\ ~cmd.own /\ identity /\ server.state \in {"installing", "verifying"}
    BY DEF AuthorizeBootstrap, At, NodeInv, Position, OpOK, Elsewhere, NewEnroll
  <2>3. cmd' \in Command /\ cmd'.pc = "runtime" /\ cmd'.op = "enroll" /\ ~cmd'.own
    BY <2>1, <2>2, Moves, Places DEF NodeInv
  <2>4. Position(cmd', wal, receipt, runtime, identity, journal, server, host')
    BY <2>2, <2>3
       DEF Position, OpOK, GoingForward, GoingBack, Elsewhere, Forward7, Back, Lifecycles,
           Cleanup, NewEnroll
  <2>. QED  BY <1>1, <2>3, <2>4, OnlyHost, Spending DEF AuthorizeBootstrap, NodeInv
<1>. QED  BY <1>2, <1>3

LEMMA RefreshStep ==
    ASSUME NodeInv, Refresh
    PROVE  NodeInv'
<1>1. /\ host' \in Host /\ host'.package = "other" /\ host.package = "signed"
      /\ host'.original = host.original /\ host'.service = host.service /\ host'.node = host.node
      /\ host'.bound = host.bound /\ host'.policy = host.policy /\ host'.clustered = host.clustered
      /\ host.original \in {"none", "prior"}
  BY DEF Refresh, Refreshed, NodeInv, TypeOK, Host
<1>2. PICK h : h = host'
  OBVIOUS
<1>3. ReceiptOK(receipt, h) /\ LogOK(wal, h, receipt, server, identity)
  <2>1. ASSUME NEW es PROVE LeadsBack(es, host) <=> LeadsBack(es, h)
    BY <1>1, <1>2 DEF LeadsBack
  <2>2. ASSUME NEW es PROVE Complete3(es, host) <=> Complete3(es, h)
    BY <2>1 DEF Complete3
  <2>. QED  BY <1>1, <1>2, <2>1, <2>2
      DEF NodeInv, Data, ReceiptOK, LogOK, AnyLog, InstallLog, RepairLog, UninstallLog, Managed
<1>4. NoLogOK(wal, h, receipt) /\ PackageOK(wal, h, receipt) /\ Working(h, receipt, runtime, server)
  BY <1>1, <1>2 DEF NodeInv, Data, NoLogOK, PackageOK, Working, Managed
<1>5. TypeOK'
  BY <1>1, Spending DEF Refresh, KeepFiles, NodeInv, TypeOK
<1>6. Data(wal, receipt, runtime, identity, journal, server, h)
  BY <1>3, <1>4 DEF NodeInv, Data
<1>7. Position(Idle, wal, receipt, runtime, identity, journal, server, h)
  BY CommandEnds, EndedAnywhere DEF NodeInv, Position
<1>. QED  BY <1>2, <1>5, <1>6, <1>7 DEF NodeInv, Refresh, KeepFiles

-----------------------------------------------------------------------------
(* Steps of the runtime record and of the API's Node. *)

HasGrant(ru) == ru # None /\ ru.grant # "none"

\* A record with no other grant, and a Node that is on its way to activation.
LEMMA Records ==
    ASSUME NodeInv, NEW ru, HasGrant(ru) <=> HasGrant(runtime), NEW sv,
           sv = server \/ (server.state \in {"installing", "verifying"} /\ sv.state \in {"installing", "verifying"})
    PROVE  Data(wal, receipt, ru, identity, journal, sv, host)
<1>1. LogOK(wal, host, receipt, sv, identity)
  BY DEF NodeInv, Data, LogOK, InstallLog
<1>2. Working(host, receipt, ru, sv)
  BY DEF NodeInv, Data, Working, HasGrant
<1>3. Known(wal, receipt, journal, identity, sv)
  BY DEF NodeInv, Data, Known
<1>. QED  BY <1>1, <1>2, <1>3 DEF NodeInv, Data

\* A command that stays forward keeps its place.
LEMMA StaysForward ==
    ASSUME NodeInv, cmd.pc \in Forward7, NEW c \in Command, c.pc \in Forward7,
           c.op = cmd.op, c.own = cmd.own, c.i = cmd.i, c.pc \in {"check", "confirm", "verify", "complete"} => c.i = 4,
           NEW w, IF cmd.own THEN OwnLog(cmd, w) ELSE OthersLog(cmd, w, receipt),
           NEW ru, ru # None, NEW sv, cmd.op = "enroll" => sv.state \in {"installing", "verifying"},
           NEW h, c.pc = "complete" => h.bound /\ Managed(h) /\ (c.own \/ c.op = "recover")
    PROVE  Position(c, w, receipt, ru, identity, journal, sv, h)
<1>1. /\ identity /\ cmd.op \in {"enroll", "repair", "recover"}
      /\ cmd.op = "recover" => ~journal
      /\ cmd.own => cmd.op \in {"enroll", "repair"}
      /\ cmd.op = "repair" => cmd.own
  BY DEF NodeInv, Position, OpOK, Elsewhere, Lifecycles
<1>2. OpOK(c)
  BY <1>1 DEF OpOK, Forward7, Back, Cleanup
<1>3. IF c.own THEN OwnLog(c, w) ELSE OthersLog(c, w, receipt)
  <2>1. CASE cmd.own
    BY <2>1 DEF OwnLog, Forward7
  <2>2. CASE ~cmd.own
    BY <2>2 DEF OthersLog
  <2>. QED  BY <2>1, <2>2
<1>4. GoingForward(c, w, receipt, h) /\ GoingBack(c, w)
  BY <1>3 DEF GoingForward, GoingBack, Forward7, Back
<1>5. Elsewhere(c, w, receipt, ru, journal, identity, sv)
  BY <1>1 DEF Elsewhere, Forward7, Back, Lifecycles, Cleanup, NewEnroll
<1>. QED  BY <1>2, <1>4, <1>5 DEF Position

\* Where a command that goes forward is.
LEMMA IsForward ==
    ASSUME NodeInv, cmd.pc \in Forward7
    PROVE  /\ IF cmd.own THEN OwnLog(cmd, wal) ELSE OthersLog(cmd, wal, receipt)
           /\ identity /\ runtime # None /\ runtime \in Runtime
           /\ cmd.op = "enroll" => server.state \in {"installing", "verifying"}
           /\ cmd.i \in 1 .. 4
           /\ cmd.pc \in {"check", "confirm", "verify", "complete"} => cmd.i = 4
<1>1. IF cmd.own THEN OwnLog(cmd, wal) ELSE OthersLog(cmd, wal, receipt)
  BY DEF NodeInv, Position, GoingForward
<1>2. cmd.i \in 1 .. 4 /\ (cmd.pc \in {"check", "confirm", "verify", "complete"} => cmd.i = 4)
  BY <1>1 DEF OwnLog, OthersLog, Forward7
<1>3. identity /\ runtime # None /\ (cmd.op = "enroll" => server.state \in {"installing", "verifying"})
  BY DEF NodeInv, Position, Elsewhere, Lifecycles, NewEnroll
<1>. QED  BY <1>1, <1>2, <1>3 DEF NodeInv, TypeOK

\* When it fails there, with the log as it was.
LEMMA ForwardFails ==
    ASSUME NodeInv, cmd.pc \in Forward7, NEW c \in {failAndRollback, Idle},
           NEW ru, ru # None, NEW sv, NEW h
    PROVE  c \in Command /\ Position(c, wal, receipt, ru, identity, journal, sv, h)
<1>1. wal \in Log \cup {None} /\ (cmd.own => OwnLog(cmd, wal))
  BY IsForward DEF NodeInv, TypeOK
<1>2. cmd.pc \in Forward7 \cup {"apply"}
  OBVIOUS
<1>3. /\ failAndRollback \in Command /\ Idle \in Command
      /\ Position(failAndRollback, wal, receipt, ru, identity, journal, sv, h)
      /\ Position(Idle, wal, receipt, ru, identity, journal, sv, h)
  BY <1>1, <1>2, FailsBack
<1>. QED  BY <1>3

LEMMA ExchangeStep ==
    ASSUME NodeInv, ExchangeNodeEnrollment
    PROVE  NodeInv'
<1>1. PICK id \in BOOLEAN : id = identity'
  BY DEF ExchangeNodeEnrollment, LoadOrCreate, NodeInv, TypeOK
<1>2. PICK sv : sv = server'
  OBVIOUS
<1>3. cmd.op = "enroll" /\ ~cmd.own
  BY DEF ExchangeNodeEnrollment, At, NodeInv, Position, OpOK
<1>4. sv \in Server /\ sv.receipt = server.receipt
      /\ (sv = server \/ (server.state \in {"none", "installing"} /\ sv.state = "installing"))
  BY <1>2 DEF ExchangeNodeEnrollment, ExchangeOK, NodeInv, TypeOK, Server
<1>5. id = identity \/ (server.state = "none" /\ id)
  BY <1>1 DEF ExchangeNodeEnrollment, LoadOrCreate, NodeInv, TypeOK
<1>6. server.state = "none" => wal = None /\ receipt = None /\ ~journal
  BY DEF NodeInv, Data, Known
<1>7. Data(wal, receipt, runtime, id, journal, sv, host)
  <2>1. LogOK(wal, host, receipt, sv, id)
    BY <1>4, <1>5, <1>6 DEF NodeInv, Data, LogOK, AnyLog, InstallLog
  <2>2. Working(host, receipt, runtime, sv)
    BY <1>4 DEF NodeInv, Data, Working
  <2>3. Known(wal, receipt, journal, id, sv) /\ Journal(wal, journal, id)
    BY <1>4, <1>5, <1>6 DEF NodeInv, Data, Known, Journal, IsRemoved
  <2>. QED  BY <2>1, <2>2, <2>3 DEF NodeInv, Data
<1>8. cmd' \in Command /\ Position(cmd', wal, receipt, runtime, id, journal, sv, host)
  <2>1. CASE cmd' = Idle
    BY <2>1, CommandEnds, EndedAnywhere DEF NodeInv, Position, Ends
  <2>2. CASE cmd' # Idle
    <3>1. cmd' = Goto("authorize") /\ id /\ sv.state = "installing"
      BY <1>1, <1>2, <2>2 DEF ExchangeNodeEnrollment, ExchangeOK, NodeInv, TypeOK, Server
    <3>2. cmd' \in Command /\ cmd'.pc = "authorize" /\ cmd'.op = "enroll" /\ ~cmd'.own
      BY <1>3, <3>1, Moves, Places DEF NodeInv
    <3>. QED  BY <3>1, <3>2
        DEF Position, OpOK, GoingForward, GoingBack, Elsewhere, Forward7, Back, Lifecycles,
            Cleanup, NewEnroll
  <2>. QED  BY <2>1, <2>2
<1>9. TypeOK'
  BY <1>1, <1>2, <1>4, <1>8, Spending DEF ExchangeNodeEnrollment, NodeInv, TypeOK
<1>. QED  BY <1>1, <1>2, <1>7, <1>8, <1>9 DEF ExchangeNodeEnrollment, NodeInv

\* A new record of the runtime, before the install or after it.
LEMMA NewRecord ==
    ASSUME NodeInv, cmd.pc \in {"runtime", "bind"},
           NEW next \in {"install", "activate"}, cmd.pc = "runtime" <=> next = "install",
           NEW bound \in BOOLEAN, NEW record, record = [bound |-> bound, grant |-> "none", pending |-> FALSE],
           \/ runtime' = record /\ cmd' = Goto(next) /\ UNCHANGED spent
           \/ WriteFails(Idle) /\ runtime' \in {runtime, record},
           UNCHANGED <<host, wal, receipt, identity, journal, server, expired>>
    PROVE  NodeInv'
<1>1. /\ cmd.op = "enroll" /\ identity /\ server.state \in {"installing", "verifying"}
      /\ cmd.pc = "runtime" => ~cmd.own
  BY DEF NodeInv, Position, OpOK, Elsewhere, NewEnroll
<1>2. PICK ru : ru = runtime'
  OBVIOUS
<1>3. record \in Runtime /\ record.grant = "none" /\ record # None
  <2>1. record \in Runtime /\ record.grant = "none"
    BY DEF Runtime
  <2>. QED  BY <2>1, NoneIsNoRecord
<1>4. ru \in {runtime, record}
  BY <1>2
<1>5. HasGrant(ru) <=> HasGrant(runtime)
  BY <1>1, <1>3, <1>4 DEF HasGrant, NodeInv, Data, Working
<1>6. Data(wal, receipt, ru, identity, journal, server, host)
  BY <1>5, Records
<1>7. cmd' \in Command /\ Position(cmd', wal, receipt, ru, identity, journal, server, host)
  <2>1. CASE cmd' = Idle
    BY <2>1, CommandEnds, EndedAnywhere DEF NodeInv, Position, Ends
  <2>2. CASE cmd' # Idle
    <3>1. cmd' = Goto(next) /\ ru = record
      BY <1>2, <2>2 DEF WriteFails
    <3>2. cmd' \in Command /\ cmd'.pc = next /\ cmd'.op = "enroll" /\ cmd'.own = cmd.own
      BY <1>1, <3>1, Moves, Places DEF NodeInv
    <3>. QED  BY <1>1, <1>3, <3>1, <3>2
        DEF Position, OpOK, GoingForward, GoingBack, Elsewhere, Forward7, Back, Lifecycles,
            Cleanup, NewEnroll
  <2>. QED  BY <2>1, <2>2
<1>8. TypeOK'
  <2>1. spent' \in [commands : Nat, faults : Nat]
    BY Spending DEF NodeInv, WriteFails
  <2>2. ru \in Runtime \cup {None}
    BY <1>3, <1>4 DEF NodeInv, TypeOK
  <2>. QED  BY <1>2, <1>7, <2>1, <2>2 DEF NodeInv, TypeOK
<1>. QED  BY <1>2, <1>6, <1>7, <1>8 DEF NodeInv

LEMMA SaveNewRuntimeStep ==
    ASSUME NodeInv, SaveNewRuntime
    PROVE  NodeInv'
<1>1. PICK record : record = [bound |-> FALSE, grant |-> "none", pending |-> FALSE]
  OBVIOUS
<1>2. /\ cmd.pc = "runtime"
      /\ \/ runtime' = record /\ cmd' = Goto("install") /\ UNCHANGED spent
         \/ WriteFails(Idle) /\ runtime' \in {runtime, record}
      /\ UNCHANGED <<host, wal, receipt, identity, journal, server, expired>>
  BY <1>1 DEF SaveNewRuntime, At
<1>. QED  BY <1>1, <1>2, NewRecord

LEMMA BindRuntimeStep ==
    ASSUME NodeInv, BindRuntime
    PROVE  NodeInv'
<1>1. PICK record : record = [bound |-> TRUE, grant |-> "none", pending |-> FALSE]
  OBVIOUS
<1>2. /\ cmd.pc = "bind"
      /\ \/ runtime' = record /\ cmd' = Goto("activate") /\ UNCHANGED spent
         \/ WriteFails(Idle) /\ runtime' \in {runtime, record}
      /\ UNCHANGED <<host, wal, receipt, identity, journal, server, expired>>
  BY <1>1 DEF BindRuntime, At
<1>. QED  BY <1>1, <1>2, NewRecord

-----------------------------------------------------------------------------
(* Steps forward, from the issued credential to the verified node. *)

\* An issuance that is kept or consumed leaves the grant.
LEMMA Pending ==
    ASSUME NEW ru \in Runtime, NEW p \in BOOLEAN
    PROVE  LET a == [ru EXCEPT !.pending = p]
           IN  a \in Runtime /\ a # None /\ a.grant = ru.grant
<1>1. PICK a : a = [ru EXCEPT !.pending = p]
  OBVIOUS
<1>2. a \in Runtime /\ a.grant = ru.grant
  BY <1>1 DEF Runtime
<1>. QED  BY <1>1, <1>2, NoneIsNoRecord

LEMMA WorkerCredentialStep ==
    ASSUME NodeInv, WorkerCredential
    PROVE  NodeInv'
<1>1. PICK issued : issued = [runtime EXCEPT !.pending = TRUE]
  OBVIOUS
<1>2. cmd.pc = "issue" /\ cmd.pc \in Forward7
  BY DEF WorkerCredential, At, Forward7
<1>3. issued \in Runtime /\ issued # None /\ issued.grant = runtime.grant
  BY <1>1, <1>2, Pending, IsForward
<1>4. PICK ru : ru = runtime'
  OBVIOUS
<1>5. ru \in {runtime, issued} /\ ru # None /\ ru \in Runtime
  BY <1>1, <1>2, <1>3, <1>4, IsForward DEF WorkerCredential
<1>6. Data(wal, receipt, ru, identity, journal, server, host)
  BY <1>2, <1>3, <1>5, IsForward, Records DEF HasGrant
<1>7. cmd' \in Command /\ Position(cmd', wal, receipt, ru, identity, journal, server, host)
  <2>1. CASE cmd' \in {failAndRollback, Idle}
    BY <1>2, <1>5, <2>1, ForwardFails
  <2>2. CASE cmd' \notin {failAndRollback, Idle}
    <3>1. cmd' = Goto("join")
      BY <2>2 DEF WorkerCredential, WriteFails
    <3>2. cmd' \in Command /\ cmd'.pc = "join" /\ cmd'.op = cmd.op /\ cmd'.own = cmd.own /\ cmd'.i = cmd.i
      BY <3>1, Moves, Places DEF NodeInv
    <3>3. cmd'.pc \in Forward7 /\ cmd'.pc \notin {"check", "confirm", "verify", "complete"}
      BY <3>2 DEF Forward7
    <3>. QED  BY <1>2, <1>5, <3>2, <3>3, IsForward, StaysForward
  <2>. QED  BY <2>1, <2>2
<1>8. TypeOK'
  <2>1. spent' \in [commands : Nat, faults : Nat]
    BY Spending DEF WorkerCredential, NodeInv, WriteFails
  <2>. QED  BY <1>4, <1>5, <1>7, <2>1 DEF WorkerCredential, NodeInv, TypeOK
<1>. QED  BY <1>4, <1>6, <1>7, <1>8 DEF WorkerCredential, NodeInv

LEMMA EnsureJoinedStep ==
    ASSUME NodeInv, EnsureJoined
    PROVE  NodeInv'
<1>1. cmd.pc = "join" /\ cmd.pc \in Forward7 /\ TypeOK
  BY DEF EnsureJoined, At, Forward7, NodeInv
<1>2. Eases(host, host) /\ Eases(host, Joined(host)) /\ \A g \in JoinPartly(host) : Eases(host, g)
  BY <1>1, HostOperations DEF TypeOK
<1>3. CASE Performs("join", JoinOK(host), Joined(host)) /\ cmd' = [Goto("capture") EXCEPT !.joined = TRUE]
  <2>1. cmd' \in Command /\ cmd'.pc = "capture" /\ cmd'.op = cmd.op /\ cmd'.own = cmd.own /\ cmd'.i = cmd.i
    <3>1. PICK a : a = Goto("capture")
      OBVIOUS
    <3>2. a \in Command /\ a.pc = "capture" /\ a.op = cmd.op /\ a.own = cmd.own /\ a.i = cmd.i
      BY <1>1, <3>1, Moves, Places
    <3>. QED  BY <1>3, <3>1, <3>2 DEF Command
  <2>2. cmd'.pc \in Forward7 /\ cmd'.pc \notin {"check", "confirm", "verify", "complete"}
    BY <2>1 DEF Forward7
  <2>3. Position(cmd', wal, receipt, runtime, identity, journal, server, host')
    BY <1>1, <2>1, <2>2, IsForward, StaysForward
  <2>4. Eases(host, host') /\ spent' \in [commands : Nat, faults : Nat]
    BY <1>1, <1>2, <1>3, Spending DEF Performs
  <2>. QED  BY <2>1, <2>3, <2>4, OnlyHost DEF EnsureJoined
<1>4. CASE ~(Performs("join", JoinOK(host), Joined(host)) /\ cmd' = [Goto("capture") EXCEPT !.joined = TRUE])
  <2>1. PICK partly : /\ partly = JoinPartly(host) \cup (IF JoinOK(host) THEN {Joined(host)} ELSE {})
                      /\ Breaks("join", JoinOK(host), partly, failAndRollback)
    BY <1>4 DEF EnsureJoined
  <2>2. /\ cmd' \in {failAndRollback, Idle} /\ host' \in {host} \cup partly
        /\ spent' \in [commands : Nat, faults : Nat]
    BY <1>1, <2>1, Broken
  <2>3. Eases(host, host')
    BY <1>2, <2>1, <2>2
  <2>4. cmd' \in Command /\ Position(cmd', wal, receipt, runtime, identity, journal, server, host')
    BY <1>1, <2>2, IsForward, ForwardFails
  <2>. QED  BY <2>2, <2>3, <2>4, OnlyHost DEF EnsureJoined
<1>. QED  BY <1>3, <1>4

LEMMA ConfirmStep ==
    ASSUME NodeInv, Confirm
    PROVE  NodeInv'
<1>1. cmd.pc = "confirm" /\ cmd.pc \in Forward7 /\ TypeOK
  BY DEF Confirm, At, Forward7, NodeInv
<1>2. PICK ru : ru = runtime'
  OBVIOUS
<1>3. PICK sv : sv = server'
  OBVIOUS
<1>4. /\ ru \in Runtime /\ ru # None /\ ru.grant = runtime.grant /\ runtime # None
      /\ sv \in Server
      /\ sv = server \/ (server.state \in {"installing", "verifying"} /\ sv.state = "verifying")
  <2>1. runtime \in Runtime /\ runtime # None
    BY <1>1, IsForward
  <2>2. ru \in {runtime, [runtime EXCEPT !.pending = FALSE]}
    BY <1>2 DEF Confirm, ConfirmJoined
  <2>3. ru \in Runtime /\ ru # None /\ ru.grant = runtime.grant
    BY <2>1, <2>2, Pending
  <2>4. sv = server \/ (server.state \in {"installing", "verifying"} /\ sv = Consumed)
    BY <1>3 DEF Confirm, ConfirmJoined, ConfirmOK
  <2>5. Consumed \in Server /\ Consumed.state = "verifying"
    BY <1>1 DEF Consumed, TypeOK, Server
  <2>. QED  BY <1>1, <2>1, <2>3, <2>4, <2>5 DEF TypeOK
<1>5. Data(wal, receipt, ru, identity, journal, sv, host)
  BY <1>4, Records DEF HasGrant
<1>6. cmd' \in Command /\ Position(cmd', wal, receipt, ru, identity, journal, sv, host)
  <2>1. CASE cmd' \in {failAndRollback, Idle}
    BY <1>1, <1>4, <2>1, ForwardFails
  <2>2. CASE cmd' \notin {failAndRollback, Idle}
    <3>1. cmd' = [Goto("verify") EXCEPT !.confirmed = TRUE]
      BY <2>2 DEF Confirm, ConfirmJoined, WriteFails
    <3>2. cmd' \in Command /\ cmd'.pc = "verify" /\ cmd'.op = cmd.op /\ cmd'.own = cmd.own /\ cmd'.i = cmd.i
      <4>1. PICK a : a = Goto("verify")
        OBVIOUS
      <4>2. a \in Command /\ a.pc = "verify" /\ a.op = cmd.op /\ a.own = cmd.own /\ a.i = cmd.i
        BY <1>1, <4>1, Moves, Places
      <4>. QED  BY <3>1, <4>1, <4>2 DEF Command
    <3>3. cmd'.pc \in Forward7 /\ cmd'.i = 4 /\ cmd'.pc # "complete"
      BY <1>1, <3>2, IsForward DEF Forward7
    <3>. QED  BY <1>1, <1>4, <3>2, <3>3, IsForward, StaysForward
  <2>. QED  BY <2>1, <2>2
<1>7. TypeOK'
  <2>1. spent' \in [commands : Nat, faults : Nat]
    BY <1>1, Spending DEF Confirm, ConfirmJoined, WriteFails
  <2>. QED  BY <1>1, <1>2, <1>3, <1>4, <1>6, <2>1 DEF Confirm, TypeOK
<1>. QED  BY <1>2, <1>3, <1>5, <1>6, <1>7 DEF Confirm, NodeInv

LEMMA VerifyStep ==
    ASSUME NodeInv, Verify
    PROVE  NodeInv'
<1>1. cmd.pc = "verify" /\ cmd.pc \in Forward7 /\ TypeOK /\ host \in Host
  BY DEF Verify, At, Forward7, NodeInv, TypeOK
<1>2. Eases(host, host) /\ Eases(host, updateRootKubernetesBinding(host))
  BY <1>1, HostOperations
<1>3. CASE Breaks("verify", VerifyOK(host), {}, failAndRollback)
  <2>1. /\ cmd' \in {failAndRollback, Idle} /\ host' = host
        /\ spent' \in [commands : Nat, faults : Nat]
    BY <1>1, <1>3, Broken
  <2>2. cmd' \in Command /\ Position(cmd', wal, receipt, runtime, identity, journal, server, host')
    BY <1>1, <2>1, IsForward, ForwardFails
  <2>. QED  BY <1>2, <2>1, <2>2, OnlyHost DEF Verify
<1>4. CASE ~Breaks("verify", VerifyOK(host), {}, failAndRollback)
  <2>1. /\ Performs("verify", VerifyOK(host), updateRootKubernetesBinding(host))
        /\ cmd' = IF cmd.op = "enroll" /\ ~cmd.own THEN Goto("bind") ELSE Goto("complete")
    BY <1>4 DEF Verify
  <2>2. Eases(host, host') /\ spent' \in [commands : Nat, faults : Nat]
    BY <1>1, <1>2, <2>1, Spending DEF Performs
  <2>3. host'.bound /\ Managed(host')
    <3>1. host.package = "signed"
      BY <2>1 DEF Performs, VerifyOK, verifyMutation, verifyPackage, Plan
    <3>. QED  BY <1>1, <2>1, <3>1 DEF Performs, updateRootKubernetesBinding, Managed, Host
  <2>4. CASE cmd.op = "enroll" /\ ~cmd.own
    <3>1. cmd' \in Command /\ cmd'.pc = "bind" /\ cmd'.op = "enroll" /\ ~cmd'.own
      BY <1>1, <2>1, <2>4, Moves, Places
    <3>2. Position(cmd', wal, receipt, runtime, identity, journal, server, host')
      <4>1. identity /\ server.state \in {"installing", "verifying"}
        BY <1>1, <2>4, IsForward
      <4>. QED  BY <3>1, <4>1
          DEF Position, OpOK, GoingForward, GoingBack, Elsewhere, Forward7, Back, Lifecycles,
              Cleanup, NewEnroll
    <3>. QED  BY <2>2, <3>1, <3>2, OnlyHost DEF Verify
  <2>5. CASE ~(cmd.op = "enroll" /\ ~cmd.own)
    <3>1. cmd' \in Command /\ cmd'.pc = "complete" /\ cmd'.op = cmd.op /\ cmd'.own = cmd.own /\ cmd'.i = cmd.i
      BY <1>1, <2>1, <2>5, Moves, Places
    <3>2. cmd'.pc \in Forward7 /\ cmd'.i = 4
      BY <1>1, <3>1, IsForward DEF Forward7
    <3>3. cmd'.own \/ cmd'.op = "recover"
      BY <1>1, <2>5, <3>1 DEF NodeInv, Position, OpOK
    <3>4. Position(cmd', wal, receipt, runtime, identity, journal, server, host')
      BY <1>1, <2>3, <3>1, <3>2, <3>3, IsForward, StaysForward
    <3>. QED  BY <2>2, <3>1, <3>4, OnlyHost DEF Verify
  <2>. QED  BY <2>4, <2>5
<1>. QED  BY <1>3, <1>4

\* A log of the same lifecycle that is as good.
LEMMA LogChanged ==
    ASSUME NEW h, Data(wal, receipt, runtime, identity, journal, server, h),
           wal # None, NEW w \in Log, w.life = wal.life,
           LogOK(w, h, receipt, server, identity), Journal(w, journal, identity)
    PROVE  w # None /\ Data(w, receipt, runtime, identity, journal, server, h)
<1>1. w # None
  BY NoneIsNoRecord
<1>2. NoLogOK(w, h, receipt) /\ PackageOK(w, h, receipt) /\ Known(w, receipt, journal, identity, server)
  BY <1>1 DEF Data, NoLogOK, PackageOK, Known
<1>. QED  BY <1>1, <1>2 DEF Data

LEMMA LogStep ==
    ASSUME NodeInv, NEW w \in Log \cup {None}, wal' = w, cmd' \in Command,
           spent' \in [commands : Nat, faults : Nat],
           UNCHANGED <<host, receipt, runtime, identity, journal, server, expired>>,
           Data(w, receipt, runtime, identity, journal, server, host),
           Position(cmd', w, receipt, runtime, identity, journal, server, host)
    PROVE  NodeInv'
<1>1. TypeOK'
  BY DEF NodeInv, TypeOK
<1>. QED  BY <1>1 DEF NodeInv

LEMMA CheckpointStep ==
    ASSUME NodeInv, Checkpoint
    PROVE  NodeInv'
<1>1. cmd.pc = "check" /\ cmd.pc \in Forward7 /\ TypeOK
  BY DEF Checkpoint, At, Forward7, NodeInv
<1>2. /\ cmd.i = 4 /\ runtime # None
      /\ IF cmd.own THEN OwnLog(cmd, wal) ELSE OthersLog(cmd, wal, receipt)
      /\ cmd.op = "enroll" => server.state \in {"installing", "verifying"}
  BY <1>1, IsForward
<1>3. spent' \in [commands : Nat, faults : Nat]
  BY <1>1, Spending DEF Checkpoint, WriteFails
<1>4. ASSUME NEW pc \in {"issue", "verify", "confirm"}, NEW w,
             IF cmd.own THEN OwnLog(cmd, w) ELSE OthersLog(cmd, w, receipt)
      PROVE  Goto(pc) \in Command /\ Position(Goto(pc), w, receipt, runtime, identity, journal, server, host)
  <2>1. PICK c : c = Goto(pc)
    OBVIOUS
  <2>2. c \in Command /\ c.pc = pc /\ c.op = cmd.op /\ c.own = cmd.own /\ c.i = 4
    BY <1>1, <1>2, <2>1, Moves, Places
  <2>3. c.pc \in Forward7 /\ c.pc # "complete"
    BY <2>2 DEF Forward7
  <2>4. Position(c, w, receipt, runtime, identity, journal, server, host)
    BY <1>1, <1>2, <1>4, <2>2, <2>3, StaysForward
  <2>. QED  BY <2>1, <2>2, <2>4
<1>5. CASE ~(cmd.op = "enroll" /\ cmd.own /\ cmd.joined)
  <2>1. PICK pc \in {"issue", "verify", "confirm"} : cmd' = Goto(pc)
    BY <1>5 DEF Checkpoint
  <2>2. cmd' \in Command /\ Position(cmd', wal, receipt, runtime, identity, journal, server, host)
    BY <1>2, <1>4, <2>1
  <2>. QED  BY <1>3, <1>5, <2>2, OnlyCommand DEF Checkpoint, NodeInv, TypeOK
<1>6. CASE cmd.op = "enroll" /\ cmd.own /\ cmd.joined
  <2>1. PICK saved : saved = [wal EXCEPT !.verifying = TRUE]
    OBVIOUS
  <2>2. OwnLog(cmd, wal) /\ wal \in Log /\ wal # None /\ wal.life = "install" /\ Len(wal.entries) = 3
    BY <1>1, <1>2, <1>6 DEF OwnLog, TypeOK
  <2>3. /\ saved \in Log
        /\ saved.life = wal.life /\ saved.stage = wal.stage /\ saved.left = wal.left
        /\ saved.residue = wal.residue /\ saved.kept = wal.kept /\ saved.cleanup = wal.cleanup
        /\ saved.terminal = wal.terminal /\ saved.original = wal.original
        /\ saved.entries = wal.entries
    BY <2>1, <2>2 DEF Log
  <2>4. /\ saved # None
        /\ Data(saved, receipt, runtime, identity, journal, server, host)
    <3>1. saved # None
      BY <2>3, NoneIsNoRecord
    <3>2. LogOK(saved, host, receipt, server, identity) /\ Journal(saved, journal, identity)
      BY <2>2, <2>3, <3>1 DEF NodeInv, Data, LogOK, AnyLog, InstallLog, Journal
    <3>. QED  BY <2>2, <2>3, <3>2, LogChanged DEF NodeInv
  <2>5. OwnLog(cmd, saved)
    BY <2>2, <2>3, <2>4 DEF OwnLog
  <2>6. PICK w : w = wal'
    OBVIOUS
  <2>7. w \in {wal, saved}
    BY <1>6, <2>1, <2>6 DEF Checkpoint
  <2>8. w \in Log \cup {None} /\ OwnLog(cmd, w) /\ Data(w, receipt, runtime, identity, journal, server, host)
    BY <2>2, <2>3, <2>4, <2>5, <2>7 DEF NodeInv
  <2>9. cmd' \in Command /\ Position(cmd', w, receipt, runtime, identity, journal, server, host)
    <3>1. CASE cmd' \in {failAndRollback, Idle}
      <4>1. cmd.pc \in Forward7 \cup {"apply"}
        BY <1>1
      <4>2. /\ failAndRollback \in Command /\ Idle \in Command
            /\ Position(failAndRollback, w, receipt, runtime, identity, journal, server, host)
            /\ Position(Idle, w, receipt, runtime, identity, journal, server, host)
        BY <1>2, <2>8, <4>1, FailsBack
      <4>. QED  BY <3>1, <4>2
    <3>2. CASE cmd' \notin {failAndRollback, Idle}
      <4>1. PICK pc \in {"issue", "verify", "confirm"} : cmd' = Goto(pc)
        BY <1>6, <3>2 DEF Checkpoint, WriteFails
      <4>. QED  BY <1>4, <1>6, <2>8, <4>1
    <3>. QED  BY <3>1, <3>2
  <2>. QED  BY <1>3, <2>6, <2>8, <2>9, LogStep DEF Checkpoint
<1>. QED  BY <1>5, <1>6

-----------------------------------------------------------------------------
(* Activation, capacity, retirement. *)

LEMMA ActivateStep ==
    ASSUME NodeInv, ActivateNode
    PROVE  NodeInv'
<1>1. /\ cmd.op = "enroll" /\ TypeOK /\ runtime # None /\ runtime \in Runtime
  BY DEF ActivateNode, At, NodeInv, TypeOK, Position, OpOK, Elsewhere
<1>2. PICK ru : ru = runtime'
  OBVIOUS
<1>3. PICK sv : sv = server'
  OBVIOUS
<1>4. /\ ru \in Runtime
      /\ ru = runtime \/ ru.grant = "current"
      /\ ru = runtime \/ sv = Activated
      /\ sv = server \/ (sv = Activated /\ ActivateOK)
  <2>1. Granted \in Runtime /\ Granted.grant = "current"
    BY <1>1 DEF Granted, Runtime
  <2>. QED  BY <1>1, <1>2, <1>3, <2>1 DEF ActivateNode
<1>5. ru # None /\ sv \in Server
  <2>1. Activated \in Server
    BY DEF Activated, Server
  <2>. QED  BY <1>1, <1>4, <2>1, NoneIsNoRecord DEF TypeOK
<1>6. Data(wal, receipt, ru, identity, journal, sv, host)
  <2>1. CASE sv = server
    <3>1. ru = runtime \/ (ru.grant = "current" /\ server.state = "active")
      BY <1>4, <2>1 DEF Activated
    <3>2. Working(host, receipt, ru, server)
      BY <1>5, <3>1 DEF NodeInv, Data, Working
    <3>. QED  BY <2>1, <3>2 DEF NodeInv, Data
  <2>2. CASE sv = Activated /\ ActivateOK
    <3>1. sv.state = "active" /\ identity /\ IsActive(receipt)
      BY <2>2 DEF Activated, ActivateOK, Active, IsActive
    <3>2. LogOK(wal, host, receipt, sv, identity)
      BY <3>1 DEF NodeInv, Data, LogOK, InstallLog
    <3>3. Working(host, receipt, ru, sv)
      BY <1>4, <1>5, <3>1 DEF NodeInv, Data, Working
    <3>4. Known(wal, receipt, journal, identity, sv)
      BY <3>1 DEF NodeInv, Data, Known
    <3>. QED  BY <3>2, <3>3, <3>4 DEF NodeInv, Data
  <2>. QED  BY <1>4, <2>1, <2>2
<1>7. cmd' \in Command /\ Position(cmd', wal, receipt, ru, identity, journal, sv, host)
  <2>1. CASE cmd' = Idle
    BY <2>1, CommandEnds, EndedAnywhere DEF NodeInv, Position, Ends
  <2>2. CASE cmd' # Idle
    <3>1. PICK pc \in {"release", "recheck"} : cmd' = Goto(pc)
      BY <2>2 DEF ActivateNode, WriteFails
    <3>2. cmd' \in Command /\ cmd'.pc = pc /\ cmd'.op = "enroll" /\ cmd'.own = cmd.own
      BY <1>1, <3>1, Moves, Places
    <3>. QED  BY <3>1, <3>2
        DEF Position, OpOK, GoingForward, GoingBack, Elsewhere, Forward7, Back, Lifecycles,
            Cleanup, NewEnroll
  <2>. QED  BY <2>1, <2>2
<1>8. TypeOK'
  <2>1. spent' \in [commands : Nat, faults : Nat]
    BY <1>1, Spending DEF ActivateNode, WriteFails
  <2>. QED  BY <1>1, <1>2, <1>3, <1>4, <1>5, <1>7, <2>1 DEF ActivateNode, TypeOK
<1>. QED  BY <1>2, <1>3, <1>6, <1>7, <1>8 DEF ActivateNode, NodeInv

LEMMA RetireStep ==
    ASSUME NodeInv, RetireRemovedNode
    PROVE  NodeInv'
<1>1. /\ cmd.op \in {"recover", "uninstall"} /\ ~cmd.own /\ TypeOK
      /\ wal # None /\ journal /\ wal.cleanup = 2
  BY DEF RetireRemovedNode, At, NodeInv, Position, OpOK, Elsewhere, Cleanup
<1>2. PICK sv : sv = server'
  OBVIOUS
<1>3. sv = server \/ (server.state = "active" /\ sv = Retired)
  BY <1>2 DEF RetireRemovedNode, Retirable
<1>4. Retired \in Server /\ Retired.state = "removed"
  BY <1>1 DEF Retired, TypeOK, Server
<1>5. Data(wal, receipt, runtime, identity, journal, sv, host)
  <2>1. CASE server.state = "active" /\ sv = Retired
    <3>1. wal.terminal # 0 /\ wal.stage = 3 /\ wal.life \in {"install", "repair", "uninstall"}
      BY <1>1 DEF NodeInv, TypeOK, Log, Data, LogOK, AnyLog
    <3>2. wal.life = "uninstall"
      BY <1>1, <2>1, <3>1 DEF NodeInv, Data, LogOK, InstallLog, RepairLog
    <3>3. host.bound /\ ~host.clustered /\ host.node # "released"
      BY <1>1, <3>1, <3>2 DEF NodeInv, Data, LogOK, UninstallLog
    <3>4. LogOK(wal, host, receipt, sv, identity)
      BY <3>2 DEF NodeInv, Data, LogOK
    <3>5. Working(host, receipt, runtime, sv)
      BY <1>4, <2>1, <3>3 DEF NodeInv, Data, Working
    <3>6. Known(wal, receipt, journal, identity, sv)
      BY <1>4, <2>1 DEF NodeInv, Data, Known
    <3>. QED  BY <3>4, <3>5, <3>6 DEF NodeInv, Data
  <2>. QED  BY <1>3, <2>1 DEF NodeInv
<1>6. cmd' \in Command /\ Position(cmd', wal, receipt, runtime, identity, journal, sv, host)
  <2>1. CASE cmd' = Idle
    BY <2>1, CommandEnds, EndedAnywhere DEF NodeInv, Position, Ends
  <2>2. CASE cmd' # Idle
    <3>1. cmd' = Goto("forget") /\ (sv = Retired \/ (sv = server /\ (~Retirable \/ server.receipt = "stale")))
      BY <1>2, <2>2 DEF RetireRemovedNode
    <3>2. cmd' \in Command /\ cmd'.pc = "forget" /\ cmd'.op = cmd.op /\ ~cmd'.own
      BY <1>1, <3>1, Moves, Places
    <3>3. sv.state = "active" => sv.receipt = "stale"
      BY <1>4, <3>1 DEF Retirable, NodeInv, Data, Known
    <3>. QED  BY <1>1, <3>2, <3>3
        DEF Position, OpOK, GoingForward, GoingBack, Elsewhere, Forward7, Back, Lifecycles,
            Cleanup, NewEnroll
  <2>. QED  BY <2>1, <2>2
<1>7. TypeOK'
  <2>1. spent' \in [commands : Nat, faults : Nat]
    BY <1>1, Spending DEF RetireRemovedNode
  <2>. QED  BY <1>1, <1>2, <1>3, <1>4, <1>6, <2>1 DEF RetireRemovedNode, TypeOK
<1>. QED  BY <1>2, <1>5, <1>6, <1>7 DEF RetireRemovedNode, NodeInv

LEMMA ReleaseStep ==
    ASSUME NodeInv, ReleaseNodeCapacity
    PROVE  NodeInv'
<1>1. cmd.op = "enroll" /\ TypeOK
  BY DEF ReleaseNodeCapacity, At, NodeInv, Position, OpOK
<1>2. PICK h : h = host'
  OBVIOUS
<1>3. PICK ok : ok = (verifyActivationRecoveryEvidence /\ Observable(host))
  OBVIOUS
<1>4. \/ /\ Performs("release_capacity", ok, releaseNodeCapacity(host)) /\ cmd' = Goto("finalize")
      \/ Interrupted("release_capacity", IF ok THEN {releaseNodeCapacity(host)} ELSE {}, Idle)
  BY <1>3 DEF ReleaseNodeCapacity
<1>5. \/ h = host
      \/ h = releaseNodeCapacity(host) /\ verifyActivationRecoveryEvidence /\ Observable(host)
  BY <1>2, <1>3, <1>4 DEF Performs, Interrupted
<1>6. h \in Host
  BY <1>1, <1>5 DEF releaseNodeCapacity, TypeOK, Host, NodeState
<1>7. Observable(host) => host.clustered
  BY DEF Observable, clusterRuntimePresent
<1>8. verifyActivationRecoveryEvidence => IsActive(receipt) /\ HasGrant(runtime)
  BY DEF verifyActivationRecoveryEvidence, Active, IsActive, HasGrant
<1>9. Data(wal, receipt, runtime, identity, journal, server, h)
  <2>1. CASE h = releaseNodeCapacity(host) /\ verifyActivationRecoveryEvidence /\ Observable(host)
    <3>1. /\ h.package = host.package /\ h.original = host.original /\ h.service = host.service
          /\ h.bound = host.bound /\ h.policy = host.policy /\ h.clustered = host.clustered
      BY <1>1, <2>1 DEF releaseNodeCapacity, TypeOK, Host
    <3>2. ASSUME NEW es PROVE LeadsBack(es, host) <=> LeadsBack(es, h)
      BY <3>1 DEF LeadsBack
    <3>3. ASSUME NEW es PROVE Complete3(es, host) <=> Complete3(es, h)
      BY <3>2 DEF Complete3
    <3>4. ReceiptOK(receipt, h) /\ LogOK(wal, h, receipt, server, identity)
      BY <1>7, <2>1, <3>1, <3>2, <3>3
        DEF NodeInv, Data, ReceiptOK, LogOK, AnyLog, InstallLog, RepairLog, UninstallLog, Managed
    <3>5. NoLogOK(wal, h, receipt) /\ PackageOK(wal, h, receipt)
      BY <3>1 DEF NodeInv, Data, NoLogOK, PackageOK, Managed
    <3>6. Working(h, receipt, runtime, server)
      <4>1. server.state = "active"
        BY <1>7, <1>8, <2>1 DEF NodeInv, Data, Working, HasGrant
      <4>. QED  BY <1>7, <1>8, <2>1, <3>1, <4>1 DEF NodeInv, Data, Working, HasGrant, IsActive
    <3>. QED  BY <3>4, <3>5, <3>6 DEF NodeInv, Data
  <2>. QED  BY <1>5, <2>1 DEF NodeInv
<1>10. cmd' \in Command /\ Position(cmd', wal, receipt, runtime, identity, journal, server, h)
  <2>1. CASE cmd' = Idle
    BY <2>1, CommandEnds, EndedAnywhere DEF NodeInv, Position, Ends
  <2>2. CASE cmd' # Idle
    <3>1. cmd' = Goto("finalize") /\ verifyActivationRecoveryEvidence /\ Observable(host)
      BY <1>3, <1>4, <2>2 DEF Performs, Interrupted
    <3>2. cmd' \in Command /\ cmd'.pc = "finalize" /\ cmd'.op = "enroll" /\ cmd'.own = cmd.own
      BY <1>1, <3>1, Moves, Places
    <3>3. wal # None => wal.terminal = 0
      <4>1. wal # None => wal.life \in {"install", "repair", "uninstall"}
        BY <1>1 DEF TypeOK, Log
      <4>. QED  BY <1>7, <1>8, <3>1, <4>1
          DEF NodeInv, Data, LogOK, AnyLog, InstallLog, RepairLog, UninstallLog
    <3>. QED  BY <1>8, <3>1, <3>2, <3>3
        DEF Position, OpOK, GoingForward, GoingBack, Elsewhere, Forward7, Back, Lifecycles,
            Cleanup, NewEnroll
  <2>. QED  BY <2>1, <2>2
<1>11. spent' \in [commands : Nat, faults : Nat]
  BY <1>1, <1>4, Spending DEF Performs, Interrupted
<1>12. TypeOK'
  BY <1>1, <1>2, <1>6, <1>10, <1>11 DEF ReleaseNodeCapacity, KeepFiles, TypeOK
<1>. QED  BY <1>2, <1>9, <1>10, <1>12 DEF ReleaseNodeCapacity, KeepFiles, NodeInv

LEMMA FinalizeStep ==
    ASSUME NodeInv, FinalizeServiceState
    PROVE  NodeInv'
<1>1. /\ TypeOK /\ OpOK(cmd) /\ host \in Host /\ IsActive(receipt)
      /\ wal # None => wal.terminal = 0 /\ (cmd.op # "enroll" => wal.life # "uninstall")
  BY DEF FinalizeServiceState, At, NodeInv, TypeOK, Position, Elsewhere
<1>2. PICK partly : partly = FinalizePartly(host)
                                \cup (IF FinalizeOK(host) THEN {finalizeServiceState(host)} ELSE {})
  OBVIOUS
<1>3. \/ /\ Performs("finalize", FinalizeOK(host), finalizeServiceState(host))
         /\ cmd' = IF wal = None \/ cmd.op = "enroll" THEN Idle ELSE Goto("unwal_last")
      \/ Breaks("finalize", FinalizeOK(host), partly, restoreAfterFailure)
  BY <1>2 DEF FinalizeServiceState
<1>4. PICK h : h = host'
  OBVIOUS
<1>5. h \in {host} \cup partly
  <2>1. CASE Performs("finalize", FinalizeOK(host), finalizeServiceState(host))
    BY <1>2, <1>4, <2>1 DEF Performs
  <2>2. CASE Breaks("finalize", FinalizeOK(host), partly, restoreAfterFailure)
    BY <1>1, <1>4, <2>2, Broken
  <2>. QED  BY <1>3, <2>1, <2>2
<1>6. /\ h \in Host /\ h.package = host.package /\ h.original = host.original /\ h.node = host.node
      /\ h.bound = host.bound /\ h.clustered = host.clustered
      /\ h.service # "none" <=> host.service # "none"
  <2>1. PICK a : a = TransferToDaemon(host)
    OBVIOUS
  <2>2. /\ a \in Host /\ a.package = host.package /\ a.original = host.original /\ a.node = host.node
        /\ a.bound = host.bound /\ a.clustered = host.clustered /\ a.service = host.service
    BY <1>1, <2>1 DEF TransferToDaemon, transitionPrivateStateOwnership, Host
  <2>3. PICK b : b = [a EXCEPT !.policy = TRUE]
    OBVIOUS
  <2>4. /\ b \in Host /\ b.package = host.package /\ b.original = host.original /\ b.node = host.node
        /\ b.bound = host.bound /\ b.clustered = host.clustered /\ b.service = host.service
    BY <2>2, <2>3 DEF Host
  <2>5. PICK c : c = [b EXCEPT !.service = "running"]
    OBVIOUS
  <2>6. /\ c \in Host /\ c.package = host.package /\ c.original = host.original /\ c.node = host.node
        /\ c.bound = host.bound /\ c.clustered = host.clustered /\ c.service = "running"
    BY <2>4, <2>5 DEF Host
  <2>7. h \in {host, a, b} \/ (h = c /\ host.service # "none")
    BY <1>2, <1>5, <2>1, <2>3, <2>5
       DEF FinalizePartly, FinalizeOK, finalizeServiceState, startAndVerifyNodeService
  <2>. QED  BY <1>1, <2>2, <2>4, <2>6, <2>7
<1>7. Data(wal, receipt, runtime, identity, journal, server, h)
  <2>1. ASSUME NEW es PROVE LeadsBack(es, host) <=> LeadsBack(es, h)
    BY <1>6 DEF LeadsBack
  <2>2. ASSUME NEW es PROVE Complete3(es, host) <=> Complete3(es, h)
    BY <2>1 DEF Complete3
  <2>3. LogOK(wal, h, receipt, server, identity)
    <3>1. ASSUME wal # None PROVE AnyLog(wal, h, identity)
      <4>1. wal.cleanup = 0
        BY <1>1, <3>1 DEF NodeInv, Data, LogOK, AnyLog
      <4>. QED  BY <3>1, <4>1 DEF NodeInv, Data, LogOK, AnyLog
    <3>2. ASSUME wal # None, wal.life = "install" PROVE InstallLog(wal, h, receipt, server)
      BY <1>1, <1>6, <2>1, <2>2, <3>2 DEF NodeInv, Data, LogOK, InstallLog, Managed
    <3>3. ASSUME wal # None, wal.life = "repair" PROVE RepairLog(wal, h, receipt)
      BY <2>2, <3>3 DEF NodeInv, Data, LogOK, RepairLog
    <3>4. ASSUME wal # None, wal.life = "uninstall" PROVE UninstallLog(wal, h)
      BY <1>6, <2>1, <3>4 DEF NodeInv, Data, LogOK, UninstallLog
    <3>. QED  BY <3>1, <3>2, <3>3, <3>4 DEF LogOK
  <2>4. ReceiptOK(receipt, h) /\ NoLogOK(wal, h, receipt) /\ PackageOK(wal, h, receipt)
    BY <1>6, <2>2 DEF NodeInv, Data, ReceiptOK, NoLogOK, PackageOK, Managed
  <2>5. Working(h, receipt, runtime, server)
    BY <1>1, <1>6 DEF NodeInv, Data, Working, IsActive
  <2>. QED  BY <2>3, <2>4, <2>5 DEF NodeInv, Data
<1>8. spent' \in [commands : Nat, faults : Nat]
  <2>1. CASE Performs("finalize", FinalizeOK(host), finalizeServiceState(host))
    BY <1>1, <2>1, Spending DEF Performs
  <2>2. CASE Breaks("finalize", FinalizeOK(host), partly, restoreAfterFailure)
    BY <1>1, <2>2, Broken
  <2>. QED  BY <1>3, <2>1, <2>2
<1>9. cmd' \in Command /\ Position(cmd', wal, receipt, runtime, identity, journal, server, h)
  <2>1. CASE cmd' \in {restoreAfterFailure, Idle}
    BY <1>1, <2>1, CommandEnds, EndedAnywhere DEF Ends
  <2>2. CASE cmd' \notin {restoreAfterFailure, Idle}
    <3>1. ~Breaks("finalize", FinalizeOK(host), partly, restoreAfterFailure)
      BY <1>1, <2>2, Broken
    <3>2. cmd' = Goto("unwal_last") /\ wal # None /\ cmd.op # "enroll"
      BY <1>3, <2>2, <3>1
    <3>3. cmd' \in Command /\ cmd'.pc = "unwal_last" /\ cmd'.op = cmd.op /\ cmd'.own = cmd.own
      BY <1>1, <3>2, Moves, Places
    <3>4. cmd.own => cmd.op \in {"enroll", "repair"}
      BY <1>1 DEF OpOK
    <3>. QED  BY <1>1, <3>2, <3>3, <3>4
        DEF Position, OpOK, GoingForward, GoingBack, Elsewhere, Forward7, Back, Lifecycles,
            Cleanup, NewEnroll
  <2>. QED  BY <2>1, <2>2
<1>10. TypeOK'
  BY <1>1, <1>4, <1>6, <1>8, <1>9 DEF FinalizeServiceState, KeepFiles, TypeOK
<1>. QED  BY <1>4, <1>7, <1>9, <1>10 DEF FinalizeServiceState, KeepFiles, NodeInv

-----------------------------------------------------------------------------
(* Recovery finds its way. *)

LEMMA ReconcileStep ==
    ASSUME NodeInv, ReconcileRecovery
    PROVE  NodeInv'
<1>1. /\ TypeOK /\ OpOK(cmd) /\ host \in Host /\ cmd.op = "recover" /\ ~cmd.own
      /\ wal # None /\ ~journal /\ identity /\ runtime # None
      /\ wal.life = "uninstall" => cmd.joined /\ host.bound
  BY
     DEF ReconcileRecovery, At, NodeInv, TypeOK, Position, OpOK, Elsewhere, Lifecycles, Data,
         LogOK, UninstallLog
<1>2. Eases(host, host) /\ Eases(host, AbortJoin(host)) /\ Eases(host, AbortJoinUnanswered(host))
  BY <1>1, HostOperations
<1>3. CASE Breaks("abort_join", AbortJoinOK(host), {AbortJoin(host)}, restoreAfterFailure)
  <2>1. /\ cmd' \in {restoreAfterFailure, Idle} /\ host' \in {host, AbortJoin(host)}
        /\ spent' \in [commands : Nat, faults : Nat]
    BY <1>1, <1>3, Broken
  <2>. QED  BY <1>1, <1>2, <2>1, CommandEnds, EndedAnywhere, OnlyHost DEF ReconcileRecovery, Ends
<1>4. CASE ~Breaks("abort_join", AbortJoinOK(host), {AbortJoin(host)}, restoreAfterFailure)
  <2>1. /\ (cmd' = Goto("settle") /\ cmd.joined) \/ cmd' = [Goto("settle") EXCEPT !.joined = host'.bound]
        /\ host' \in {host, AbortJoin(host), AbortJoinUnanswered(host)}
        /\ Fault \/ UNCHANGED spent
    BY <1>4 DEF ReconcileRecovery, Performs
  <2>2. Eases(host, host') /\ host' \in Host
    BY <1>2, <2>1 DEF Eases
  <2>3. /\ cmd' \in Command /\ cmd'.pc = "settle" /\ cmd'.op = "recover" /\ ~cmd'.own
        /\ cmd'.joined = cmd.joined \/ cmd'.joined = host'.bound
    <3>1. PICK a : a = Goto("settle")
      OBVIOUS
    <3>2. a \in Command /\ a.pc = "settle" /\ a.op = "recover" /\ ~a.own /\ a.joined = cmd.joined
      BY <1>1, <3>1, Moves, Places
    <3>3. cmd' = a \/ cmd' = [a EXCEPT !.joined = host'.bound]
      BY <2>1, <3>1
    <3>. QED  BY <2>2, <3>2, <3>3 DEF Command, Host
  <2>4. wal.life = "uninstall" => cmd'.joined
    BY <1>1, <2>2, <2>3 DEF Eases
  <2>5. Position(cmd', wal, receipt, runtime, identity, journal, server, host')
    BY <1>1, <2>3, <2>4
       DEF Position, OpOK, GoingForward, GoingBack, Elsewhere, Forward7, Back, Lifecycles,
           Cleanup, NewEnroll
  <2>6. spent' \in [commands : Nat, faults : Nat]
    BY <1>1, <2>1, Spending
  <2>. QED  BY <2>2, <2>3, <2>5, <2>6, OnlyHost DEF ReconcileRecovery
<1>. QED  BY <1>3, <1>4

LEMMA SettleStep ==
    ASSUME NodeInv, SettleJoin
    PROVE  NodeInv'
<1>1. /\ TypeOK /\ OpOK(cmd) /\ cmd.op = "recover" /\ ~cmd.own /\ cmd \in Command
      /\ wal # None /\ wal \in Log /\ ~journal /\ identity /\ runtime # None /\ runtime \in Runtime
      /\ wal.life = "uninstall" => cmd.joined
  BY DEF SettleJoin, At, NodeInv, TypeOK, Position, OpOK, Elsewhere, Lifecycles
<1>2. PICK ru : ru = runtime'
  OBVIOUS
<1>3. PICK sv : sv = server'
  OBVIOUS
<1>4. PICK next : next = NextOfRecovery
  OBVIOUS
<1>5. /\ next \in Command /\ next.op = "recover" /\ ~next.own /\ next.joined = cmd.joined
      /\ \/ next.pc = "receipt" /\ wal.stage = 4 /\ wal.life # "uninstall"
         \/ next.pc = "rollback" /\ (wal.stage # 4 \/ wal.life = "uninstall")
               /\ (wal.life = "uninstall" => wal.terminal = 0)
         \/ next.pc = "journal" /\ wal.life = "uninstall" /\ wal.terminal # 0
         \/ next.pc = "check" /\ next.i = 4 /\ wal.life = "install" /\ wal.stage # 4 /\ Forward(wal)
  <2>1. Len(Plan) = 3
    BY DEF Plan
  <2>2. wal.life \in {"install", "repair", "uninstall"}
    BY <1>1 DEF Log
  <2>3. \/ next = Goto("receipt") /\ wal.stage = 4 /\ wal.life # "uninstall"
        \/ next = Goto("rollback") /\ (wal.stage # 4 \/ wal.life = "uninstall")
               /\ (wal.life = "uninstall" => wal.terminal = 0)
        \/ next = Goto("journal") /\ wal.life = "uninstall" /\ wal.terminal # 0
        \/ next = Loop("check", 4) /\ wal.life = "install" /\ wal.stage # 4 /\ Forward(wal)
    BY <1>4, <2>1, <2>2 DEF NextOfRecovery, Forward
  <2>4. \A pc \in {"receipt", "rollback", "journal", "check"} : pc \in PC
    BY DEF PC
  <2>. QED  BY <1>1, <2>3, <2>4, Moves
<1>6. /\ ru \in Runtime /\ ru # None /\ ru.grant = runtime.grant
      /\ sv \in Server
      /\ sv = server \/ (server.state \in {"installing", "verifying"} /\ sv.state = "verifying")
  <2>1. ru \in {runtime, [runtime EXCEPT !.pending = FALSE]}
    BY <1>2 DEF SettleJoin, ConfirmJoined
  <2>2. ru \in Runtime /\ ru # None /\ ru.grant = runtime.grant
    BY <1>1, <2>1, Pending
  <2>3. sv = server \/ (server.state \in {"installing", "verifying"} /\ sv = Consumed)
    BY <1>3 DEF SettleJoin, ConfirmJoined, ConfirmOK
  <2>4. Consumed \in Server /\ Consumed.state = "verifying"
    BY <1>1 DEF Consumed, TypeOK, Server
  <2>. QED  BY <1>1, <2>2, <2>3, <2>4 DEF TypeOK
<1>7. Data(wal, receipt, ru, identity, journal, sv, host)
  BY <1>1, <1>6, Records DEF HasGrant
<1>8. cmd' \in Command /\ Position(cmd', wal, receipt, ru, identity, journal, sv, host)
  <2>1. CASE cmd' \in {restoreAfterFailure, Idle}
    BY <1>1, <2>1, CommandEnds, EndedAnywhere DEF Ends
  <2>2. CASE cmd' \notin {restoreAfterFailure, Idle}
    <3>1. PICK x \in BOOLEAN : cmd' = [next EXCEPT !.confirmed = x]
      BY <1>1, <1>4, <2>2 DEF SettleJoin, ConfirmJoined, WriteFails, Command
    <3>2. /\ cmd' \in Command /\ cmd'.op = "recover" /\ ~cmd'.own /\ cmd'.joined = cmd.joined
          /\ cmd'.pc = next.pc /\ cmd'.i = next.i
      BY <1>5, <3>1 DEF Command
    <3>3. wal.life = "uninstall" => wal.stage = 3 /\ (wal.terminal # 0 => ~wal.residue)
      BY <1>1 DEF NodeInv, Data, LogOK, UninstallLog
    <3>4. wal.stage # 4 => wal.stage <= 3
      BY <1>1 DEF Log
    <3>5. OpOK(cmd')
      BY <1>5, <3>2 DEF OpOK, Forward7, Back, Cleanup
    <3>6. GoingForward(cmd', wal, receipt, host)
      <4>1. cmd'.pc = "check" => OthersLog(cmd', wal, receipt)
        <5>1. ASSUME cmd'.pc = "check" PROVE wal.verifying /\ AllApplied(wal.entries) /\ wal.life = "install" /\ wal.stage < 4
          BY <1>1, <1>5, <3>2, <5>1 DEF Forward, allMutationStatuses, AllApplied, Log
        <5>2. wal.life = "install" /\ wal.verifying => Len(wal.entries) = 3
          BY <1>1 DEF NodeInv, Data, LogOK, InstallLog
        <5>. QED  BY <1>1, <1>5, <3>2, <5>1, <5>2 DEF OthersLog
      <4>. QED  BY <1>1, <1>5, <3>2, <4>1 DEF GoingForward, Forward7
    <3>7. GoingBack(cmd', wal)
      BY <1>1, <1>5, <3>2, <3>3, <3>4 DEF GoingBack, Back
    <3>8. Elsewhere(cmd', wal, receipt, ru, journal, identity, sv)
      BY <1>1, <1>5, <1>6, <3>2, <3>3 DEF Elsewhere, Forward7, Back, Lifecycles, Cleanup, NewEnroll
    <3>. QED  BY <3>2, <3>5, <3>6, <3>7, <3>8 DEF Position
  <2>. QED  BY <2>1, <2>2
<1>9. TypeOK'
  <2>1. spent' \in [commands : Nat, faults : Nat]
    BY <1>1, Spending DEF SettleJoin, ConfirmJoined, WriteFails
  <2>. QED  BY <1>1, <1>2, <1>3, <1>6, <1>8, <2>1 DEF SettleJoin, TypeOK
<1>. QED  BY <1>2, <1>3, <1>7, <1>8, <1>9 DEF SettleJoin, NodeInv

-----------------------------------------------------------------------------
(* Stages of the log: completed, or rolled back. *)

LEMMA CompleteStep ==
    ASSUME NodeInv, Complete
    PROVE  NodeInv'
<1>1. /\ cmd.pc = "complete" /\ cmd.pc \in Forward7 /\ TypeOK /\ OpOK(cmd)
      /\ cmd.own \/ cmd.op = "recover"
      /\ host.bound /\ Managed(host)
      /\ cmd.op = "recover" => ~journal
  BY DEF Complete, At, Forward7, NodeInv, Position, OpOK, GoingForward, Elsewhere, Lifecycles
<1>2. /\ IF cmd.own THEN OwnLog(cmd, wal) ELSE OthersLog(cmd, wal, receipt)
      /\ identity /\ runtime # None /\ cmd.i = 4
      /\ cmd.op = "enroll" => server.state \in {"installing", "verifying"}
  BY <1>1, IsForward
<1>3. wal # None /\ wal \in Log /\ wal.life # "uninstall" /\ Len(wal.entries) = 3 /\ AllApplied(wal.entries)
  BY <1>1, <1>2 DEF OwnLog, OthersLog, TypeOK
<1>4. PICK saved : saved = [wal EXCEPT !.stage = 4, !.verifying = TRUE]
  OBVIOUS
<1>5. /\ saved \in Log /\ saved.stage = 4 /\ saved.verifying
      /\ saved.life = wal.life /\ saved.left = wal.left
      /\ saved.residue = wal.residue /\ saved.kept = wal.kept /\ saved.cleanup = wal.cleanup
      /\ saved.terminal = wal.terminal /\ saved.original = wal.original
      /\ saved.entries = wal.entries
  <2>1. PICK a : a = [wal EXCEPT !.stage = 4]
    OBVIOUS
  <2>2. /\ a \in Log /\ a.stage = 4
        /\ a.life = wal.life /\ a.left = wal.left
        /\ a.residue = wal.residue /\ a.kept = wal.kept /\ a.cleanup = wal.cleanup
        /\ a.terminal = wal.terminal /\ a.original = wal.original
        /\ a.entries = wal.entries
    BY <1>3, <2>1 DEF Log
  <2>3. saved = [a EXCEPT !.verifying = TRUE]
    BY <1>4, <2>1
  <2>. QED  BY <2>2, <2>3 DEF Log
<1>6. saved # None /\ Data(saved, receipt, runtime, identity, journal, server, host)
  <2>1. wal.entries # <<>>
    BY <1>3
  <2>2. wal.terminal = 0
    BY <1>3, <2>1 DEF NodeInv, Data, LogOK, AnyLog
  <2>3. AnyLog(saved, host, identity)
    BY <1>3, <1>5, <2>2 DEF NodeInv, Data, LogOK, AnyLog
  <2>4. saved.life = "install" => InstallLog(saved, host, receipt, server)
    BY <1>1, <1>3, <1>5 DEF NodeInv, Data, LogOK, InstallLog, Complete3
  <2>5. saved.life = "repair" => RepairLog(saved, host, receipt)
    BY <1>3, <1>5 DEF NodeInv, Data, LogOK, RepairLog
  <2>6. LogOK(saved, host, receipt, server, identity)
    BY <1>3, <1>5, <2>3, <2>4, <2>5 DEF LogOK
  <2>7. Journal(saved, journal, identity)
    BY <1>3, <1>5, NoneIsNoRecord DEF NodeInv, Data, Journal
  <2>. QED  BY <1>3, <1>5, <2>6, <2>7, LogChanged DEF NodeInv
<1>7. PICK w : w = wal'
  OBVIOUS
<1>8. w \in {wal, saved}
  BY <1>4, <1>7 DEF Complete
<1>9. cmd' \in Command /\ Position(cmd', w, receipt, runtime, identity, journal, server, host)
  <2>1. CASE cmd' \in {restoreAfterFailure, Idle}
    BY <1>1, <2>1, CommandEnds, EndedAnywhere DEF Ends
  <2>2. CASE cmd' \notin {restoreAfterFailure, Idle}
    <3>1. cmd' = Goto("receipt") /\ w = saved
      BY <1>4, <1>7, <2>2 DEF Complete, WriteFails
    <3>2. cmd' \in Command /\ cmd'.pc = "receipt" /\ cmd'.op = cmd.op /\ cmd'.own = cmd.own
      BY <1>1, <3>1, Moves, Places
    <3>3. cmd.op # "uninstall" /\ (cmd.own => cmd.op \in {"enroll", "repair"})
      BY <1>1 DEF OpOK
    <3>. QED  BY <1>1, <1>2, <1>3, <1>5, <1>6, <3>1, <3>2, <3>3
        DEF Position, OpOK, GoingForward, GoingBack, Elsewhere, Forward7, Back, Lifecycles,
            Cleanup, NewEnroll
  <2>. QED  BY <2>1, <2>2
<1>10. spent' \in [commands : Nat, faults : Nat]
  BY <1>1, Spending DEF Complete, WriteFails
<1>11. w \in Log \cup {None} /\ Data(w, receipt, runtime, identity, journal, server, host)
  BY <1>3, <1>5, <1>6, <1>8 DEF NodeInv
<1>. QED  BY <1>7, <1>9, <1>10, <1>11, LogStep DEF Complete

\* Where a command that goes back is.
LEMMA IsBack ==
    ASSUME NodeInv, cmd.pc \in Back
    PROVE  /\ TypeOK /\ OpOK(cmd) /\ wal # None /\ wal \in Log /\ wal.stage <= 3 /\ GoingBack(cmd, wal)
           /\ LogOK(wal, host, receipt, server, identity)
           /\ identity /\ runtime # None /\ ~journal
           /\ cmd.op \in {"enroll", "repair", "recover", "uninstall"}
           /\ cmd.own <=> cmd.op \in {"enroll", "repair"}
<1>1. /\ TypeOK /\ OpOK(cmd) /\ wal # None /\ wal \in Log /\ wal.stage <= 3 /\ GoingBack(cmd, wal)
      /\ identity /\ runtime # None
      /\ cmd.op \in {"recover", "uninstall"} => ~journal
  BY DEF NodeInv, TypeOK, Position, GoingBack, Elsewhere, Lifecycles
<1>2. /\ cmd.op \in {"enroll", "repair", "recover", "uninstall"}
      /\ cmd.own <=> cmd.op \in {"enroll", "repair"}
  BY <1>1 DEF OpOK, TypeOK, Command, Op
<1>3. cmd.own => ~journal
  BY <1>1 DEF GoingBack, NodeInv, Data, Journal
<1>. QED  BY <1>1, <1>2, <1>3 DEF NodeInv, Data

\* A log has at most one entry for each mutation of the plan.
LEMMA EntriesLength ==
    ASSUME NEW es \in Entries
    PROVE  es \in Seq(Entry) /\ Len(es) \in 0 .. 3 /\ DOMAIN es = 1 .. Len(es)
<1>1. es \in Seq(Entry) /\ Len(es) <= 3
  BY DEF Entries
<1>2. Len(es) \in Nat /\ DOMAIN es = 1 .. Len(es)
  BY <1>1
<1>. QED  BY <1>1, <1>2

LEMMA BeginRollbackStep ==
    ASSUME NodeInv, BeginRollback
    PROVE  NodeInv'
<1>1. cmd.pc = "rollback" /\ cmd.pc \in Back
  BY DEF BeginRollback, At, Back
<1>2. /\ TypeOK /\ OpOK(cmd) /\ wal # None /\ wal \in Log /\ wal.stage <= 3 /\ GoingBack(cmd, wal)
      /\ identity /\ runtime # None /\ ~journal
      /\ cmd.op \in {"enroll", "repair", "recover", "uninstall"}
      /\ cmd.own <=> cmd.op \in {"enroll", "repair"}
  BY <1>1, IsBack
<1>3. PICK saved : saved = [wal EXCEPT !.stage = 3]
  OBVIOUS
<1>4. /\ saved \in Log /\ saved.stage = 3 /\ saved.verifying = wal.verifying
      /\ saved.life = wal.life /\ saved.left = wal.left
      /\ saved.residue = wal.residue /\ saved.kept = wal.kept /\ saved.cleanup = wal.cleanup
      /\ saved.terminal = wal.terminal /\ saved.original = wal.original
      /\ saved.entries = wal.entries
  BY <1>2, <1>3 DEF Log
<1>5. saved # None /\ Data(saved, receipt, runtime, identity, journal, server, host)
  <2>1. wal.stage # 4
    BY <1>2 DEF Log
  <2>2. LogOK(saved, host, receipt, server, identity)
    BY <1>2, <1>4, <2>1 DEF NodeInv, Data, LogOK, AnyLog, InstallLog, RepairLog, UninstallLog
  <2>3. Journal(saved, journal, identity)
    BY <1>2, <1>4 DEF NodeInv, Data, Journal
  <2>. QED  BY <1>2, <1>4, <2>2, <2>3, LogChanged DEF NodeInv
<1>6. PICK w : w = wal'
  OBVIOUS
<1>7. w \in {wal, saved}
  BY <1>3, <1>6 DEF BeginRollback
<1>8. cmd' \in Command /\ Position(cmd', w, receipt, runtime, identity, journal, server, host)
  <2>1. CASE cmd' \in {restoreAfterFailure, Idle}
    BY <1>2, <2>1, CommandEnds, EndedAnywhere DEF Ends
  <2>2. CASE cmd' \notin {restoreAfterFailure, Idle}
    <3>1. cmd' = Loop("undo", Len(wal.entries)) /\ w = saved
      BY <1>3, <1>6, <2>2 DEF BeginRollback, WriteFails
    <3>2. wal.entries \in Seq(Entry) /\ Len(wal.entries) \in 0 .. 3
      <4>1. wal.entries \in Entries
        BY <1>2 DEF Log
      <4>. QED  BY <4>1, EntriesLength
    <3>3. /\ cmd' \in Command /\ cmd'.pc = "undo" /\ cmd'.op = cmd.op /\ cmd'.own = cmd.own
          /\ cmd'.i = Len(wal.entries) /\ cmd'.joined = cmd.joined
      <4>1. Len(wal.entries) \in 0 .. 4 /\ "undo" \in PC
        BY <3>2 DEF PC
      <4>. QED  BY <1>2, <3>1, <4>1, Moves
    <3>4. wal.life = "uninstall" => Len(wal.entries) = 3
      BY <1>2 DEF NodeInv, Data, LogOK, UninstallLog
    <3>5. GoingBack(cmd', saved)
      <4>1. /\ cmd'.i \in 0 .. Len(saved.entries)
            /\ \A k \in DOMAIN saved.entries : ~(k > cmd'.i)
        BY <1>4, <3>2, <3>3
      <4>2. /\ cmd.own => wal.life = (IF cmd.op = "enroll" THEN "install" ELSE "repair") /\ wal.terminal = 0
            /\ cmd.op = "uninstall" => wal.life = "uninstall"
            /\ wal.life = "uninstall" => cmd.joined /\ wal.terminal = 0
        BY <1>1, <1>2 DEF GoingBack
      <4>3. wal.life = "uninstall" => cmd'.i # 0
        <5>1. wal.life = "uninstall" => cmd'.i = 3
          BY <3>3, <3>4
        <5>2. 3 # 0
          OBVIOUS
        <5>. QED  BY <5>1, <5>2
      <4>. QED  BY <1>4, <1>5, <3>3, <4>1, <4>2, <4>3 DEF GoingBack
    <3>6. OpOK(cmd') /\ GoingForward(cmd', saved, receipt, host)
      BY <1>2, <3>3 DEF OpOK, GoingForward, Forward7, Back, Cleanup
    <3>7. Elsewhere(cmd', saved, receipt, runtime, journal, identity, server)
      BY <1>2, <1>5, <3>3 DEF Elsewhere, Lifecycles, NewEnroll, Forward7, Back, Cleanup
    <3>. QED  BY <3>1, <3>3, <3>5, <3>6, <3>7 DEF Position
  <2>. QED  BY <2>1, <2>2
<1>9. spent' \in [commands : Nat, faults : Nat]
  BY <1>2, Spending DEF BeginRollback, WriteFails
<1>10. w \in Log \cup {None} /\ Data(w, receipt, runtime, identity, journal, server, host)
  BY <1>2, <1>4, <1>5, <1>7 DEF NodeInv
<1>. QED  BY <1>6, <1>8, <1>9, <1>10, LogStep DEF BeginRollback

\* The position of a command that goes back does not depend on the host.
LEMMA BackKeeps ==
    ASSUME NodeInv, cmd.pc \in Back, NEW c \in Command, c.pc \in Back, c.op = cmd.op, c.own = cmd.own,
           NEW w, w # None, GoingBack(c, w), NEW h
    PROVE  Position(c, w, receipt, runtime, identity, journal, server, h)
<1>1. /\ identity /\ runtime # None /\ ~journal
      /\ cmd.op \in {"enroll", "repair", "recover", "uninstall"}
      /\ cmd.own <=> cmd.op \in {"enroll", "repair"}
  BY IsBack
<1>2. OpOK(c) /\ GoingForward(c, w, receipt, h)
  BY <1>1 DEF OpOK, GoingForward, Forward7, Back, Cleanup
<1>3. Elsewhere(c, w, receipt, runtime, journal, identity, server)
  BY <1>1 DEF Elsewhere, Lifecycles, NewEnroll, Forward7, Back, Cleanup
<1>. QED  BY <1>2, <1>3 DEF Position

LEMMA LogAndHostStep ==
    ASSUME NodeInv, NEW w \in Log \cup {None}, wal' = w, NEW h \in Host, host' = h, cmd' \in Command,
           spent' \in [commands : Nat, faults : Nat],
           UNCHANGED <<receipt, runtime, identity, journal, server, expired>>,
           Data(w, receipt, runtime, identity, journal, server, h),
           Position(cmd', w, receipt, runtime, identity, journal, server, h)
    PROVE  NodeInv'
<1>1. TypeOK'
  BY DEF NodeInv, TypeOK
<1>. QED  BY <1>1 DEF NodeInv

LEMMA LeaveClusterStep ==
    ASSUME NodeInv, LeaveCluster
    PROVE  NodeInv'
<1>1. cmd.pc = "undo" /\ cmd.pc \in Back /\ cmd.i # 0 /\ wal.life = "uninstall"
  BY DEF LeaveCluster, At, Back, MustLeave, NodeInv, TypeOK, Command
<1>2. /\ TypeOK /\ OpOK(cmd) /\ wal # None /\ wal \in Log /\ GoingBack(cmd, wal) /\ ~journal
      /\ cmd \in Command /\ host \in Host /\ UninstallLog(wal, host)
  BY <1>1, IsBack DEF LogOK, TypeOK
<1>3. cmd.joined /\ wal.terminal = 0
  BY <1>1, <1>2 DEF GoingBack
<1>4. /\ Eases(host, host) /\ Eases(host, leaveCluster(host)) /\ Eases(host, drainNode(host))
  BY <1>2, HostOperations
<1>5. CASE Interrupted("leave_cluster", {drainNode(host), leaveCluster(host)}, restoreAfterFailure) /\ UNCHANGED wal
  <2>1. /\ cmd' \in {restoreAfterFailure, Idle}
        /\ host' \in {host, drainNode(host), leaveCluster(host)}
        /\ spent' \in [commands : Nat, faults : Nat]
    BY <1>2, <1>5, Broken
  <2>. QED  BY <1>2, <1>4, <1>5, <2>1, CommandEnds, EndedAnywhere, OnlyHost
      DEF LeaveCluster, KeepFiles, Ends
<1>6. CASE ~(Interrupted("leave_cluster", {drainNode(host), leaveCluster(host)}, restoreAfterFailure) /\ UNCHANGED wal)
  <2>1. PICK h : h = leaveCluster(host)
    OBVIOUS
  <2>2. PICK w : w = [wal EXCEPT !.left = TRUE]
    OBVIOUS
  <2>3. host' = h /\ wal' = w /\ UNCHANGED cmd /\ UNCHANGED spent
    BY <1>3, <1>6, <2>1, <2>2 DEF LeaveCluster, Performs
  <2>4. /\ w \in Log /\ w.left /\ w.stage = wal.stage /\ w.verifying = wal.verifying
        /\ w.life = wal.life
        /\ w.residue = wal.residue /\ w.kept = wal.kept /\ w.cleanup = wal.cleanup
        /\ w.terminal = wal.terminal /\ w.original = wal.original
        /\ w.entries = wal.entries
    BY <1>2, <2>2 DEF Log
  <2>5. h \in Host /\ Data(wal, receipt, runtime, identity, journal, server, h)
    BY <1>2, <1>4, <2>1, EasedHost DEF NodeInv, Eases
  <2>6. ~h.clustered /\ h.node # "released"
    <3>1. CASE host.clustered
      <4>1. PICK a : a = [host EXCEPT !.node = "retired"]
        OBVIOUS
      <4>2. a \in Host /\ a.node = "retired"
        BY <1>2, <4>1 DEF Host, NodeState
      <4>3. h = [a EXCEPT !.clustered = FALSE]
        BY <2>1, <3>1, <4>1 DEF leaveCluster, markNodeRetired
      <4>. QED  BY <4>2, <4>3 DEF Host
    <3>2. CASE ~host.clustered
      BY <2>1, <3>2 DEF leaveCluster, NodeInv, Data, Working
    <3>. QED  BY <3>1, <3>2
  <2>7. LogOK(w, h, receipt, server, identity)
    BY <1>1, <1>2, <1>3, <2>4, <2>5, <2>6 DEF Data, LogOK, AnyLog, UninstallLog
  <2>8. Journal(w, journal, identity)
    BY <1>2, <1>3, <2>4 DEF NodeInv, Data, Journal
  <2>9. w # None /\ Data(w, receipt, runtime, identity, journal, server, h)
    BY <1>2, <2>4, <2>5, <2>7, <2>8, LogChanged
  <2>10. GoingBack(cmd, w)
    BY <1>2, <2>4, <2>9 DEF GoingBack
  <2>11. Position(cmd, w, receipt, runtime, identity, journal, server, h)
    BY <1>1, <1>2, <2>9, <2>10, BackKeeps
  <2>. QED  BY <1>2, <2>3, <2>4, <2>5, <2>9, <2>11, LogAndHostStep DEF LeaveCluster, TypeOK
<1>. QED  BY <1>5, <1>6

-----------------------------------------------------------------------------
(* The terminal receipt and the cleanup. *)

\* Once a terminal receipt is signed nothing is at work.
LEMMA Signed ==
    ASSUME NodeInv, wal # None, wal.terminal # 0
    PROVE  /\ wal \in Log /\ wal.life \in {"install", "uninstall"} /\ wal.stage = 3
           /\ AllRemoved(wal.entries) /\ host.node # "released"
<1>1. wal \in Log /\ wal.life \in {"install", "repair", "uninstall"}
  BY DEF NodeInv, TypeOK, Log
<1>2. wal.stage = 3 /\ AllRemoved(wal.entries)
  BY DEF NodeInv, Data, LogOK, AnyLog
<1>3. wal.life # "repair"
  BY DEF NodeInv, Data, LogOK, RepairLog
<1>4. CASE wal.life = "install"
  BY <1>1, <1>2, <1>4 DEF NodeInv, Data, LogOK, InstallLog, Working
<1>5. CASE wal.life = "uninstall"
  BY <1>1, <1>2, <1>5 DEF NodeInv, Data, LogOK, UninstallLog
<1>. QED  BY <1>1, <1>2, <1>3, <1>4, <1>5

\* Where a command that cleans up is.
LEMMA IsCleaning ==
    ASSUME NodeInv, cmd.pc \in Cleanup
    PROVE  /\ TypeOK /\ OpOK(cmd) /\ cmd.op \in {"recover", "uninstall"} /\ ~cmd.own
           /\ wal # None /\ wal \in Log /\ journal /\ wal.terminal # 0 /\ ~wal.residue
           /\ wal.cleanup = CASE cmd.pc = "support" -> 1
                              [] cmd.pc \in {"retire", "forget"} -> 2 [] OTHER -> 3
<1>1. /\ TypeOK /\ OpOK(cmd) /\ cmd.op \in {"recover", "uninstall"} /\ ~cmd.own
      /\ wal # None /\ wal \in Log /\ journal
      /\ wal.cleanup = CASE cmd.pc = "support" -> 1
                         [] cmd.pc \in {"retire", "forget"} -> 2 [] OTHER -> 3
  BY DEF NodeInv, TypeOK, Position, OpOK, Elsewhere
<1>2. wal.terminal # 0 /\ ~wal.residue
  BY <1>1 DEF NodeInv, Data, Journal
<1>. QED  BY <1>1, <1>2

LEMMA SignTerminalStep ==
    ASSUME NodeInv, SignTerminal
    PROVE  NodeInv'
<1>1. cmd.pc = "rolled" /\ cmd.pc \in Back /\ wal.life # "repair" /\ cmd.op # "enroll" /\ ~wal.residue
  BY DEF SignTerminal, At, Back
<1>2. /\ TypeOK /\ OpOK(cmd) /\ wal # None /\ wal \in Log /\ GoingBack(cmd, wal)
      /\ LogOK(wal, host, receipt, server, identity) /\ ~journal
      /\ cmd.op \in {"enroll", "repair", "recover", "uninstall"}
      /\ cmd.own <=> cmd.op \in {"enroll", "repair"}
  BY <1>1, IsBack
<1>3. /\ cmd.op \in {"recover", "uninstall"} /\ ~cmd.own
      /\ wal.stage = 3 /\ NoneOwed(wal.entries) /\ (wal.life = "uninstall" => wal.left)
  BY <1>1, <1>2 DEF GoingBack, Back
<1>4. AllRemoved(wal.entries)
  BY <1>1, <1>2, <1>3 DEF LogOK, AnyLog, NoneOwed, AllRemoved
<1>5. PICK saved : saved = [wal EXCEPT !.cleanup = 1, !.terminal = AnotherReceipt(@)]
  OBVIOUS
<1>6. /\ saved \in Log /\ saved.cleanup = 1 /\ saved.terminal \in {1, 2}
      /\ saved.life = wal.life /\ saved.stage = wal.stage /\ saved.left = wal.left
      /\ saved.verifying = wal.verifying
      /\ saved.residue = wal.residue /\ saved.kept = wal.kept
      /\ saved.original = wal.original /\ saved.entries = wal.entries
  <2>1. PICK a : a = [wal EXCEPT !.cleanup = 1]
    OBVIOUS
  <2>2. /\ a \in Log /\ a.cleanup = 1 /\ a.terminal = wal.terminal
        /\ a.life = wal.life /\ a.stage = wal.stage /\ a.left = wal.left /\ a.verifying = wal.verifying
        /\ a.residue = wal.residue /\ a.kept = wal.kept
        /\ a.original = wal.original /\ a.entries = wal.entries
    BY <1>2, <2>1 DEF Log
  <2>3. PICK t : t = AnotherReceipt(wal.terminal)
    OBVIOUS
  <2>4. t \in {1, 2} /\ t \in 0 .. 2
    BY <2>3 DEF AnotherReceipt
  <2>5. saved = [a EXCEPT !.terminal = t]
    BY <1>5, <2>1, <2>3
  <2>. QED  BY <2>2, <2>4, <2>5 DEF Log
<1>7. saved # None /\ Data(saved, receipt, runtime, identity, journal, server, host)
  <2>1. wal.entries # <<>> => ~AllApplied(wal.entries)
    <3>1. wal.entries \in Entries
      BY <1>2 DEF Log
    <3>2. wal.entries # <<>> => 1 \in DOMAIN wal.entries
      BY <3>1, EntriesLength
    <3>. QED  BY <1>4, <3>2 DEF AllApplied, AllRemoved
  <2>2. saved.terminal # 0 /\ saved.cleanup # 0 /\ ~(saved.cleanup >= 2) /\ saved.cleanup # 3
    BY <1>6
  <2>3. AnyLog(saved, host, identity)
    BY <1>2, <1>3, <1>4, <1>6, <2>1, <2>2 DEF LogOK, AnyLog
  <2>4. LogOK(saved, host, receipt, server, identity)
    BY <1>1, <1>2, <1>3, <1>6, <2>3 DEF LogOK, InstallLog, UninstallLog
  <2>5. Journal(saved, journal, identity)
    BY <1>2, <2>2 DEF Journal
  <2>. QED  BY <1>2, <1>6, <2>4, <2>5, LogChanged DEF NodeInv
<1>8. PICK w : w = wal'
  OBVIOUS
<1>9. w \in {wal, saved}
  BY <1>5, <1>8 DEF SignTerminal
<1>10. cmd' \in Command /\ Position(cmd', w, receipt, runtime, identity, journal, server, host)
  <2>1. CASE cmd' = Idle
    BY <1>2, <2>1, CommandEnds, EndedAnywhere DEF Ends
  <2>2. CASE cmd' # Idle
    <3>1. cmd' = Goto("journal") /\ w = saved
      BY <1>5, <1>8, <2>2 DEF SignTerminal, WriteFails
    <3>2. cmd' \in Command /\ cmd'.pc = "journal" /\ cmd'.op = cmd.op /\ ~cmd'.own
      BY <1>2, <1>3, <3>1, Moves, Places
    <3>3. saved.terminal # 0 /\ ~saved.residue
      BY <1>1, <1>6
    <3>. QED  BY <1>3, <1>7, <3>1, <3>2, <3>3
        DEF Position, OpOK, GoingForward, GoingBack, Elsewhere, Forward7, Back, Lifecycles,
            Cleanup, NewEnroll
  <2>. QED  BY <2>1, <2>2
<1>11. spent' \in [commands : Nat, faults : Nat]
  BY <1>2, Spending DEF SignTerminal, WriteFails
<1>12. w \in Log \cup {None} /\ Data(w, receipt, runtime, identity, journal, server, host)
  BY <1>2, <1>6, <1>7, <1>9 DEF NodeInv
<1>. QED  BY <1>8, <1>10, <1>11, <1>12, LogStep DEF SignTerminal

LEMMA CreateCleanupStep ==
    ASSUME NodeInv, CreateCleanup
    PROVE  NodeInv'
<1>1. /\ TypeOK /\ OpOK(cmd) /\ cmd.op \in {"recover", "uninstall"} /\ ~cmd.own
      /\ wal # None /\ wal.terminal # 0 /\ ~wal.residue
  BY DEF CreateCleanup, At, NodeInv, Position, OpOK, Elsewhere
<1>2. PICK j : j = journal'
  OBVIOUS
<1>3. (j \/ (j <=> journal)) /\ j \in BOOLEAN
  BY <1>1, <1>2 DEF CreateCleanup, TypeOK
<1>4. Data(wal, receipt, runtime, identity, j, server, host)
  <2>1. Known(wal, receipt, j, identity, server) /\ Journal(wal, j, identity)
    BY <1>1, <1>3 DEF NodeInv, Data, Known, Journal
  <2>. QED  BY <2>1 DEF NodeInv, Data
<1>5. cmd' \in Command /\ Position(cmd', wal, receipt, runtime, identity, j, server, host)
  <2>1. CASE cmd' = Idle
    BY <1>1, <2>1, CommandEnds, EndedAnywhere DEF Ends
  <2>2. CASE cmd' # Idle
    <3>1. cmd' = Goto("resume") /\ j
      BY <1>2, <2>2 DEF CreateCleanup, WriteFails
    <3>2. cmd' \in Command /\ cmd'.pc = "resume" /\ cmd'.op = cmd.op /\ ~cmd'.own
      BY <1>1, <3>1, Moves, Places
    <3>. QED  BY <1>1, <3>1, <3>2
        DEF Position, OpOK, GoingForward, GoingBack, Elsewhere, Forward7, Back, Lifecycles,
            Cleanup, NewEnroll
  <2>. QED  BY <2>1, <2>2
<1>6. TypeOK'
  <2>1. spent' \in [commands : Nat, faults : Nat]
    BY <1>1, Spending DEF CreateCleanup, WriteFails
  <2>. QED  BY <1>1, <1>2, <1>3, <1>5, <2>1 DEF CreateCleanup, TypeOK
<1>. QED  BY <1>2, <1>4, <1>5, <1>6 DEF CreateCleanup, NodeInv

LEMMA RemoveSupportStep ==
    ASSUME NodeInv, RemoveSupport
    PROVE  NodeInv'
<1>1. cmd.pc = "support" /\ cmd.pc \in Cleanup
  BY DEF RemoveSupport, At, Cleanup
<1>2. /\ TypeOK /\ OpOK(cmd) /\ cmd.op \in {"recover", "uninstall"} /\ ~cmd.own
      /\ wal # None /\ wal \in Log /\ journal /\ wal.terminal # 0 /\ ~wal.residue
  BY <1>1, IsCleaning
<1>3. PICK h : h = removeServiceSupport(host)
  OBVIOUS
<1>4. Eases(host, host) /\ Eases(host, h) /\ h \in Host /\ ~h.policy
  <2>1. host \in Host
    BY <1>2 DEF TypeOK
  <2>. QED  BY <1>3, <2>1, HostOperations DEF removeServiceSupport, Host
<1>5. CASE Interrupted("remove_support", {h}, Idle) /\ UNCHANGED wal
  <2>1. cmd' = Idle /\ host' \in {host, h} /\ spent' \in [commands : Nat, faults : Nat]
    BY <1>2, <1>5, Broken
  <2>. QED  BY <1>2, <1>4, <1>5, <2>1, CommandEnds, EndedAnywhere, OnlyHost
      DEF RemoveSupport, KeepFiles, Ends
<1>6. CASE ~(Interrupted("remove_support", {h}, Idle) /\ UNCHANGED wal)
  <2>1. PICK w : w = [wal EXCEPT !.cleanup = 2]
    OBVIOUS
  <2>2. host' = h /\ wal' = w /\ cmd' = Goto("retire") /\ UNCHANGED spent
    BY <1>3, <1>6, <2>1 DEF RemoveSupport, Performs
  <2>3. /\ w \in Log /\ w.cleanup = 2 /\ w.stage = wal.stage /\ w.verifying = wal.verifying
        /\ w.life = wal.life /\ w.left = wal.left
        /\ w.residue = wal.residue /\ w.kept = wal.kept
        /\ w.terminal = wal.terminal /\ w.original = wal.original
        /\ w.entries = wal.entries
    BY <1>2, <2>1 DEF Log
  <2>4. Data(wal, receipt, runtime, identity, journal, server, h)
    BY <1>2, <1>4, EasedHost DEF NodeInv, TypeOK
  <2>5. LogOK(w, h, receipt, server, identity) /\ Journal(w, journal, identity)
    <3>1. w.cleanup # 0 /\ w.cleanup # 3 /\ w # None
      BY <2>3, NoneIsNoRecord
    <3>2. AnyLog(w, h, identity)
      BY <1>2, <1>4, <2>3, <2>4, <3>1 DEF Data, LogOK, AnyLog
    <3>3. Journal(w, journal, identity)
      BY <1>2, <2>3, <3>1 DEF NodeInv, Data, Journal
    <3>. QED  BY <1>2, <2>3, <2>4, <3>2, <3>3 DEF Data, LogOK, InstallLog, RepairLog, UninstallLog
  <2>6. w # None /\ Data(w, receipt, runtime, identity, journal, server, h)
    BY <1>2, <2>3, <2>4, <2>5, LogChanged
  <2>7. cmd' \in Command /\ cmd'.pc = "retire" /\ cmd'.op = cmd.op /\ ~cmd'.own
    BY <1>2, <2>2, Moves, Places
  <2>8. Position(cmd', w, receipt, runtime, identity, journal, server, h)
    BY <1>2, <2>3, <2>6, <2>7
       DEF Position, OpOK, GoingForward, GoingBack, Elsewhere, Forward7, Back, Lifecycles,
           Cleanup, NewEnroll
  <2>. QED  BY <1>2, <1>4, <2>2, <2>3, <2>6, <2>7, <2>8, LogAndHostStep DEF RemoveSupport, TypeOK
<1>. QED  BY <1>5, <1>6

LEMMA RemoveLocalStateStep ==
    ASSUME NodeInv, RemoveLocalState
    PROVE  NodeInv'
<1>1. cmd.pc = "forget" /\ cmd.pc \in Cleanup
  BY DEF RemoveLocalState, At, Cleanup
<1>2. /\ TypeOK /\ OpOK(cmd) /\ cmd.op \in {"recover", "uninstall"} /\ ~cmd.own
      /\ wal # None /\ wal \in Log /\ journal /\ wal.terminal # 0 /\ ~wal.residue
      /\ wal.cleanup = 2 /\ host.node # "released"
      /\ server.state = "active" => server.receipt = "stale"
  BY <1>1, IsCleaning, Signed DEF NodeInv, Position, Elsewhere
<1>3. PICK saved : saved = [wal EXCEPT !.cleanup = 3]
  OBVIOUS
<1>4. /\ saved \in Log /\ saved.cleanup = 3 /\ saved.stage = wal.stage /\ saved.verifying = wal.verifying
      /\ saved.life = wal.life /\ saved.left = wal.left
      /\ saved.residue = wal.residue /\ saved.kept = wal.kept
      /\ saved.terminal = wal.terminal /\ saved.original = wal.original
      /\ saved.entries = wal.entries
  BY <1>2, <1>3 DEF Log
<1>5. PICK w : w = wal'
  OBVIOUS
<1>6. PICK ru : ru = runtime'
  OBVIOUS
<1>7. PICK id : id = identity'
  OBVIOUS
<1>8. /\ w = wal \/ (w = saved /\ ~id)
      /\ ru \in {runtime, None}
      /\ ru = None => runtime = None \/ id = FALSE
      /\ (id => identity) /\ id \in BOOLEAN
  <2>1. CASE wal' = saved /\ identity' = FALSE /\ runtime' = None
    BY <1>2, <1>5, <1>6, <1>7, <2>1 DEF TypeOK
  <2>2. CASE UNCHANGED wal /\ identity' = FALSE /\ runtime' \in {runtime, None}
    BY <1>2, <1>5, <1>6, <1>7, <2>2 DEF TypeOK
  <2>3. CASE UNCHANGED <<wal, identity, runtime>>
    BY <1>2, <1>5, <1>6, <1>7, <2>3 DEF TypeOK
  <2>. QED  BY <1>3, <2>1, <2>2, <2>3 DEF RemoveLocalState
<1>9. w \in Log /\ w # None
  BY <1>2, <1>4, <1>8, NoneIsNoRecord
<1>10. Data(w, receipt, ru, id, journal, server, host)
  <2>1. w = saved => w.cleanup # 0 /\ w.cleanup >= 2
    BY <1>4
  <2>2. LogOK(w, host, receipt, server, id)
    <3>1. AnyLog(w, host, id)
      <4>1. AnyLog(wal, host, identity)
        BY <1>2 DEF NodeInv, Data, LogOK
      <4>2. wal.cleanup >= 2
        BY <1>2
      <4>3. CASE w = wal
        BY <1>8, <4>1, <4>3 DEF AnyLog
      <4>4. CASE w = saved /\ ~id
        BY <1>2, <1>4, <2>1, <4>1, <4>2, <4>4 DEF AnyLog
      <4>. QED  BY <1>8, <4>3, <4>4
    <3>. QED  BY <1>2, <1>4, <1>8, <3>1
        DEF NodeInv, Data, LogOK, InstallLog, RepairLog, UninstallLog
  <2>3. NoLogOK(w, host, receipt) /\ PackageOK(w, host, receipt)
    BY <1>2, <1>4, <1>8, <1>9 DEF NodeInv, Data, NoLogOK, PackageOK
  <2>4. Working(host, receipt, ru, server)
    BY <1>2, <1>8 DEF NodeInv, Data, Working
  <2>5. Known(w, receipt, journal, id, server)
    BY <1>2, <1>8, <1>9 DEF NodeInv, Data, Known
  <2>6. Journal(w, journal, id)
    BY <1>2, <1>4, <1>8, <1>9, <2>1 DEF NodeInv, Data, Journal
  <2>. QED  BY <2>2, <2>3, <2>4, <2>5, <2>6 DEF NodeInv, Data
<1>11. cmd' \in Command /\ Position(cmd', w, receipt, ru, id, journal, server, host)
  <2>1. CASE cmd' = Idle
    BY <1>2, <2>1, CommandEnds, EndedAnywhere DEF Ends
  <2>2. CASE cmd' # Idle
    <3>1. cmd' = Goto("terminal") /\ w = saved
      BY <1>3, <1>5, <2>2 DEF RemoveLocalState, WriteFails
    <3>2. cmd' \in Command /\ cmd'.pc = "terminal" /\ cmd'.op = cmd.op /\ ~cmd'.own
      BY <1>2, <3>1, Moves, Places
    <3>. QED  BY <1>2, <1>4, <1>9, <3>1, <3>2
        DEF Position, OpOK, GoingForward, GoingBack, Elsewhere, Forward7, Back, Lifecycles,
            Cleanup, NewEnroll
  <2>. QED  BY <2>1, <2>2
<1>12. TypeOK'
  <2>1. spent' \in [commands : Nat, faults : Nat]
    BY <1>2, Spending DEF RemoveLocalState, WriteFails
  <2>. QED  BY <1>2, <1>5, <1>6, <1>7, <1>8, <1>9, <1>11, <2>1 DEF RemoveLocalState, TypeOK
<1>. QED  BY <1>5, <1>6, <1>7, <1>10, <1>11, <1>12 DEF RemoveLocalState, NodeInv

-----------------------------------------------------------------------------
(* Receipts. *)

LEMMA SignedAsLogged ==
    ASSUME NEW w \in Log, w.life # "repair", NEW state \in {"active", "removed", "recovery_required"}
    PROVE  LET r == signedReceipt(w, state)
           IN  r \in Receipt /\ r # None /\ r.state = state /\ r.kept = w.kept /\ r.entries = w.entries
<1>1. PICK r : r = signedReceipt(w, state)
  OBVIOUS
<1>2. r = [state |-> state, kept |-> w.kept, entries |-> w.entries]
  BY <1>1 DEF signedReceipt
<1>3. w.kept \in BOOLEAN /\ w.entries \in Entries
  BY DEF Log
<1>4. r \in Receipt /\ r.state = state /\ r.kept = w.kept /\ r.entries = w.entries
  BY <1>2, <1>3 DEF Receipt
<1>. QED  BY <1>1, <1>4, NoneIsNoRecord

\* A repair signs the receipt that it started from once more.
LEMMA SignedAsBefore ==
    ASSUME NEW w \in Log, w.life = "repair", w.original \in Receipt, AllApplied(w.original.entries)
    PROVE  LET r == signedReceipt(w, "active")
           IN  r \in Receipt /\ r # None /\ r.state = "active" /\ r.entries = w.original.entries
<1>1. PICK es : es = w.original.entries
  OBVIOUS
<1>2. es \in Entries
  BY <1>1 DEF Receipt
<1>3. es \in Seq(Entry) /\ DOMAIN es = 1 .. Len(es)
  BY <1>2, EntriesLength
<1>4. \A k \in DOMAIN es : es[k] \in Entry /\ es[k].status = "applied"
  BY <1>1, <1>3 DEF AllApplied
<1>5. \A k \in DOMAIN es : [es[k] EXCEPT !.status = "applied"] = es[k]
  BY <1>4 DEF Entry
<1>6. [k \in DOMAIN es |-> [es[k] EXCEPT !.status = "applied"]] = es
  <2>1. [k \in DOMAIN es |-> [es[k] EXCEPT !.status = "applied"]] = [k \in DOMAIN es |-> es[k]]
    BY <1>5
  <2>2. [k \in DOMAIN es |-> es[k]] = es
    BY <1>3
  <2>. QED  BY <2>1, <2>2
<1>7. PICK r : r = signedReceipt(w, "active")
  OBVIOUS
<1>8. r = [state |-> "active", kept |-> w.kept, entries |-> es]
  BY <1>1, <1>6, <1>7 DEF signedReceipt
<1>9. w.kept \in BOOLEAN
  BY DEF Log
<1>10. r \in Receipt /\ r.state = "active" /\ r.entries = es
  BY <1>2, <1>8, <1>9 DEF Receipt
<1>. QED  BY <1>1, <1>7, <1>10, NoneIsNoRecord

LEMMA ReceiptStep ==
    ASSUME NodeInv, NEW r \in Receipt \cup {None}, receipt' = r, cmd' \in Command,
           spent' \in [commands : Nat, faults : Nat],
           UNCHANGED <<host, wal, runtime, identity, journal, server, expired>>,
           Data(wal, r, runtime, identity, journal, server, host),
           Position(cmd', wal, r, runtime, identity, journal, server, host)
    PROVE  NodeInv'
<1>1. TypeOK'
  BY DEF NodeInv, TypeOK
<1>. QED  BY <1>1 DEF NodeInv

LEMMA PublishTerminalStep ==
    ASSUME NodeInv, PublishTerminal
    PROVE  NodeInv'
<1>1. cmd.pc = "terminal" /\ cmd.pc \in Cleanup
  BY DEF PublishTerminal, At, Cleanup
<1>2. /\ TypeOK /\ OpOK(cmd) /\ cmd.op \in {"recover", "uninstall"} /\ ~cmd.own
      /\ wal # None /\ wal \in Log /\ journal /\ wal.terminal # 0 /\ ~wal.residue
      /\ wal.cleanup = 3
  BY <1>1, IsCleaning
<1>3. wal.life # "repair" /\ wal.stage = 3 /\ AllRemoved(wal.entries) /\ host.node # "released"
  BY <1>2, Signed
<1>4. ~host.policy /\ ~identity
  <2>1. wal.cleanup >= 2
    BY <1>2
  <2>. QED  BY <1>2, <2>1 DEF NodeInv, Data, LogOK, AnyLog
<1>5. PICK out : out = Outcome(wal)
  OBVIOUS
<1>6. out \in Receipt /\ out # None /\ out.state = "removed" /\ out.kept = wal.kept /\ out.entries = wal.entries
  BY <1>2, <1>3, <1>5, SignedAsLogged DEF Outcome
<1>7. Data(wal, out, runtime, identity, journal, server, host)
  <2>1. ~IsActive(out)
    BY <1>6 DEF IsActive
  <2>2. LogOK(wal, host, out, server, identity)
    BY <1>2, <1>3, <2>1 DEF NodeInv, Data, LogOK, InstallLog
  <2>3. ReceiptOK(out, host) /\ NoLogOK(wal, host, out) /\ PackageOK(wal, host, out)
    BY <1>2, <2>1 DEF ReceiptOK, NoLogOK, PackageOK
  <2>4. Working(host, out, runtime, server)
    BY <1>3, <1>4 DEF NodeInv, Data, Working
  <2>5. Known(wal, out, journal, identity, server)
    BY <1>2, <1>4 DEF NodeInv, Data, Known
  <2>. QED  BY <2>2, <2>3, <2>4, <2>5 DEF NodeInv, Data
<1>8. PICK r : r = receipt'
  OBVIOUS
<1>9. r \in {receipt, out}
  BY <1>5, <1>8 DEF PublishTerminal
<1>10. cmd' \in Command /\ Position(cmd', wal, r, runtime, identity, journal, server, host)
  <2>1. CASE cmd' = Idle
    BY <1>2, <2>1, CommandEnds, EndedAnywhere DEF Ends
  <2>2. CASE cmd' # Idle
    <3>1. cmd' = Goto("unwal_end") /\ r = out
      BY <1>5, <1>8, <2>2 DEF PublishTerminal, WriteFails
    <3>2. cmd' \in Command /\ cmd'.pc = "unwal_end" /\ cmd'.op = cmd.op /\ ~cmd'.own
      BY <1>2, <3>1, Moves, Places
    <3>3. Terminal(wal, out)
      BY <1>3, <1>6 DEF Terminal, IsRemoved
    <3>. QED  BY <1>2, <3>1, <3>2, <3>3
        DEF Position, OpOK, GoingForward, GoingBack, Elsewhere, Forward7, Back, Lifecycles,
            Cleanup, NewEnroll
  <2>. QED  BY <2>1, <2>2
<1>11. spent' \in [commands : Nat, faults : Nat]
  BY <1>2, Spending DEF PublishTerminal, WriteFails
<1>12. r \in Receipt \cup {None} /\ Data(wal, r, runtime, identity, journal, server, host)
  BY <1>6, <1>7, <1>9 DEF NodeInv, TypeOK
<1>. QED  BY <1>8, <1>10, <1>11, <1>12, ReceiptStep DEF PublishTerminal

LEMMA FinishRollbackStep ==
    ASSUME NodeInv, FinishRollback
    PROVE  NodeInv'
<1>1. cmd.pc = "rolled" /\ cmd.pc \in Back /\ wal.life # "repair" /\ (cmd.op = "enroll" \/ wal.residue)
  BY DEF FinishRollback, At, Back
<1>2. /\ TypeOK /\ OpOK(cmd) /\ wal # None /\ wal \in Log /\ GoingBack(cmd, wal)
      /\ LogOK(wal, host, receipt, server, identity)
      /\ cmd.own <=> cmd.op \in {"enroll", "repair"}
  BY <1>1, IsBack
<1>3. /\ wal.stage = 3 /\ NoneOwed(wal.entries)
      /\ cmd.op = "enroll" => wal.life = "install" /\ wal.terminal = 0
  BY <1>1, <1>2 DEF GoingBack, Back
<1>4. ~wal.residue => AllRemoved(wal.entries)
  BY <1>2, <1>3 DEF LogOK, AnyLog, NoneOwed, AllRemoved
<1>5. wal.life = "install" => ~wal.kept /\ ~host.policy /\ server.state # "active"
  BY <1>2, <1>3 DEF LogOK, InstallLog
<1>6. PICK out : out = Outcome(wal)
  OBVIOUS
<1>7. /\ out \in Receipt /\ out # None
      /\ out.state = IF wal.residue THEN "recovery_required" ELSE "removed"
      /\ out.kept = wal.kept
  BY <1>1, <1>2, <1>6, SignedAsLogged DEF Outcome
<1>8. Data(wal, out, runtime, identity, journal, server, host)
  <2>1. ~IsActive(out)
    BY <1>7 DEF IsActive
  <2>2. LogOK(wal, host, out, server, identity)
    BY <1>1, <1>2, <1>3, <2>1 DEF LogOK, InstallLog
  <2>3. ReceiptOK(out, host) /\ NoLogOK(wal, host, out) /\ PackageOK(wal, host, out)
    BY <1>2, <2>1 DEF ReceiptOK, NoLogOK, PackageOK
  <2>4. wal.residue \/ wal.life = "install"
    BY <1>1, <1>3
  <2>5. Working(host, out, runtime, server)
    BY <1>5, <1>7, <2>4 DEF NodeInv, Data, Working
  <2>6. Known(wal, out, journal, identity, server)
    BY <1>2, <1>5, <1>7, <2>4 DEF NodeInv, Data, Known, IsRemoved
  <2>. QED  BY <2>2, <2>3, <2>5, <2>6 DEF NodeInv, Data
<1>9. PICK r : r = receipt'
  OBVIOUS
<1>10. r \in {receipt, out}
  BY <1>6, <1>9 DEF FinishRollback
<1>11. cmd' \in Command /\ Position(cmd', wal, r, runtime, identity, journal, server, host)
  <2>1. CASE cmd' \in {restoreAfterFailure, Idle}
    BY <1>2, <2>1, CommandEnds, EndedAnywhere DEF Ends
  <2>2. CASE cmd' \notin {restoreAfterFailure, Idle}
    <3>1. cmd' = Goto("unwal_last") /\ r = out /\ ~wal.residue
      BY <1>6, <1>9, <2>2 DEF FinishRollback, WriteFails
    <3>2. cmd' \in Command /\ cmd'.pc = "unwal_last" /\ cmd'.op = "enroll" /\ cmd'.own
      BY <1>1, <1>2, <3>1, Moves, Places
    <3>3. Terminal(wal, out) /\ wal.terminal = 0
      BY <1>1, <1>3, <1>4, <1>7, <3>1 DEF Terminal, IsRemoved
    <3>. QED  BY <1>2, <3>1, <3>2, <3>3
        DEF Position, OpOK, GoingForward, GoingBack, Elsewhere, Forward7, Back, Lifecycles,
            Cleanup, NewEnroll
  <2>. QED  BY <2>1, <2>2
<1>12. spent' \in [commands : Nat, faults : Nat]
  BY <1>2, Spending DEF FinishRollback, WriteFails
<1>13. r \in Receipt \cup {None} /\ Data(wal, r, runtime, identity, journal, server, host)
  BY <1>7, <1>8, <1>10 DEF NodeInv, TypeOK
<1>. QED  BY <1>9, <1>11, <1>12, <1>13, ReceiptStep DEF FinishRollback

LEMMA FinishRepairRollbackStep ==
    ASSUME NodeInv, FinishRepairRollback
    PROVE  NodeInv'
<1>1. cmd.pc = "rolled" /\ cmd.pc \in Back /\ wal.life = "repair"
  BY DEF FinishRepairRollback, At, Back
<1>2. /\ TypeOK /\ OpOK(cmd) /\ wal # None /\ wal \in Log /\ RepairLog(wal, host, receipt)
      /\ LogOK(wal, host, receipt, server, identity)
      /\ cmd.own <=> cmd.op \in {"enroll", "repair"}
  BY <1>1, IsBack DEF LogOK
<1>3. PICK out : out = wal.original
  OBVIOUS
<1>4. out \in Receipt \cup {None} /\ IsActive(out) /\ Complete3(out.entries, host) /\ IsActive(receipt)
  BY <1>2, <1>3 DEF RepairLog, Log
<1>5. Data(wal, out, runtime, identity, journal, server, host)
  <2>1. ReceiptOK(out, host)
    BY <1>4 DEF NodeInv, Data, ReceiptOK
  <2>2. LogOK(wal, host, out, server, identity)
    BY <1>1, <1>2, <1>4 DEF LogOK, RepairLog
  <2>3. NoLogOK(wal, host, out) /\ PackageOK(wal, host, out)
    BY <1>2, <1>4 DEF NodeInv, Data, NoLogOK, PackageOK
  <2>4. Working(host, out, runtime, server) /\ Known(wal, out, journal, identity, server)
    BY <1>2, <1>4 DEF NodeInv, Data, Working, Known, IsActive, IsRemoved
  <2>. QED  BY <2>1, <2>2, <2>3, <2>4 DEF NodeInv, Data
<1>6. PICK r : r = receipt'
  OBVIOUS
<1>7. r \in {receipt, out}
  BY <1>3, <1>6 DEF FinishRepairRollback
<1>8. cmd' \in Command /\ Position(cmd', wal, r, runtime, identity, journal, server, host)
  <2>1. CASE cmd' \in {restoreAfterFailure, Idle}
    BY <1>2, <2>1, CommandEnds, EndedAnywhere DEF Ends
  <2>2. CASE cmd' \notin {restoreAfterFailure, Idle}
    <3>1. cmd' = Goto("finalize") /\ r = out
      BY <1>3, <1>6, <2>2 DEF FinishRepairRollback, WriteFails
    <3>2. cmd' \in Command /\ cmd'.pc = "finalize" /\ cmd'.op = cmd.op /\ cmd'.own = cmd.own
      BY <1>2, <3>1, Moves, Places
    <3>3. wal.terminal = 0
      BY <1>2 DEF RepairLog
    <3>. QED  BY <1>1, <1>2, <1>4, <3>1, <3>2, <3>3
        DEF Position, OpOK, GoingForward, GoingBack, Elsewhere, Forward7, Back, Lifecycles,
            Cleanup, NewEnroll
  <2>. QED  BY <2>1, <2>2
<1>9. spent' \in [commands : Nat, faults : Nat]
  BY <1>2, Spending DEF FinishRepairRollback, WriteFails
<1>10. r \in Receipt \cup {None} /\ Data(wal, r, runtime, identity, journal, server, host)
  BY <1>4, <1>5, <1>7 DEF NodeInv, TypeOK
<1>. QED  BY <1>6, <1>8, <1>9, <1>10, ReceiptStep DEF FinishRepairRollback

LEMMA PublishActiveStep ==
    ASSUME NodeInv, PublishActive
    PROVE  NodeInv'
<1>1. /\ TypeOK /\ OpOK(cmd) /\ wal # None /\ wal \in Log /\ wal.stage = 4 /\ wal.life # "uninstall"
      /\ identity /\ runtime # None /\ runtime \in Runtime
      /\ cmd.own \/ cmd.op = "recover"
      /\ cmd.own => cmd.op \in {"enroll", "repair"}
      /\ cmd.op = "enroll" => server.state \in {"installing", "verifying"}
  BY
     DEF PublishActive, At, NodeInv, TypeOK, Position, OpOK, GoingForward, Elsewhere, Lifecycles,
         NewEnroll
<1>2. wal.terminal = 0
  BY <1>1 DEF NodeInv, Data, LogOK, AnyLog
<1>3. PICK out : out = signedReceipt(wal, "active")
  OBVIOUS
<1>4. /\ out \in Receipt /\ IsActive(out) /\ Complete3(out.entries, host) /\ host.bound /\ Managed(host)
  <2>1. CASE wal.life = "install"
    <3>1. Complete3(wal.entries, host) /\ host.bound /\ Managed(host)
      BY <1>1, <2>1 DEF NodeInv, Data, LogOK, InstallLog
    <3>2. out \in Receipt /\ out # None /\ out.state = "active" /\ out.entries = wal.entries
      BY <1>1, <1>3, <2>1, SignedAsLogged
    <3>. QED  BY <3>1, <3>2 DEF IsActive
  <2>2. CASE wal.life = "repair"
    <3>1. RepairLog(wal, host, receipt)
      BY <1>1, <2>2 DEF NodeInv, Data, LogOK
    <3>2. wal.original \in Receipt /\ AllApplied(wal.original.entries)
      BY <1>1, <3>1 DEF RepairLog, Log, IsActive, Complete3
    <3>3. out \in Receipt /\ out # None /\ out.state = "active" /\ out.entries = wal.original.entries
      BY <1>1, <1>3, <2>2, <3>2, SignedAsBefore
    <3>4. host.bound /\ Managed(host)
      BY <1>1, <3>1 DEF NodeInv, Data, ReceiptOK, PackageOK, RepairLog
    <3>. QED  BY <3>1, <3>3, <3>4 DEF IsActive, RepairLog
  <2>. QED  BY <1>1, <2>1, <2>2 DEF Log
<1>5. PICK old : old = [runtime EXCEPT !.grant = Outdated(@)]
  OBVIOUS
<1>6. old \in Runtime /\ old # None /\ (old.grant = "none" <=> runtime.grant = "none")
  <2>1. Outdated(runtime.grant) \in {"none", "current", "stale"}
        /\ (Outdated(runtime.grant) = "none" <=> runtime.grant = "none")
    BY <1>1 DEF Outdated, Runtime
  <2>2. old \in Runtime /\ old.grant = Outdated(runtime.grant)
    BY <1>1, <1>5, <2>1 DEF Runtime
  <2>. QED  BY <2>1, <2>2, NoneIsNoRecord
<1>7. PICK later : later = [server EXCEPT !.receipt = Outdated(@)]
  OBVIOUS
<1>8. later \in Server /\ later.state = server.state
  <2>1. server \in Server /\ Outdated(server.receipt) \in {"none", "current", "stale"}
    BY <1>1 DEF TypeOK, Outdated, Server
  <2>. QED  BY <1>7, <2>1 DEF Server
<1>9. Data(wal, out, old, identity, journal, later, host)
  <2>1. ReceiptOK(out, host) /\ NoLogOK(wal, host, out) /\ PackageOK(wal, host, out)
    BY <1>1, <1>4 DEF ReceiptOK, NoLogOK, PackageOK
  <2>2. LogOK(wal, host, out, later, identity)
    BY <1>1, <1>4, <1>8 DEF NodeInv, Data, LogOK, InstallLog, RepairLog
  <2>3. Working(host, out, old, later)
    BY <1>1, <1>4, <1>6, <1>8 DEF NodeInv, Data, Working, IsActive
  <2>4. Known(wal, out, journal, identity, later)
    BY <1>1, <1>4, <1>8 DEF NodeInv, Data, Known, IsActive, IsRemoved
  <2>. QED  BY <2>1, <2>2, <2>3, <2>4 DEF NodeInv, Data
<1>10. spent' \in [commands : Nat, faults : Nat]
  BY <1>1, Spending DEF PublishActive, WriteFails
<1>11. CASE UNCHANGED <<receipt, runtime, server>> /\ WriteFails(restoreAfterFailure)
  <2>1. Ends(cmd')
    BY <1>1, <1>11, CommandEnds DEF WriteFails
  <2>. QED  BY <1>1, <1>10, <1>11, <2>1, EndedAnywhere, OnlyCommand DEF PublishActive, TypeOK, Ends
<1>12. CASE Publish
  <2>1. receipt' = out /\ runtime' = old /\ server' = later
    BY <1>3, <1>5, <1>7, <1>12 DEF Publish
  <2>2. cmd' \in Command /\ Position(cmd', wal, out, old, identity, journal, later, host)
    <3>1. CASE cmd' \in {restoreAfterFailure, Idle}
      BY <1>1, <3>1, CommandEnds, EndedAnywhere DEF Ends
    <3>2. CASE cmd' \notin {restoreAfterFailure, Idle}
      <4>1. PICK pc \in {"finalize", "unwal"} : cmd' = Goto(pc) /\ (pc = "finalize" <=> cmd.op = "recover")
        BY <3>2 DEF PublishActive, WriteFails
      <4>2. cmd' \in Command /\ cmd'.pc = pc /\ cmd'.op = cmd.op /\ cmd'.own = cmd.own
        BY <1>1, <4>1, Moves, Places
      <4>. QED  BY <1>1, <1>2, <1>4, <1>6, <1>8, <4>1, <4>2
          DEF Position, OpOK, GoingForward, GoingBack, Elsewhere, Forward7, Back, Lifecycles,
              Cleanup, NewEnroll
    <3>. QED  BY <3>1, <3>2
  <2>3. TypeOK'
    BY <1>1, <1>4, <1>6, <1>8, <1>10, <2>1, <2>2 DEF PublishActive, TypeOK
  <2>. QED  BY <1>9, <2>1, <2>2, <2>3 DEF PublishActive, NodeInv
<1>. QED  BY <1>11, <1>12 DEF PublishActive

-----------------------------------------------------------------------------
(* The log is removed, or made. *)

\* A receipt that says what the log says takes its place.
LEMMA LogRemoved ==
    ASSUME NodeInv, wal # None, journal => ~identity,
           (IsActive(receipt) /\ wal.life # "uninstall") \/ Terminal(wal, receipt)
    PROVE  Data(None, receipt, runtime, identity, journal, server, host)
<1>1. wal \in Log /\ wal.life \in {"install", "repair", "uninstall"} /\ LogOK(wal, host, receipt, server, identity)
  BY DEF NodeInv, TypeOK, Log, Data
<1>2. NoLogOK(None, host, receipt)
  <2>1. CASE IsActive(receipt)
    BY <2>1 DEF NoLogOK, IsActive
  <2>2. CASE Terminal(wal, receipt)
    <3>1. IsRemoved(receipt) /\ receipt # None /\ receipt.kept = wal.kept /\ AllRemoved(wal.entries) /\ ~IsActive(receipt)
      BY <2>2 DEF Terminal, IsRemoved, IsActive
    <3>2. wal.entries \in Entries
      BY <1>1 DEF Log
    <3>3. /\ Len(wal.entries) >= 1 => wal.entries[1].status = "removed"
          /\ Len(wal.entries) >= 2 => wal.entries[2].status = "removed"
      BY <3>1, <3>2, EntriesLength DEF AllRemoved
    <3>4. CASE wal.life = "install"
      BY <1>1, <3>3, <3>4 DEF LogOK, InstallLog, NoLogOK
    <3>5. CASE wal.life = "repair"
      BY <1>1, <3>1, <3>5 DEF LogOK, RepairLog
    <3>6. CASE wal.life = "uninstall"
      BY <1>1, <3>1, <3>3, <3>6 DEF LogOK, UninstallLog, NoLogOK
    <3>. QED  BY <1>1, <3>4, <3>5, <3>6
  <2>. QED  BY <2>1, <2>2
<1>3. PackageOK(None, host, receipt)
  BY DEF NodeInv, Data, PackageOK, Terminal, IsActive, IsRemoved
<1>4. LogOK(None, host, receipt, server, identity) /\ Known(None, receipt, journal, identity, server)
      /\ Journal(None, journal, identity)
  BY DEF NodeInv, Data, LogOK, Known, Journal
<1>. QED  BY <1>2, <1>3, <1>4 DEF NodeInv, Data

LEMMA RemoveWALStep ==
    ASSUME NodeInv, RemoveWAL
    PROVE  NodeInv'
<1>1. /\ TypeOK /\ OpOK(cmd) /\ wal # None /\ wal.terminal = 0 /\ ~journal
      /\ (IsActive(receipt) /\ wal.life # "uninstall") \/ Terminal(wal, receipt)
  BY DEF RemoveWAL, At, NodeInv, Position, Elsewhere, Data, Journal
<1>2. Data(None, receipt, runtime, identity, journal, server, host)
  BY <1>1, LogRemoved
<1>3. PICK w : w = wal'
  OBVIOUS
<1>4. w \in {wal, None}
  BY <1>3 DEF RemoveWAL
<1>5. cmd' \in Command /\ Position(cmd', w, receipt, runtime, identity, journal, server, host)
  <2>1. CASE cmd' \in {restoreAfterFailure, Idle}
    BY <1>1, <2>1, CommandEnds, EndedAnywhere DEF Ends
  <2>2. CASE cmd' \notin {restoreAfterFailure, Idle}
    <3>1. PICK pc \in {"bind", "finalize"} : /\ cmd' = Goto(pc) /\ w = None /\ cmd.pc = "unwal"
                                             /\ pc = "bind" <=> cmd.op = "enroll"
      BY <1>3, <2>2 DEF RemoveWAL, WriteFails, At
    <3>2. cmd' \in Command /\ cmd'.pc = pc /\ cmd'.op = cmd.op /\ cmd'.own = cmd.own
      BY <1>1, <3>1, Moves, Places
    <3>3. /\ IsActive(receipt) /\ cmd.own /\ cmd.op \in {"enroll", "repair"}
          /\ cmd.op = "enroll" => identity /\ server.state \in {"installing", "verifying"}
      BY <1>1, <3>1 DEF NodeInv, Position, OpOK, Elsewhere, NewEnroll
    <3>. QED  BY <3>1, <3>2, <3>3
        DEF Position, OpOK, GoingForward, GoingBack, Elsewhere, Forward7, Back, Lifecycles,
            Cleanup, NewEnroll
  <2>. QED  BY <2>1, <2>2
<1>6. spent' \in [commands : Nat, faults : Nat]
  BY <1>1, Spending DEF RemoveWAL, WriteFails
<1>7. w \in Log \cup {None} /\ Data(w, receipt, runtime, identity, journal, server, host)
  BY <1>1, <1>2, <1>4 DEF NodeInv, TypeOK
<1>. QED  BY <1>3, <1>5, <1>6, <1>7, LogStep DEF RemoveWAL

LEMMA EndCleanupStep ==
    ASSUME NodeInv, EndCleanup
    PROVE  NodeInv'
<1>1. TypeOK /\ OpOK(cmd)
  BY DEF NodeInv, Position
<1>2. CASE At("unwal_end")
  <2>1. cmd.pc = "unwal_end" /\ cmd.pc \in Cleanup
    BY <1>2 DEF At, Cleanup
  <2>2. /\ wal # None /\ journal /\ cmd.op \in {"recover", "uninstall"} /\ ~cmd.own
        /\ Terminal(wal, receipt) /\ ~identity
    <3>1. wal # None /\ journal /\ wal.cleanup = 3 /\ cmd.op \in {"recover", "uninstall"} /\ ~cmd.own
      BY <2>1, IsCleaning
    <3>. QED  BY <2>1, <3>1 DEF NodeInv, Position, Elsewhere, Data, LogOK, AnyLog
  <2>3. Data(None, receipt, runtime, identity, journal, server, host)
    BY <2>2, LogRemoved
  <2>4. PICK w : w = wal'
    OBVIOUS
  <2>5. /\ w \in {wal, None} /\ UNCHANGED <<host, receipt, runtime, identity, journal, server, expired>>
        /\ cmd' = Idle \/ (w = None /\ cmd' = Goto("unjournal"))
        /\ Fault \/ UNCHANGED spent
    BY <1>2, <2>1, <2>4 DEF EndCleanup, At, WriteFails
  <2>6. cmd' \in Command /\ Position(cmd', w, receipt, runtime, identity, journal, server, host)
    <3>1. CASE cmd' = Idle
      BY <1>1, <3>1, CommandEnds, EndedAnywhere DEF Ends
    <3>2. CASE cmd' # Idle
      <4>1. cmd' \in Command /\ cmd'.pc = "unjournal" /\ cmd'.op = cmd.op /\ ~cmd'.own /\ w = None
        BY <1>1, <2>2, <2>5, <3>2, Moves, Places
      <4>. QED  BY <2>2, <4>1
          DEF Position, OpOK, GoingForward, GoingBack, Elsewhere, Forward7, Back, Lifecycles,
              Cleanup, NewEnroll
    <3>. QED  BY <3>1, <3>2
  <2>7. w \in Log \cup {None} /\ Data(w, receipt, runtime, identity, journal, server, host)
    BY <1>1, <2>3, <2>5 DEF NodeInv, TypeOK
  <2>. QED  BY <1>1, <2>4, <2>5, <2>6, <2>7, Spending, LogStep
<1>3. CASE At("unjournal")
  <2>1. /\ wal = None /\ cmd' = Idle /\ UNCHANGED <<wal, host, receipt, runtime, identity, server, expired>>
        /\ Fault \/ UNCHANGED spent
        /\ journal' \in {journal, FALSE}
    BY <1>3 DEF EndCleanup, At, NodeInv, Position, Elsewhere
  <2>2. PICK j \in BOOLEAN : j = journal'
    BY <1>1, <2>1 DEF TypeOK
  <2>3. j => journal
    BY <1>1, <2>1, <2>2 DEF TypeOK
  <2>4. Known(wal, receipt, j, identity, server) /\ Journal(wal, j, identity)
    BY <2>1, <2>3 DEF NodeInv, Data, Known, Journal
  <2>5. Data(wal, receipt, runtime, identity, j, server, host)
    BY <2>4 DEF NodeInv, Data
  <2>6. Idle \in Command /\ Position(Idle, wal, receipt, runtime, identity, j, server, host)
    BY <1>1, CommandEnds, EndedAnywhere DEF Ends
  <2>7. spent' \in [commands : Nat, faults : Nat]
    BY <1>1, <2>1, Spending
  <2>8. TypeOK'
    BY <1>1, <2>1, <2>2, <2>6, <2>7 DEF TypeOK
  <2>. QED  BY <2>1, <2>2, <2>5, <2>6, <2>8 DEF NodeInv
<1>. QED  BY <1>2, <1>3 DEF EndCleanup

\* The log that a command begins with.
LEMMA NewLog ==
    ASSUME NodeInv, cmd.op \in {"enroll", "repair", "uninstall"}, cmd.op # "enroll" => IsActive(receipt)
    PROVE  /\ NewWAL \in Log /\ NewWAL # None
           /\ NewWAL.life = IF cmd.op = "enroll" THEN "install" ELSE cmd.op
           /\ NewWAL.stage = IF cmd.op = "uninstall" THEN 3 ELSE 1
           /\ ~NewWAL.verifying /\ ~NewWAL.left /\ ~NewWAL.residue /\ ~NewWAL.kept
           /\ NewWAL.cleanup = 0 /\ NewWAL.terminal = 0
           /\ cmd.op # "enroll" => NewWAL.original = receipt
           /\ NewWAL.entries = IF cmd.op = "uninstall" THEN receipt.entries ELSE <<>>
<1>1. PICK w : w = NewWAL
  OBVIOUS
<1>2. PICK life : life = IF cmd.op = "enroll" THEN "install" ELSE cmd.op
  OBVIOUS
<1>3. PICK es : es = IF cmd.op = "uninstall" THEN receipt.entries ELSE <<>>
  OBVIOUS
<1>4. PICK original : original = IF cmd.op = "enroll" THEN None ELSE receipt
  OBVIOUS
<1>5. PICK stage : stage = IF cmd.op = "uninstall" THEN 3 ELSE 1
  OBVIOUS
<1>6. w = [life |-> life, stage |-> stage, verifying |-> FALSE, left |-> FALSE, residue |-> FALSE,
           kept |-> FALSE, cleanup |-> 0, terminal |-> 0, original |-> original, entries |-> es]
  <2>1. Lifecycle[cmd.op] = life
    BY <1>2 DEF Lifecycle
  <2>. QED  BY <1>1, <1>3, <1>4, <1>5, <2>1 DEF NewWAL
<1>7. es \in Entries
  <2>1. <<>> \in Entries
    BY DEF Entries
  <2>2. cmd.op = "uninstall" => receipt.entries \in Entries
    <3>1. cmd.op = "uninstall" => receipt \in Receipt
      BY DEF NodeInv, TypeOK, IsActive
    <3>. QED  BY <3>1 DEF Receipt
  <2>. QED  BY <1>3, <2>1, <2>2
<1>8. life \in {"install", "repair", "uninstall"} /\ stage \in 1 .. 4 /\ original \in Receipt \cup {None}
  BY <1>2, <1>4, <1>5 DEF NodeInv, TypeOK
<1>9. w \in Log
  BY <1>6, <1>7, <1>8 DEF Log
<1>10. /\ w.life = life /\ w.stage = stage /\ w.entries = es /\ w.original = original
       /\ ~w.verifying /\ ~w.left /\ ~w.residue /\ ~w.kept /\ w.cleanup = 0 /\ w.terminal = 0
  BY <1>6
<1>. QED  BY <1>1, <1>2, <1>3, <1>4, <1>5, <1>9, <1>10, NoneIsNoRecord

\* Uninstall may pass over the package from the start.
LEMMA KeptLog ==
    ASSUME NEW w \in Log, Len(w.entries) = 3
    PROVE  LET v == KeepRuntime(w)
           IN  /\ v \in Log /\ v # None /\ v.kept
               /\ v.life = w.life /\ v.stage = w.stage /\ v.verifying = w.verifying /\ v.left = w.left
               /\ v.residue = w.residue /\ v.cleanup = w.cleanup /\ v.terminal = w.terminal
               /\ v.original = w.original
               /\ Len(v.entries) = 3 /\ DOMAIN v.entries = 1 .. 3
               /\ v.entries[1].status = "removed" /\ v.entries[1].prior = w.entries[1].prior
               /\ v.entries[2] = w.entries[2] /\ v.entries[3] = w.entries[3]
<1>1. PICK v : v = KeepRuntime(w)
  OBVIOUS
<1>2. PICK a : a = [w EXCEPT !.kept = TRUE]
  OBVIOUS
<1>3. /\ a \in Log /\ a.kept
      /\ a.life = w.life /\ a.stage = w.stage /\ a.verifying = w.verifying /\ a.left = w.left
      /\ a.residue = w.residue /\ a.cleanup = w.cleanup /\ a.terminal = w.terminal
      /\ a.original = w.original /\ a.entries = w.entries
  BY <1>2 DEF Log
<1>4. /\ w.entries \in Entries /\ w.entries \in Seq(Entry) /\ DOMAIN w.entries = 1 .. 3
      /\ w.entries[1] \in Entry
  <2>1. w.entries \in Entries
    BY DEF Log
  <2>2. w.entries \in Seq(Entry) /\ DOMAIN w.entries = 1 .. 3
    BY <2>1, EntriesLength
  <2>. QED  BY <2>1, <2>2
<1>5. PICK e : e = [w.entries[1] EXCEPT !.status = "removed"]
  OBVIOUS
<1>6. e \in Entry /\ e.status = "removed" /\ e.prior = w.entries[1].prior
  BY <1>4, <1>5 DEF Entry, Status
<1>7. PICK es : es = [w.entries EXCEPT ![1] = e]
  OBVIOUS
<1>8. /\ es \in Entries /\ Len(es) = 3 /\ DOMAIN es = 1 .. 3
      /\ es[1] = e /\ es[2] = w.entries[2] /\ es[3] = w.entries[3]
  BY <1>4, <1>6, <1>7 DEF Entries
<1>9. v = [a EXCEPT !.entries = es]
  BY <1>1, <1>2, <1>5, <1>7 DEF KeepRuntime
<1>10. /\ v \in Log /\ v.kept
       /\ v.life = w.life /\ v.stage = w.stage /\ v.verifying = w.verifying /\ v.left = w.left
       /\ v.residue = w.residue /\ v.cleanup = w.cleanup /\ v.terminal = w.terminal
       /\ v.original = w.original /\ v.entries = es
  BY <1>3, <1>8, <1>9 DEF Log
<1>. QED  BY <1>1, <1>6, <1>8, <1>10, NoneIsNoRecord

LEMMA CreateWALStep ==
    ASSUME NodeInv, CreateWAL
    PROVE  NodeInv'
<1>1. /\ TypeOK /\ OpOK(cmd) /\ cmd.op \in {"enroll", "repair", "uninstall"} /\ ~cmd.own
      /\ cmd.op = "enroll" => cmd.i = 1 /\ (receipt = None \/ IsRemoved(receipt))
                              /\ server.state \in {"installing", "verifying"}
      /\ cmd.op # "enroll" => IsActive(receipt)
      /\ identity /\ runtime # None
      /\ cmd \in Command
  BY DEF CreateWAL, At, NodeInv, TypeOK, Position, OpOK, Elsewhere, Lifecycles, NewEnroll
<1>2. spent' \in [commands : Nat, faults : Nat]
  BY <1>1, Spending DEF CreateWAL, WriteFails
<1>3. PICK n : n = NewWAL
  OBVIOUS
<1>4. /\ n \in Log /\ n # None
      /\ n.life = IF cmd.op = "enroll" THEN "install" ELSE cmd.op
      /\ n.stage = IF cmd.op = "uninstall" THEN 3 ELSE 1
      /\ ~n.verifying /\ ~n.left /\ ~n.residue /\ ~n.kept
      /\ n.cleanup = 0 /\ n.terminal = 0
      /\ cmd.op # "enroll" => n.original = receipt
      /\ n.entries = IF cmd.op = "uninstall" THEN receipt.entries ELSE <<>>
  BY <1>1, <1>3, NewLog
<1>5. PICK w : w = wal'
  OBVIOUS
<1>6. CASE wal # None \/ wal' = None
  <2>1. cmd' \in {restoreAfterFailure, Idle} /\ UNCHANGED wal
    <3>1. KeepRuntime(n) # None \/ cmd.op # "uninstall"
      BY <1>1, <1>4, KeptLog DEF NodeInv, Data, ReceiptOK, Complete3
    <3>. QED  BY <1>3, <1>4, <1>6, <3>1 DEF CreateWAL, WriteFails
  <2>2. Ends(cmd')
    BY <1>1, <2>1, CommandEnds
  <2>. QED  BY <1>1, <1>2, <2>1, <2>2, EndedAnywhere, OnlyCommand DEF CreateWAL, TypeOK, Ends
<1>7. CASE wal = None /\ wal' # None
  <2>1. ~journal /\ NoLogOK(wal, host, receipt)
    BY <1>1, <1>7 DEF NodeInv, Data, Journal
  <2>2. w = n \/ (w = KeepRuntime(n) /\ cmd.op = "uninstall")
    BY <1>3, <1>5, <1>7 DEF CreateWAL
  <2>3. \/ cmd' \in {restoreAfterFailure, Idle}
        \/ cmd' = [Goto(IF cmd.op = "enroll" THEN "capture" ELSE "probe") EXCEPT !.own = (cmd.op # "uninstall")]
    BY <1>7 DEF CreateWAL, WriteFails
  <2>4. CASE cmd.op # "uninstall"
    <3>1. w = n /\ n.entries = <<>> /\ Len(n.entries) = 0 /\ DOMAIN n.entries = {} /\ n.stage = 1
      BY <1>4, <2>2, <2>4
    <3>2. LogOK(n, host, receipt, server, identity)
      <4>1. n.stage # 4 /\ ~(n.cleanup >= 2) /\ n.cleanup # 3
        BY <1>4, <3>1
      <4>2. AnyLog(n, host, identity)
        BY <1>4, <3>1, <4>1 DEF AnyLog
      <4>3. ASSUME cmd.op = "enroll" PROVE InstallLog(n, host, receipt, server)
        <5>1. ~IsActive(receipt) /\ ~host.policy
          BY <1>1, <4>3 DEF NodeInv, Data, Working, IsActive, IsRemoved
        <5>2. host.package = host.original /\ host.service = "none"
          BY <1>1, <1>7, <2>1, <4>3 DEF NoLogOK, IsRemoved, NodeInv, Data, Known
        <5>3. LeadsBack(n.entries, host)
          BY <3>1 DEF LeadsBack
        <5>. QED  BY <1>1, <1>4, <3>1, <4>1, <4>3, <5>1, <5>2, <5>3 DEF InstallLog
      <4>4. ASSUME cmd.op = "repair" PROVE RepairLog(n, host, receipt)
        BY <1>1, <1>4, <3>1, <4>4 DEF RepairLog, NodeInv, Data, ReceiptOK
      <4>. QED  BY <1>1, <1>4, <2>4, <4>2, <4>3, <4>4 DEF LogOK
    <3>3. Data(n, receipt, runtime, identity, journal, server, host)
      <4>1. NoLogOK(n, host, receipt) /\ Known(n, receipt, journal, identity, server) /\ Journal(n, journal, identity)
        <5>1. receipt # None => server.state # "none"
          BY DEF NodeInv, Data, Known
        <5>2. server.state # "none"
          BY <1>1, <2>4, <5>1 DEF IsActive
        <5>3. ~(n.cleanup >= 2)
          BY <1>4
        <5>. QED  BY <1>4, <2>1, <5>2, <5>3 DEF NodeInv, Data, NoLogOK, Known, Journal
      <4>2. PackageOK(n, host, receipt)
        BY <1>7 DEF NodeInv, Data, PackageOK
      <4>. QED  BY <3>2, <4>1, <4>2 DEF NodeInv, Data
    <3>4. cmd' \in Command /\ Position(cmd', n, receipt, runtime, identity, journal, server, host)
      <4>1. CASE cmd' \in {restoreAfterFailure, Idle}
        BY <1>1, <4>1, CommandEnds, EndedAnywhere DEF Ends
      <4>2. CASE cmd' \notin {restoreAfterFailure, Idle}
        <5>1. PICK pc : pc = IF cmd.op = "enroll" THEN "capture" ELSE "probe"
          OBVIOUS
        <5>2. pc \in PC /\ pc \in {"capture", "probe"} /\ (pc = "capture" <=> cmd.op = "enroll")
          BY <5>1 DEF PC
        <5>3. PICK a : a = Goto(pc)
          OBVIOUS
        <5>4. a \in Command /\ a.pc = pc /\ a.op = cmd.op /\ a.i = cmd.i
          BY <1>1, <5>2, <5>3, Moves
        <5>5. cmd' = [a EXCEPT !.own = TRUE]
          BY <2>3, <2>4, <4>2, <5>1, <5>3
        <5>6. cmd' \in Command /\ cmd'.pc = pc /\ cmd'.op = cmd.op /\ cmd'.own /\ cmd'.i = cmd.i
          BY <5>4, <5>5 DEF Command
        <5>7. OwnLog(cmd', n)
          <6>1. AllApplied(n.entries) /\ n.stage < 3
            BY <3>1 DEF AllApplied
          <6>2. pc = "capture" => cmd'.i \in 1 .. 4 /\ Len(n.entries) = cmd'.i - 1
            BY <1>1, <3>1, <5>2, <5>6
          <6>. QED  BY <1>1, <1>4, <2>4, <3>1, <5>2, <5>6, <6>1, <6>2 DEF OwnLog, Forward7
        <5>8. OpOK(cmd')
          BY <1>1, <2>4, <5>2, <5>6 DEF OpOK, Forward7, Back, Cleanup
        <5>9. GoingForward(cmd', n, receipt, host) /\ GoingBack(cmd', n)
          BY <5>2, <5>6, <5>7 DEF GoingForward, GoingBack, Forward7, Back
        <5>10. Elsewhere(cmd', n, receipt, runtime, journal, identity, server)
          BY <1>1, <2>1, <2>4, <5>2, <5>6
             DEF Elsewhere, Lifecycles, NewEnroll, Forward7, Back, Cleanup
        <5>. QED  BY <5>6, <5>8, <5>9, <5>10 DEF Position
      <4>. QED  BY <4>1, <4>2
    <3>. QED  BY <1>2, <1>4, <1>5, <3>1, <3>3, <3>4, LogStep DEF CreateWAL
  <2>5. CASE cmd.op = "uninstall"
    <3>1. /\ n.entries = receipt.entries /\ Complete3(receipt.entries, host) /\ host.bound
          /\ Len(n.entries) = 3 /\ LeadsBack(n.entries, host) /\ AllApplied(n.entries)
      BY <1>1, <1>4, <2>5 DEF NodeInv, Data, ReceiptOK, Complete3
    <3>2. DOMAIN n.entries = 1 .. 3
      <4>1. n.entries \in Entries
        BY <1>4 DEF Log
      <4>. QED  BY <3>1, <4>1, EntriesLength
    <3>3. \A k \in 1 .. 3 : n.entries[k].status = "applied"
      BY <3>1, <3>2 DEF AllApplied
    <3>4. /\ w \in Log /\ w # None /\ w.life = "uninstall" /\ w.stage = 3
          /\ ~w.left /\ ~w.residue /\ w.cleanup = 0 /\ w.terminal = 0
          /\ Len(w.entries) = 3 /\ DOMAIN w.entries = 1 .. 3
          /\ w.entries[1].prior = n.entries[1].prior /\ w.entries[2].prior = n.entries[2].prior
          /\ w.entries[2].status = "applied" /\ w.entries[3].status = "applied"
          /\ w.entries[1].status \in {"applied", "removed"}
          /\ w.kept <=> w.entries[1].status = "removed"
      <4>1. CASE w = n
        BY <1>4, <2>5, <3>1, <3>2, <3>3, <4>1
      <4>2. CASE w = KeepRuntime(n)
        BY <1>4, <2>5, <3>1, <3>2, <3>3, <4>2, KeptLog
      <4>. QED  BY <2>2, <4>1, <4>2
    <3>5. LogOK(w, host, receipt, server, identity)
      <4>1. LeadsBack(w.entries, host)
        BY <3>1, <3>4 DEF LeadsBack
      <4>2. UninstallLog(w, host)
        BY <3>1, <3>4, <4>1 DEF UninstallLog
      <4>3. ~(w.cleanup >= 2) /\ w.cleanup # 3
        BY <3>4
      <4>4. \A k \in DOMAIN w.entries : w.entries[k].status # "residue"
        BY <3>4
      <4>5. AnyLog(w, host, identity)
        BY <3>4, <4>3, <4>4 DEF AnyLog
      <4>. QED  BY <3>4, <4>2, <4>5 DEF LogOK
    <3>6. Data(w, receipt, runtime, identity, journal, server, host)
      <4>1. NoLogOK(w, host, receipt) /\ Known(w, receipt, journal, identity, server) /\ Journal(w, journal, identity)
        <5>1. ~(w.cleanup >= 2) /\ receipt # None
          BY <1>1, <2>5, <3>4 DEF IsActive
        <5>. QED  BY <2>1, <3>4, <5>1 DEF NodeInv, Data, NoLogOK, Known, Journal
      <4>2. PackageOK(w, host, receipt)
        BY <3>4 DEF PackageOK
      <4>. QED  BY <3>5, <4>1, <4>2 DEF NodeInv, Data
    <3>7. cmd' \in Command /\ Position(cmd', w, receipt, runtime, identity, journal, server, host)
      <4>1. CASE cmd' \in {restoreAfterFailure, Idle}
        BY <1>1, <4>1, CommandEnds, EndedAnywhere DEF Ends
      <4>2. CASE cmd' \notin {restoreAfterFailure, Idle}
        <5>1. PICK a : a = Goto("probe")
          OBVIOUS
        <5>2. a \in Command /\ a.pc = "probe" /\ a.op = "uninstall"
          BY <1>1, <2>5, <5>1, Moves, Places
        <5>3. cmd' = [a EXCEPT !.own = FALSE]
          BY <2>3, <2>5, <4>2, <5>1
        <5>4. cmd' \in Command /\ cmd'.pc = "probe" /\ cmd'.op = "uninstall" /\ ~cmd'.own
          BY <5>2, <5>3 DEF Command
        <5>. QED  BY <1>1, <2>1, <3>4, <5>4
            DEF Position, OpOK, GoingForward, GoingBack, Elsewhere, Forward7, Back, Lifecycles,
                Cleanup, NewEnroll
      <4>. QED  BY <4>1, <4>2
    <3>. QED  BY <1>2, <1>5, <3>4, <3>6, <3>7, LogStep DEF CreateWAL
  <2>. QED  BY <2>4, <2>5
<1>. QED  BY <1>6, <1>7

-----------------------------------------------------------------------------
(* The entries of the log: journaled, applied, undone. *)

LEMMA JournaledLog ==
    ASSUME NEW w \in Log, Len(w.entries) < 3, NEW m,
           Captured(host, m) \in PackageState \cup ServiceState \cup NodeState
    PROVE  LET v == Journaled(w, m)
               n == Len(w.entries) + 1
           IN  /\ v \in Log /\ v # None
               /\ v.life = w.life /\ v.verifying = w.verifying /\ v.left = w.left
               /\ v.residue = w.residue /\ v.kept = w.kept /\ v.cleanup = w.cleanup
               /\ v.terminal = w.terminal /\ v.original = w.original
               /\ v.stage = IF w.life = "install" THEN 2 ELSE w.stage
               /\ Len(v.entries) = n
               /\ \A k \in 1 .. Len(w.entries) : v.entries[k] = w.entries[k]
               /\ v.entries[n].status = "pending" /\ v.entries[n].prior = Captured(host, m)
<1>1. PICK v : v = Journaled(w, m)
  OBVIOUS
<1>2. PICK e : e = [status |-> "pending", prior |-> Captured(host, m)]
  OBVIOUS
<1>3. e \in Entry /\ e.status = "pending" /\ e.prior = Captured(host, m)
  BY <1>2 DEF Entry, Status
<1>4. PICK es : es = Append(w.entries, e)
  OBVIOUS
<1>5. w.entries \in Seq(Entry) /\ Len(w.entries) \in 0 .. 3
  <2>1. w.entries \in Entries
    BY DEF Log
  <2>. QED  BY <2>1, EntriesLength
<1>6. /\ es \in Entries /\ Len(es) = Len(w.entries) + 1
      /\ \A k \in 1 .. Len(w.entries) : es[k] = w.entries[k]
      /\ es[Len(w.entries) + 1] = e
  <2>1. /\ es \in Seq(Entry) /\ Len(es) = Len(w.entries) + 1
        /\ \A k \in 1 .. Len(w.entries) : es[k] = w.entries[k]
        /\ es[Len(w.entries) + 1] = e
    BY <1>3, <1>4, <1>5
  <2>2. Len(es) <= 3
    BY <1>5, <2>1
  <2>. QED  BY <2>1, <2>2 DEF Entries
<1>7. PICK a : a = [w EXCEPT !.entries = es]
  OBVIOUS
<1>8. /\ a \in Log /\ a.entries = es
      /\ a.life = w.life /\ a.verifying = w.verifying /\ a.left = w.left
      /\ a.residue = w.residue /\ a.kept = w.kept /\ a.cleanup = w.cleanup
      /\ a.terminal = w.terminal /\ a.original = w.original /\ a.stage = w.stage
  BY <1>6, <1>7 DEF Log
<1>9. PICK stage : stage = IF w.life = "install" THEN 2 ELSE w.stage
  OBVIOUS
<1>10. v = [a EXCEPT !.stage = stage]
  BY <1>1, <1>2, <1>4, <1>7, <1>9 DEF Journaled
<1>11. stage \in 1 .. 4
  BY <1>9 DEF Log
<1>12. /\ v \in Log /\ v.entries = es /\ v.stage = stage
       /\ v.life = w.life /\ v.verifying = w.verifying /\ v.left = w.left
       /\ v.residue = w.residue /\ v.kept = w.kept /\ v.cleanup = w.cleanup
       /\ v.terminal = w.terminal /\ v.original = w.original
  BY <1>8, <1>10, <1>11 DEF Log
<1>. QED  BY <1>1, <1>3, <1>6, <1>9, <1>12, NoneIsNoRecord

LEMMA MarkedLog ==
    ASSUME NEW w \in Log, NEW k \in DOMAIN w.entries, NEW status \in Status
    PROVE  LET v == Marked(w, k, status)
           IN  /\ v \in Log /\ v # None
               /\ v.life = w.life /\ v.stage = w.stage /\ v.verifying = w.verifying /\ v.left = w.left
               /\ v.kept = w.kept /\ v.cleanup = w.cleanup
               /\ v.terminal = w.terminal /\ v.original = w.original
               /\ v.residue <=> w.residue \/ status = "residue"
               /\ Len(v.entries) = Len(w.entries) /\ DOMAIN v.entries = DOMAIN w.entries
               /\ v.entries[k].status = status
               /\ \A n \in DOMAIN w.entries : /\ v.entries[n].prior = w.entries[n].prior
                                              /\ n # k => v.entries[n] = w.entries[n]
<1>1. PICK v : v = Marked(w, k, status)
  OBVIOUS
<1>2. /\ w.entries \in Entries /\ w.entries \in Seq(Entry) /\ Len(w.entries) \in 0 .. 3
      /\ DOMAIN w.entries = 1 .. Len(w.entries)
  <2>1. w.entries \in Entries
    BY DEF Log
  <2>. QED  BY <2>1, EntriesLength
<1>3. PICK e : e = [w.entries[k] EXCEPT !.status = status]
  OBVIOUS
<1>4. e \in Entry /\ e.status = status /\ e.prior = w.entries[k].prior
  <2>1. w.entries[k] \in Entry
    BY <1>2
  <2>. QED  BY <1>3, <2>1 DEF Entry
<1>5. PICK es : es = [w.entries EXCEPT ![k] = e]
  OBVIOUS
<1>6. /\ es \in Seq(Entry) /\ Len(es) = Len(w.entries) /\ DOMAIN es = DOMAIN w.entries
      /\ es[k] = e /\ \A n \in DOMAIN w.entries : n # k => es[n] = w.entries[n]
  BY <1>2, <1>4, <1>5
<1>7. es \in Entries
  BY <1>2, <1>6 DEF Entries
<1>8. PICK a : a = [w EXCEPT !.entries = es]
  OBVIOUS
<1>9. /\ a \in Log /\ a.entries = es
      /\ a.life = w.life /\ a.stage = w.stage /\ a.verifying = w.verifying /\ a.left = w.left
      /\ a.kept = w.kept /\ a.cleanup = w.cleanup /\ a.residue = w.residue
      /\ a.terminal = w.terminal /\ a.original = w.original
  BY <1>7, <1>8 DEF Log
<1>10. PICK x \in BOOLEAN : x = (w.residue \/ status = "residue")
  OBVIOUS
<1>11. v = [a EXCEPT !.residue = x]
  BY <1>1, <1>3, <1>5, <1>8, <1>10 DEF Marked
<1>12. /\ v \in Log /\ v.entries = es /\ v.residue = x
       /\ v.life = w.life /\ v.stage = w.stage /\ v.verifying = w.verifying /\ v.left = w.left
       /\ v.kept = w.kept /\ v.cleanup = w.cleanup
       /\ v.terminal = w.terminal /\ v.original = w.original
  BY <1>9, <1>11 DEF Log
<1>13. \A n \in DOMAIN w.entries : es[n].prior = w.entries[n].prior
  BY <1>4, <1>6
<1>. QED  BY <1>1, <1>4, <1>6, <1>10, <1>12, <1>13, NoneIsNoRecord

LEMMA CaptureStep ==
    ASSUME NodeInv, Capture
    PROVE  NodeInv'
<1>1. cmd.pc = "capture" /\ cmd.pc \in Forward7 /\ TypeOK /\ OpOK(cmd) /\ cmd \in Command /\ host \in Host
  BY DEF Capture, At, Forward7, NodeInv, TypeOK, Position
<1>2. /\ IF cmd.own THEN OwnLog(cmd, wal) ELSE OthersLog(cmd, wal, receipt)
      /\ identity /\ runtime # None
      /\ cmd.op = "enroll" => server.state \in {"installing", "verifying"}
      /\ cmd.i \in 1 .. 4
  BY <1>1, IsForward
<1>3. Len(Plan) = 3
  BY DEF Plan
<1>4. CASE cmd' = Goto("check") /\ cmd.i > 3 /\ UNCHANGED <<host, wal, spent>>
  <2>1. cmd' \in Command /\ cmd'.pc = "check" /\ cmd'.op = cmd.op /\ cmd'.own = cmd.own /\ cmd'.i = cmd.i
    BY <1>1, <1>4, Moves, Places
  <2>2. cmd'.pc \in Forward7 /\ cmd'.i = 4 /\ cmd'.pc # "complete"
    BY <1>2, <1>4, <2>1 DEF Forward7
  <2>3. Position(cmd', wal, receipt, runtime, identity, journal, server, host)
    BY <1>1, <1>2, <2>1, <2>2, StaysForward
  <2>. QED  BY <1>1, <1>4, <2>1, <2>3, OnlyCommand DEF Capture, TypeOK
<1>5. CASE cmd' = Goto("issue") /\ UNCHANGED <<host, wal, spent>>
  <2>1. cmd' \in Command /\ cmd'.pc = "issue" /\ cmd'.op = cmd.op /\ cmd'.own = cmd.own /\ cmd'.i = cmd.i
    BY <1>1, <1>5, Moves, Places
  <2>2. cmd'.pc \in Forward7 /\ cmd'.pc \notin {"check", "confirm", "verify", "complete"}
    BY <2>1 DEF Forward7
  <2>3. Position(cmd', wal, receipt, runtime, identity, journal, server, host)
    BY <1>1, <1>2, <2>1, <2>2, StaysForward
  <2>. QED  BY <1>1, <1>5, <2>1, <2>3, OnlyCommand DEF Capture, TypeOK
<1>6. CASE Breaks("capture", CaptureOK(host, Plan[cmd.i]), {}, failAndRollback) /\ UNCHANGED wal
  <2>1. /\ cmd' \in {failAndRollback, Idle} /\ host' = host /\ spent' \in [commands : Nat, faults : Nat]
    BY <1>1, <1>6, Broken
  <2>2. cmd' \in Command /\ Position(cmd', wal, receipt, runtime, identity, journal, server, host)
    BY <1>1, <1>2, <2>1, ForwardFails
  <2>. QED  BY <1>1, <1>6, <2>1, <2>2, OnlyCommand DEF Capture, TypeOK
<1>7. CASE /\ cmd.i \in 1 .. 3 /\ UNCHANGED <<host, spent>>
           /\ wal' = Journaled(wal, Plan[cmd.i]) /\ cmd' = Goto("apply")
  <2>1. cmd.own /\ OwnLog(cmd, wal) /\ cmd.op \in {"enroll", "repair"}
    <3>1. cmd.i # 4
      BY <1>7
    <3>. QED  BY <1>1, <1>2, <3>1 DEF OthersLog, OpOK
  <2>2. /\ wal # None /\ wal \in Log /\ wal.life = IF cmd.op = "enroll" THEN "install" ELSE "repair"
        /\ wal.terminal = 0 /\ ~wal.residue /\ wal.stage < 3 /\ AllApplied(wal.entries)
        /\ Len(wal.entries) = cmd.i - 1
    BY <1>1, <2>1 DEF OwnLog, Forward7, TypeOK
  <2>3. PICK m : m = Plan[cmd.i]
    OBVIOUS
  <2>4. /\ cmd.i = 1 => m = "package"
        /\ cmd.i = 2 => m = "service"
        /\ m \in {"package", "service", "taint"}
    BY <1>7, <2>3 DEF Plan
  <2>5. /\ Captured(host, m) \in PackageState \cup ServiceState \cup NodeState
        /\ cmd.i = 1 => Captured(host, m) = host.package
        /\ cmd.i = 2 => Captured(host, m) = host.service /\ host.service \in ServiceState
    BY <1>1, <2>4 DEF Captured, Host, PackageState, ServiceState
  <2>6. PICK w : w = Journaled(wal, m)
    OBVIOUS
  <2>7. wal.entries \in Seq(Entry) /\ Len(wal.entries) \in 0 .. 2 /\ DOMAIN wal.entries = 1 .. Len(wal.entries)
    <3>1. wal.entries \in Entries
      BY <2>2 DEF Log
    <3>. QED  BY <1>7, <2>2, <3>1, EntriesLength
  <2>8. /\ w \in Log /\ w # None
        /\ w.life = wal.life /\ w.verifying = wal.verifying /\ w.left = wal.left
        /\ w.residue = wal.residue /\ w.kept = wal.kept /\ w.cleanup = wal.cleanup
        /\ w.terminal = wal.terminal /\ w.original = wal.original
        /\ w.stage = IF wal.life = "install" THEN 2 ELSE wal.stage
        /\ Len(w.entries) = Len(wal.entries) + 1
        /\ \A k \in 1 .. Len(wal.entries) : w.entries[k] = wal.entries[k]
        /\ w.entries[Len(wal.entries) + 1].status = "pending"
        /\ w.entries[Len(wal.entries) + 1].prior = Captured(host, m)
    <3>1. Len(wal.entries) < 3
      BY <1>7, <2>2
    <3>2. wal \in Log /\ Captured(host, m) \in PackageState \cup ServiceState \cup NodeState
      BY <2>2, <2>5
    <3>. QED  BY <2>6, <3>1, <3>2, JournaledLog
  <2>9. /\ Len(w.entries) = cmd.i /\ DOMAIN w.entries = 1 .. cmd.i
        /\ \A k \in 1 .. cmd.i : w.entries[k].status = IF k = cmd.i THEN "pending" ELSE "applied"
        /\ w.entries[cmd.i].prior = Captured(host, m)
        /\ \A k \in 1 .. cmd.i : k # cmd.i => w.entries[k].prior = wal.entries[k].prior
    <3>1. cmd.i \in 1 .. 3 /\ Len(wal.entries) + 1 = cmd.i
      BY <1>7, <2>2, <2>7
    <3>2. w.entries \in Entries
      BY <2>8 DEF Log
    <3>3. Len(w.entries) = cmd.i /\ DOMAIN w.entries = 1 .. cmd.i
      BY <2>8, <3>1, <3>2, EntriesLength
    <3>4. \A k \in 1 .. cmd.i : k # cmd.i => k \in 1 .. Len(wal.entries)
      BY <2>7, <3>1
    <3>5. \A k \in 1 .. Len(wal.entries) : wal.entries[k].status = "applied"
      BY <2>2, <2>7 DEF AllApplied
    <3>. QED  BY <2>8, <3>1, <3>3, <3>4, <3>5
  <2>10. LogOK(w, host, receipt, server, identity)
    <3>1. LogOK(wal, host, receipt, server, identity)
      BY DEF NodeInv, Data
    <3>2. cmd.i \in DOMAIN w.entries /\ w.entries[cmd.i].status = "pending" /\ ~AllApplied(w.entries)
      BY <1>7, <2>9 DEF AllApplied
    <3>3. \A k \in DOMAIN w.entries : w.entries[k].status # "residue"
      BY <2>9
    <3>4. AnyLog(w, host, identity)
      BY <2>2, <2>8, <3>1, <3>2, <3>3 DEF LogOK, AnyLog
    <3>5. ASSUME wal.life = "install" PROVE InstallLog(w, host, receipt, server)
      <4>1. InstallLog(wal, host, receipt, server)
        BY <2>2, <3>1, <3>5 DEF LogOK
      <4>2. wal.stage # 4 /\ w.stage # 4
        BY <2>2, <2>8, <3>5 DEF Log
      <4>3. /\ cmd.i = 1 => host.package = host.original
            /\ cmd.i \in {1, 2} => host.service = "none"
        BY <1>7, <2>2, <2>7, <4>1 DEF InstallLog
      <4>4. LeadsBack(w.entries, host)
        <5>1. LeadsBack(wal.entries, host)
          BY <4>1 DEF InstallLog
        <5>2. CASE cmd.i = 1
          BY <2>5, <2>9, <4>3, <5>2 DEF LeadsBack
        <5>3. CASE cmd.i = 2
          BY <2>2, <2>5, <2>7, <2>9, <4>3, <5>1, <5>3 DEF LeadsBack
        <5>4. CASE cmd.i = 3
          BY <2>2, <2>7, <2>9, <5>1, <5>4 DEF LeadsBack
        <5>. QED  BY <1>7, <5>2, <5>3, <5>4
      <4>5. ~wal.verifying
        BY <1>7, <2>2, <2>7, <4>1 DEF InstallLog
      <4>6. /\ host.package # host.original => Len(w.entries) >= 1 /\ w.entries[1].status # "removed"
            /\ host.service # "none" => Len(w.entries) >= 2 /\ w.entries[2].status # "removed"
        BY <1>7, <2>9, <4>3
      <4>. QED  BY <2>8, <4>1, <4>2, <4>4, <4>5, <4>6 DEF InstallLog
    <3>6. ASSUME wal.life = "repair" PROVE RepairLog(w, host, receipt)
      <4>1. RepairLog(wal, host, receipt)
        BY <2>2, <3>1, <3>6 DEF LogOK
      <4>2. host.package \in {"signed", "other"}
        BY <2>2, <3>6, <4>1 DEF NodeInv, Data, PackageOK, RepairLog, Managed
      <4>3. Len(w.entries) >= 1 => w.entries[1].prior \in {"signed", "other"}
        BY <1>7, <2>2, <2>5, <2>7, <2>9, <4>1, <4>2 DEF RepairLog
      <4>4. Len(w.entries) >= 2 => w.entries[2].prior \in ServiceState
        BY <1>7, <2>2, <2>5, <2>7, <2>9, <4>1 DEF RepairLog
      <4>. QED  BY <2>8, <4>1, <4>3, <4>4 DEF RepairLog
    <3>. QED  BY <2>2, <2>8, <3>4, <3>5, <3>6 DEF LogOK
  <2>11. Data(w, receipt, runtime, identity, journal, server, host)
    <3>1. Journal(w, journal, identity)
      BY <2>2, <2>8 DEF NodeInv, Data, Journal
    <3>. QED  BY <2>2, <2>8, <2>10, <3>1, LogChanged DEF NodeInv
  <2>12. cmd' \in Command /\ cmd'.pc = "apply" /\ cmd'.op = cmd.op /\ cmd'.own = cmd.own /\ cmd'.i = cmd.i
    BY <1>1, <1>7, Moves, Places
  <2>13. Position(cmd', w, receipt, runtime, identity, journal, server, host)
    <3>1. OwnLog(cmd', w)
      <4>1. w.stage < 3 /\ w.terminal = 0 /\ ~w.residue /\ w # None
            /\ w.life = IF cmd.op = "enroll" THEN "install" ELSE "repair"
        BY <2>2, <2>8
      <4>. QED  BY <1>7, <2>9, <2>12, <4>1 DEF OwnLog
    <3>2. OpOK(cmd')
      BY <2>1, <2>12 DEF OpOK, Forward7, Back, Cleanup
    <3>3. GoingForward(cmd', w, receipt, host) /\ GoingBack(cmd', w)
      BY <2>1, <2>12, <3>1 DEF GoingForward, GoingBack, Forward7, Back
    <3>4. Elsewhere(cmd', w, receipt, runtime, journal, identity, server)
      BY <1>2, <2>1, <2>12 DEF Elsewhere, Lifecycles, NewEnroll, Forward7, Back, Cleanup
    <3>. QED  BY <3>2, <3>3, <3>4 DEF Position
  <2>14. wal' = w /\ host' = host /\ spent' = spent
    BY <1>7, <2>3, <2>6
  <2>. QED  BY <1>1, <2>8, <2>11, <2>12, <2>13, <2>14, LogStep DEF Capture, TypeOK
<1>. QED
  <2>1. cmd.i > Len(Plan) => cmd.i > 3
    BY <1>3
  <2>2. ~(cmd.i > Len(Plan)) => cmd.i \in 1 .. 3
    BY <1>2, <1>3
  <2>. QED  BY <1>4, <1>5, <1>6, <1>7, <2>1, <2>2 DEF Capture, Performs

\* A host on another package or service is as good, as far as the log allows for it.
LEMMA HostChanged ==
    ASSUME NodeInv, wal # None, NEW g \in Host,
           g.original = host.original, g.policy = host.policy, g.bound = host.bound, g.node = host.node,
           g.clustered => host.clustered, host.node = "released" => g.clustered,
           wal.life = "install" =>
              /\ g.package # g.original => Len(wal.entries) >= 1 /\ wal.entries[1].status # "removed"
              /\ g.service # "none" => Len(wal.entries) >= 2 /\ wal.entries[2].status # "removed"
              /\ wal.stage # 4,
           wal.life = "repair" => Managed(g),
           wal.life = "uninstall" =>
              /\ wal.entries[1].status = "removed" /\ ~wal.kept => g.package = g.original
              /\ wal.entries[2].status = "removed" => g.service = "none"
    PROVE  Data(wal, receipt, runtime, identity, journal, server, g)
<1>1. ASSUME NEW es PROVE LeadsBack(es, host) <=> LeadsBack(es, g)
  BY DEF LeadsBack
<1>2. ASSUME NEW es PROVE Complete3(es, host) <=> Complete3(es, g)
  BY <1>1 DEF Complete3
<1>3. ReceiptOK(receipt, g)
  BY <1>2 DEF NodeInv, Data, ReceiptOK
<1>4. LogOK(wal, host, receipt, server, identity) /\ wal \in Log
  BY DEF NodeInv, Data, TypeOK
<1>5. AnyLog(wal, g, identity)
  BY <1>4 DEF LogOK, AnyLog
<1>6. wal.life = "install" => InstallLog(wal, g, receipt, server) /\ ~IsActive(receipt)
  BY <1>1, <1>4 DEF LogOK, InstallLog
<1>7. wal.life = "repair" => RepairLog(wal, g, receipt)
  BY <1>2, <1>4 DEF LogOK, RepairLog
<1>8. wal.life = "uninstall" => UninstallLog(wal, g)
  BY <1>1, <1>4 DEF LogOK, UninstallLog
<1>9. NoLogOK(wal, g, receipt)
  BY DEF NoLogOK
<1>10. PackageOK(wal, g, receipt)
  BY <1>4, <1>6 DEF PackageOK, Log
<1>11. Working(g, receipt, runtime, server)
  BY DEF NodeInv, Data, Working
<1>. QED  BY <1>3, <1>5, <1>6, <1>7, <1>8, <1>9, <1>10, <1>11 DEF NodeInv, Data, LogOK

LEMMA ApplyStep ==
    ASSUME NodeInv, Apply
    PROVE  NodeInv'
<1>1. cmd.pc = "apply" /\ TypeOK /\ OpOK(cmd) /\ cmd \in Command /\ host \in Host /\ cmd.own
  BY DEF Apply, At, NodeInv, TypeOK, Position, OpOK
<1>2. OwnLog(cmd, wal) /\ cmd.op \in {"enroll", "repair"}
  BY <1>1 DEF NodeInv, Position, GoingForward, OpOK
<1>3. /\ identity /\ runtime # None
      /\ cmd.op = "enroll" => server.state \in {"installing", "verifying"}
  BY <1>1 DEF NodeInv, Position, Elsewhere, Lifecycles, NewEnroll
<1>4. /\ wal # None /\ wal \in Log /\ wal.life = IF cmd.op = "enroll" THEN "install" ELSE "repair"
      /\ wal.terminal = 0 /\ ~wal.residue /\ wal.stage < 3
      /\ cmd.i \in 1 .. 3 /\ Len(wal.entries) = cmd.i
      /\ \A k \in 1 .. cmd.i : wal.entries[k].status = IF k = cmd.i THEN "pending" ELSE "applied"
  BY <1>1, <1>2 DEF OwnLog, TypeOK
<1>5. DOMAIN wal.entries = 1 .. cmd.i
  <2>1. wal.entries \in Entries
    BY <1>4 DEF Log
  <2>. QED  BY <1>4, <2>1, EntriesLength
<1>6. PICK m : m = Plan[cmd.i]
  OBVIOUS
<1>7. (cmd.i = 1 /\ m = "package") \/ (cmd.i = 2 /\ m = "service") \/ (cmd.i = 3 /\ m = "taint")
  BY <1>4, <1>6 DEF Plan
<1>8. PICK g : g = Applied(host, m)
  OBVIOUS
<1>9. g \in Host /\ Data(wal, receipt, runtime, identity, journal, server, g)
  <2>1. /\ g \in Host /\ g.original = host.original /\ g.policy = host.policy /\ g.bound = host.bound
        /\ g.node = host.node /\ g.clustered = host.clustered
        /\ g.package = IF cmd.i = 1 THEN "signed" ELSE host.package
        /\ cmd.i # 2 => g.service = host.service
    BY <1>1, <1>7, <1>8 DEF Applied, Host
  <2>2. ASSUME wal.life = "install"
        PROVE  /\ g.package # g.original => Len(wal.entries) >= 1 /\ wal.entries[1].status # "removed"
               /\ g.service # "none" => Len(wal.entries) >= 2 /\ wal.entries[2].status # "removed"
               /\ wal.stage # 4
    <3>1. InstallLog(wal, host, receipt, server)
      BY <1>4, <2>2 DEF NodeInv, Data, LogOK
    <3>2. Len(wal.entries) >= 1 /\ wal.entries[1].status # "removed"
      BY <1>4
    <3>3. g.service # "none" => Len(wal.entries) >= 2 /\ wal.entries[2].status # "removed"
      <4>1. CASE cmd.i = 2
        BY <1>4, <4>1
      <4>2. CASE cmd.i # 2
        BY <2>1, <3>1, <4>2 DEF InstallLog
      <4>. QED  BY <4>1, <4>2
    <3>4. wal.stage # 4
      BY <1>4 DEF Log
    <3>. QED  BY <3>2, <3>3, <3>4
  <2>3. wal.life = "repair" => Managed(g)
    BY <1>4, <2>1 DEF NodeInv, Data, LogOK, RepairLog, PackageOK, Managed
  <2>4. wal.life # "uninstall"
    BY <1>2, <1>4
  <2>5. host.node = "released" => host.clustered
    BY DEF NodeInv, Data, Working
  <2>. QED  BY <1>4, <2>1, <2>2, <2>3, <2>4, <2>5, HostChanged
<1>10. CASE Breaks("apply", ApplyOK(host, m), {g}, failAndRollback) /\ UNCHANGED wal
  <2>1. /\ cmd' \in {failAndRollback, Idle} /\ host' \in {host, g} /\ spent' \in [commands : Nat, faults : Nat]
    BY <1>1, <1>10, Broken
  <2>2. \A h : /\ failAndRollback \in Command /\ Idle \in Command
               /\ Position(failAndRollback, wal, receipt, runtime, identity, journal, server, h)
               /\ Position(Idle, wal, receipt, runtime, identity, journal, server, h)
    <3>1. cmd.pc \in Forward7 \cup {"apply"} /\ wal \in Log \cup {None} /\ (cmd.own => OwnLog(cmd, wal))
      BY <1>1, <1>2, <1>4
    <3>. QED  BY <1>3, <3>1, FailsBack
  <2>3. PICK h : h = host'
    OBVIOUS
  <2>4. h \in Host /\ Data(wal, receipt, runtime, identity, journal, server, h)
    BY <1>1, <1>9, <2>1, <2>3 DEF NodeInv
  <2>5. cmd' \in Command /\ Position(cmd', wal, receipt, runtime, identity, journal, server, h)
    BY <2>1, <2>2
  <2>6. wal' = wal /\ wal \in Log \cup {None}
    BY <1>4, <1>10
  <2>. QED  BY <2>1, <2>3, <2>4, <2>5, <2>6, LogAndHostStep DEF Apply
<1>11. CASE /\ host' = g /\ UNCHANGED spent
            /\ wal' = Marked(wal, cmd.i, "applied") /\ cmd' = Loop("capture", cmd.i + 1)
  <2>1. PICK w : w = Marked(wal, cmd.i, "applied")
    OBVIOUS
  <2>2. cmd.i \in DOMAIN wal.entries /\ "applied" \in Status
    BY <1>4, <1>5 DEF Status
  <2>3. /\ w \in Log /\ w # None
        /\ w.life = wal.life /\ w.stage = wal.stage /\ w.verifying = wal.verifying /\ w.left = wal.left
        /\ w.kept = wal.kept /\ w.cleanup = wal.cleanup
        /\ w.terminal = wal.terminal /\ w.original = wal.original
        /\ ~w.residue
        /\ Len(w.entries) = cmd.i /\ DOMAIN w.entries = 1 .. cmd.i
        /\ \A n \in 1 .. cmd.i : w.entries[n].prior = wal.entries[n].prior /\ w.entries[n].status = "applied"
    <3>1. /\ w \in Log /\ w # None
          /\ w.life = wal.life /\ w.stage = wal.stage /\ w.verifying = wal.verifying /\ w.left = wal.left
          /\ w.kept = wal.kept /\ w.cleanup = wal.cleanup
          /\ w.terminal = wal.terminal /\ w.original = wal.original
          /\ w.residue <=> wal.residue \/ "applied" = "residue"
          /\ Len(w.entries) = Len(wal.entries) /\ DOMAIN w.entries = DOMAIN wal.entries
          /\ w.entries[cmd.i].status = "applied"
          /\ \A n \in DOMAIN wal.entries : /\ w.entries[n].prior = wal.entries[n].prior
                                           /\ n # cmd.i => w.entries[n] = wal.entries[n]
      BY <1>4, <2>1, <2>2, MarkedLog
    <3>. QED  BY <1>4, <1>5, <3>1
  <2>4. LogOK(w, g, receipt, server, identity)
    <3>1. LogOK(wal, g, receipt, server, identity)
      BY <1>9 DEF Data
    <3>2. AnyLog(w, g, identity)
      BY <1>4, <2>3, <3>1 DEF LogOK, AnyLog
    <3>3. wal.life = "install" => InstallLog(w, g, receipt, server)
      <4>1. LeadsBack(wal.entries, g) => LeadsBack(w.entries, g)
        BY <1>4, <2>3 DEF LeadsBack
      <4>2. /\ Len(w.entries) >= 1 => w.entries[1].status = "applied"
            /\ Len(w.entries) >= 2 => w.entries[2].status = "applied"
        BY <1>4, <2>3
      <4>3. wal.stage # 4
        BY <1>4 DEF Log
      <4>. QED  BY <1>4, <2>3, <3>1, <4>1, <4>2, <4>3 DEF LogOK, InstallLog
    <3>4. wal.life = "repair" => RepairLog(w, g, receipt)
      <4>1. /\ Len(w.entries) >= 1 => w.entries[1].prior = wal.entries[1].prior
            /\ Len(w.entries) >= 2 => w.entries[2].prior = wal.entries[2].prior
        BY <1>4, <2>3
      <4>. QED  BY <1>4, <2>3, <3>1, <4>1 DEF LogOK, RepairLog
    <3>. QED  BY <1>2, <1>4, <2>3, <3>2, <3>3, <3>4 DEF LogOK
  <2>5. Data(w, receipt, runtime, identity, journal, server, g)
    <3>1. Journal(w, journal, identity)
      BY <1>4, <2>3 DEF NodeInv, Data, Journal
    <3>. QED  BY <1>4, <1>9, <2>3, <2>4, <3>1, LogChanged
  <2>6. cmd' \in Command /\ cmd'.pc = "capture" /\ cmd'.op = cmd.op /\ cmd'.own = cmd.own /\ cmd'.i = cmd.i + 1
    <3>1. "capture" \in PC /\ cmd.i + 1 \in 0 .. 4
      BY <1>4 DEF PC
    <3>. QED  BY <1>1, <1>11, <3>1, Moves
  <2>7. Position(cmd', w, receipt, runtime, identity, journal, server, g)
    <3>1. OwnLog(cmd', w)
      <4>1. cmd'.i \in 1 .. 4 /\ Len(w.entries) = cmd'.i - 1 /\ AllApplied(w.entries)
        BY <1>4, <2>3, <2>6 DEF AllApplied
      <4>. QED  BY <1>4, <2>3, <2>6, <4>1 DEF OwnLog, Forward7
    <3>2. OpOK(cmd')
      BY <1>1, <1>2, <2>6 DEF OpOK, Forward7, Back, Cleanup
    <3>3. GoingForward(cmd', w, receipt, g) /\ GoingBack(cmd', w)
      BY <1>1, <2>6, <3>1 DEF GoingForward, GoingBack, Forward7, Back
    <3>4. Elsewhere(cmd', w, receipt, runtime, journal, identity, server)
      BY <1>2, <1>3, <2>6 DEF Elsewhere, Lifecycles, NewEnroll, Forward7, Back, Cleanup
    <3>. QED  BY <3>2, <3>3, <3>4 DEF Position
  <2>8. spent' \in [commands : Nat, faults : Nat] /\ wal' = w /\ w \in Log \cup {None} /\ host' = g
    BY <1>1, <1>11, <2>1, <2>3 DEF TypeOK
  <2>. QED  BY <1>9, <2>5, <2>6, <2>7, <2>8, LogAndHostStep DEF Apply
<1>. QED
  BY <1>6, <1>8, <1>10, <1>11 DEF Apply, Performs

-----------------------------------------------------------------------------
(* Undoing. *)

\* The mutation that a rollback has come to.
LEMMA Undoing ==
    ASSUME NodeInv, At("undo"), cmd.i > 0, ~MustLeave(cmd.i)
    PROVE  /\ cmd.pc \in Back /\ TypeOK /\ OpOK(cmd) /\ cmd \in Command /\ host \in Host
           /\ wal # None /\ wal \in Log /\ wal.stage = 3 /\ GoingBack(cmd, wal) /\ ~journal
           /\ LogOK(wal, host, receipt, server, identity)
           /\ cmd.i \in 1 .. 3 /\ cmd.i \in DOMAIN wal.entries /\ cmd.i <= Len(wal.entries)
           /\ Len(wal.entries) \in 0 .. 3 /\ DOMAIN wal.entries = 1 .. Len(wal.entries)
           /\ cmd.i = 1 /\ wal.life = "uninstall" => wal.left
           /\ Plan[1] = "package" /\ Plan[2] = "service" /\ Plan[3] = "taint"
<1>1. cmd.pc = "undo" /\ cmd.pc \in Back /\ Plan[1] = "package" /\ Plan[2] = "service" /\ Plan[3] = "taint"
  BY DEF At, Back, Plan
<1>2. /\ TypeOK /\ OpOK(cmd) /\ wal # None /\ wal \in Log /\ GoingBack(cmd, wal) /\ ~journal
      /\ cmd \in Command /\ host \in Host /\ LogOK(wal, host, receipt, server, identity)
  BY <1>1, IsBack DEF TypeOK
<1>3. wal.stage = 3 /\ cmd.i \in 0 .. Len(wal.entries)
  BY <1>1, <1>2 DEF GoingBack
<1>4. Len(wal.entries) \in 0 .. 3 /\ DOMAIN wal.entries = 1 .. Len(wal.entries)
  <2>1. wal.entries \in Entries
    BY <1>2 DEF Log
  <2>. QED  BY <2>1, EntriesLength
<1>5. cmd.i \in 1 .. 3 /\ cmd.i \in DOMAIN wal.entries /\ cmd.i <= Len(wal.entries)
  <2>1. PICK n \in 0 .. 3 : n = Len(wal.entries)
    BY <1>4
  <2>2. PICK i \in 0 .. n : i = cmd.i
    BY <1>3, <2>1
  <2>3. i # 0
    BY <2>2
  <2>4. i \in 1 .. 3 /\ i \in 1 .. n /\ i <= n
    BY <2>3
  <2>. QED  BY <1>4, <2>1, <2>2, <2>4
<1>6. cmd.i = 1 /\ wal.life = "uninstall" => wal.left
  BY <1>1 DEF MustLeave
<1>. QED  BY <1>1, <1>2, <1>3, <1>4, <1>5, <1>6

\* The next one is before it.
LEMMA UndoneOne ==
    ASSUME NodeInv, At("undo"), cmd.i > 0, ~MustLeave(cmd.i),
           NEW w, w # None, w.life = wal.life, w.stage = wal.stage, w.terminal = wal.terminal,
           w.left = wal.left, Len(w.entries) = Len(wal.entries), DOMAIN w.entries = DOMAIN wal.entries,
           \A n \in DOMAIN wal.entries : n # cmd.i => w.entries[n] = wal.entries[n],
           w.entries[cmd.i].status \in {"removed", "residue"}, NEW h
    PROVE  /\ Loop("undo", cmd.i - 1) \in Command /\ Loop("undo", cmd.i - 1) # Idle
           /\ Position(Loop("undo", cmd.i - 1), w, receipt, runtime, identity, journal, server, h)
<1>1. /\ cmd.pc = "undo" /\ cmd.pc \in Back /\ TypeOK /\ wal.stage = 3 /\ GoingBack(cmd, wal)
      /\ cmd.i \in 1 .. 3 /\ cmd.i <= Len(wal.entries)
      /\ Len(wal.entries) \in 0 .. 3 /\ DOMAIN wal.entries = 1 .. Len(wal.entries)
      /\ cmd.i = 1 /\ wal.life = "uninstall" => wal.left
  BY Undoing DEF At
<1>2. PICK c : c = Loop("undo", cmd.i - 1)
  OBVIOUS
<1>3. /\ c \in Command /\ c.pc = "undo" /\ c.i = cmd.i - 1
      /\ c.op = cmd.op /\ c.own = cmd.own /\ c.joined = cmd.joined
  <2>1. "undo" \in PC /\ cmd.i - 1 \in 0 .. 4
    BY <1>1 DEF PC
  <2>. QED  BY <1>1, <1>2, <2>1, Moves
<1>4. c.pc \in Back /\ c # Idle
  BY <1>3 DEF Back, Idle
<1>5. GoingBack(c, w)
  <2>1. c.i \in 0 .. Len(w.entries)
    BY <1>1, <1>3
  <2>2. \A n \in DOMAIN w.entries : n > c.i => w.entries[n].status \in {"removed", "residue"}
    <3>1. \A n \in DOMAIN wal.entries : n > cmd.i => wal.entries[n].status \in {"removed", "residue"}
      BY <1>1 DEF GoingBack
    <3>2. \A n \in DOMAIN wal.entries : n > c.i => n = cmd.i \/ (n > cmd.i /\ n # cmd.i)
      BY <1>1, <1>3
    <3>. QED  BY <3>1, <3>2
  <2>3. c.i = 0 /\ w.life = "uninstall" => w.left
    BY <1>1, <1>3
  <2>4. /\ cmd.own => wal.life = (IF cmd.op = "enroll" THEN "install" ELSE "repair") /\ wal.terminal = 0
        /\ cmd.op = "uninstall" => wal.life = "uninstall"
        /\ wal.life = "uninstall" => cmd.joined /\ wal.terminal = 0
    BY <1>1 DEF GoingBack
  <2>5. w.stage <= 3
    BY <1>1
  <2>. QED  BY <1>1, <1>3, <2>1, <2>2, <2>3, <2>4, <2>5 DEF GoingBack
<1>. QED  BY <1>1, <1>2, <1>3, <1>4, <1>5, BackKeeps

\* A mutation may be marked as undone when the host is as it was, or as a residue.
LEMMA MarkedData ==
    ASSUME NodeInv, At("undo"), cmd.i > 0, ~MustLeave(cmd.i), Owed(cmd.i),
           NEW h \in Host, Data(wal, receipt, runtime, identity, journal, server, h),
           NEW status \in {"removed", "residue"},
           status = "removed" /\ wal.life # "repair" =>
              /\ cmd.i = 1 => h.package = h.original
              /\ cmd.i = 2 => h.service = "none",
           NEW w, w = Marked(wal, cmd.i, status)
    PROVE  /\ w \in Log /\ Data(w, receipt, runtime, identity, journal, server, h)
           /\ Loop("undo", cmd.i - 1) \in Command /\ Loop("undo", cmd.i - 1) # Idle
           /\ \A g : Position(Loop("undo", cmd.i - 1), w, receipt, runtime, identity, journal, server, g)
<1>1. /\ wal # None /\ wal \in Log /\ wal.stage = 3 /\ ~journal
      /\ cmd.i \in 1 .. 3 /\ cmd.i \in DOMAIN wal.entries /\ cmd.i <= Len(wal.entries)
      /\ Len(wal.entries) \in 0 .. 3 /\ DOMAIN wal.entries = 1 .. Len(wal.entries)
  BY Undoing
<1>2. /\ w \in Log /\ w # None
      /\ w.life = wal.life /\ w.stage = wal.stage /\ w.verifying = wal.verifying /\ w.left = wal.left
      /\ w.kept = wal.kept /\ w.cleanup = wal.cleanup
      /\ w.terminal = wal.terminal /\ w.original = wal.original
      /\ w.residue <=> wal.residue \/ status = "residue"
      /\ Len(w.entries) = Len(wal.entries) /\ DOMAIN w.entries = DOMAIN wal.entries
      /\ w.entries[cmd.i].status = status
      /\ \A n \in DOMAIN wal.entries : /\ w.entries[n].prior = wal.entries[n].prior
                                       /\ n # cmd.i => w.entries[n] = wal.entries[n]
  <2>1. status \in Status /\ cmd.i \in DOMAIN wal.entries /\ wal \in Log
    BY <1>1 DEF Status
  <2>. QED
    BY <2>1, MarkedLog
<1>3. LogOK(wal, h, receipt, server, identity)
  BY DEF Data
<1>4. wal.entries[cmd.i].status \in {"pending", "applied"}
  BY DEF Owed
<1>5. wal.terminal = 0
  BY <1>1, <1>3, <1>4 DEF LogOK, AnyLog, AllRemoved
<1>6. AnyLog(w, h, identity)
  <2>1. ~AllApplied(w.entries)
    BY <1>1, <1>2 DEF AllApplied
  <2>2. \A n \in DOMAIN w.entries : w.entries[n].status = "residue" => w.residue
    BY <1>1, <1>2, <1>3 DEF LogOK, AnyLog
  <2>. QED  BY <1>1, <1>2, <1>3, <1>5, <2>1, <2>2 DEF LogOK, AnyLog
<1>7. /\ LeadsBack(wal.entries, h) => LeadsBack(w.entries, h)
      /\ Len(wal.entries) >= 1 => 1 \in DOMAIN wal.entries
      /\ Len(wal.entries) >= 2 => 2 \in DOMAIN wal.entries
  <2>1. /\ Len(wal.entries) >= 1 => 1 \in DOMAIN wal.entries
        /\ Len(wal.entries) >= 2 => 2 \in DOMAIN wal.entries
    BY <1>1
  <2>. QED  BY <1>2, <2>1 DEF LeadsBack
<1>8. ASSUME wal.life = "install" PROVE InstallLog(w, h, receipt, server)
  <2>1. InstallLog(wal, h, receipt, server)
    BY <1>1, <1>3, <1>8 DEF LogOK
  <2>2. h.package # h.original => Len(w.entries) >= 1 /\ w.entries[1].status # "removed"
    <3>1. CASE cmd.i = 1
      BY <1>2, <1>8, <2>1, <3>1 DEF InstallLog
    <3>2. CASE cmd.i # 1
      BY <1>2, <1>7, <2>1, <3>2 DEF InstallLog
    <3>. QED  BY <3>1, <3>2
  <2>3. h.service # "none" => Len(w.entries) >= 2 /\ w.entries[2].status # "removed"
    <3>1. CASE cmd.i = 2
      BY <1>2, <1>8, <2>1, <3>1 DEF InstallLog
    <3>2. CASE cmd.i # 2
      BY <1>2, <1>7, <2>1, <3>2 DEF InstallLog
    <3>. QED  BY <3>1, <3>2
  <2>4. w.stage # 4
    BY <1>1, <1>2
  <2>. QED  BY <1>1, <1>2, <1>7, <2>1, <2>2, <2>3, <2>4 DEF InstallLog
<1>9. wal.life = "repair" => RepairLog(w, h, receipt)
  BY <1>1, <1>2, <1>3, <1>7 DEF LogOK, RepairLog
<1>10. ASSUME wal.life = "uninstall" PROVE UninstallLog(w, h)
  <2>1. UninstallLog(wal, h)
    BY <1>1, <1>3, <1>10 DEF LogOK
  <2>2. 1 \in DOMAIN wal.entries /\ 2 \in DOMAIN wal.entries
    BY <1>1, <2>1 DEF UninstallLog
  <2>3. CASE cmd.i = 1
    BY <1>2, <1>4, <1>5, <1>7, <1>10, <2>1, <2>2, <2>3 DEF UninstallLog
  <2>4. CASE cmd.i # 1
    <3>1. w.entries[1] = wal.entries[1]
      BY <1>2, <2>2, <2>4
    <3>2. w.entries[2].status = "removed" => h.service = "none"
      BY <1>2, <1>10, <2>1, <2>2 DEF UninstallLog
    <3>. QED  BY <1>2, <1>5, <1>7, <2>1, <3>1, <3>2 DEF UninstallLog
  <2>. QED  BY <2>3, <2>4
<1>11. Data(w, receipt, runtime, identity, journal, server, h)
  <2>1. LogOK(w, h, receipt, server, identity)
    BY <1>2, <1>6, <1>8, <1>9, <1>10 DEF LogOK
  <2>2. Journal(w, journal, identity)
    BY <1>1, <1>2, <1>3, <1>5 DEF Journal, LogOK, AnyLog
  <2>. QED  BY <1>1, <1>2, <2>1, <2>2, LogChanged
<1>. QED  BY <1>2, <1>11, UndoneOne

\* Putting the captured state back, which is what was there before enrollment
\* unless a repair captured it.
LEMMA RolledBackHost ==
    ASSUME NodeInv, At("undo"), cmd.i > 0, ~MustLeave(cmd.i), Owed(cmd.i),
           NEW h, h = RolledBack(host, Plan[cmd.i], wal.entries[cmd.i].prior)
    PROVE  /\ h \in Host /\ Data(wal, receipt, runtime, identity, journal, server, h)
           /\ wal.life # "repair" => /\ cmd.i = 1 => h.package = h.original
                                     /\ cmd.i = 2 => h.service = "none"
<1>1. /\ host \in Host /\ wal # None /\ wal \in Log /\ wal.stage = 3
      /\ cmd.i \in 1 .. 3 /\ cmd.i <= Len(wal.entries) /\ Len(wal.entries) \in 0 .. 3
      /\ cmd.i = 1 /\ wal.life = "uninstall" => wal.left
      /\ LogOK(wal, host, receipt, server, identity)
      /\ Plan[1] = "package" /\ Plan[2] = "service" /\ Plan[3] = "taint"
  BY Undoing
<1>2. /\ wal.life \in {"install", "repair", "uninstall"}
      /\ wal.life = "install" => InstallLog(wal, host, receipt, server) /\ wal.stage # 4
      /\ wal.life = "repair" => RepairLog(wal, host, receipt) /\ Managed(host)
      /\ wal.life = "uninstall" => UninstallLog(wal, host)
  BY <1>1 DEF LogOK, Log, NodeInv, Data, PackageOK, RepairLog
<1>3. wal.entries[cmd.i].status # "removed"
  BY DEF Owed
<1>4. host.node = "released" => host.clustered /\ server.state = "active"
  BY DEF NodeInv, Data, Working
<1>5. CASE cmd.i = 1
  <2>1. PICK p : p = wal.entries[1].prior
    OBVIOUS
  <2>2. /\ wal.life # "repair" => p = host.original
        /\ wal.life = "repair" => p \in {"signed", "other"}
    <3>1. Len(wal.entries) >= 1
      BY <1>1, <1>5
    <3>. QED  BY <1>2, <2>1, <3>1 DEF InstallLog, RepairLog, UninstallLog, LeadsBack
  <2>3. p \in {"none", "prior", "signed", "other"}
    BY <1>1, <2>2 DEF Host
  <2>4. PICK a : a = [host EXCEPT !.package = p]
    OBVIOUS
  <2>5. /\ a \in Host /\ a.package = p /\ a.original = host.original /\ a.service = host.service
        /\ a.policy = host.policy /\ a.bound = host.bound /\ a.node = host.node
        /\ a.clustered = host.clustered
    BY <1>1, <2>3, <2>4 DEF Host
  <2>6. PICK x \in BOOLEAN : x <=> (host.clustered /\ p # "none")
    OBVIOUS
  <2>7. h = [a EXCEPT !.clustered = x]
    <3>1. host.clustered \in BOOLEAN
      BY <1>1 DEF Host
    <3>2. (host.clustered /\ p # "none") = x
      BY <2>6, <3>1
    <3>3. h = RestorePackage(host, p)
      BY <1>1, <1>5, <2>1 DEF RolledBack
    <3>. QED  BY <2>4, <3>2, <3>3 DEF RestorePackage
  <2>8. /\ h \in Host /\ h.package = p /\ h.original = host.original /\ h.service = host.service
        /\ h.policy = host.policy /\ h.bound = host.bound /\ h.node = host.node
        /\ h.clustered <=> host.clustered /\ p # "none"
    BY <2>5, <2>6, <2>7 DEF Host
  <2>9. host.node = "released" => wal.life = "repair"
    BY <1>1, <1>2, <1>4, <1>5 DEF InstallLog, UninstallLog
  <2>10. host.node = "released" => h.clustered
    BY <1>4, <2>2, <2>8, <2>9
  <2>11. Data(wal, receipt, runtime, identity, journal, server, h)
    <3>1. wal.life = "install" =>
             /\ h.package # h.original => Len(wal.entries) >= 1 /\ wal.entries[1].status # "removed"
             /\ h.service # "none" => Len(wal.entries) >= 2 /\ wal.entries[2].status # "removed"
             /\ wal.stage # 4
      BY <1>2, <2>2, <2>8 DEF InstallLog
    <3>2. wal.life = "repair" => Managed(h)
      BY <2>2, <2>8 DEF Managed
    <3>3. wal.life = "uninstall" =>
             /\ wal.entries[1].status = "removed" /\ ~wal.kept => h.package = h.original
             /\ wal.entries[2].status = "removed" => h.service = "none"
      BY <1>2, <2>2, <2>8 DEF UninstallLog
    <3>. QED  BY <1>1, <2>8, <2>10, <3>1, <3>2, <3>3, HostChanged
  <2>. QED  BY <1>5, <2>2, <2>8, <2>11
<1>6. CASE cmd.i = 2
  <2>1. PICK p : p = wal.entries[2].prior
    OBVIOUS
  <2>2. p \in ServiceState /\ (wal.life # "repair" => p = "none")
    <3>1. Len(wal.entries) >= 2
      BY <1>1, <1>6
    <3>. QED  BY <1>2, <2>1, <3>1 DEF InstallLog, RepairLog, UninstallLog, LeadsBack, ServiceState
  <2>3. h = [host EXCEPT !.service = p]
    BY <1>1, <1>6, <2>1 DEF RolledBack, restoreServicePrior
  <2>4. /\ h \in Host /\ h.service = p /\ h.original = host.original /\ h.package = host.package
        /\ h.policy = host.policy /\ h.bound = host.bound /\ h.node = host.node
        /\ h.clustered = host.clustered
    BY <1>1, <2>2, <2>3 DEF Host, ServiceState
  <2>5. Data(wal, receipt, runtime, identity, journal, server, h)
    <3>1. wal.life = "install" =>
             /\ h.package # h.original => Len(wal.entries) >= 1 /\ wal.entries[1].status # "removed"
             /\ h.service # "none" => Len(wal.entries) >= 2 /\ wal.entries[2].status # "removed"
             /\ wal.stage # 4
      BY <1>2, <2>2, <2>4 DEF InstallLog
    <3>2. wal.life = "repair" => Managed(h)
      BY <1>2, <2>4 DEF Managed
    <3>3. wal.life = "uninstall" =>
             /\ wal.entries[1].status = "removed" /\ ~wal.kept => h.package = h.original
             /\ wal.entries[2].status = "removed" => h.service = "none"
      BY <1>2, <2>2, <2>4 DEF UninstallLog
    <3>. QED  BY <1>1, <1>4, <2>4, <3>1, <3>2, <3>3, HostChanged
  <2>. QED  BY <1>6, <2>2, <2>4, <2>5
<1>7. CASE cmd.i = 3
  <2>1. h = requarantineReleasedNode(host)
    BY <1>1, <1>7 DEF RolledBack
  <2>2. Eases(host, h)
    BY <1>1, <2>1, HostOperations
  <2>. QED  BY <1>1, <1>7, <2>2, EasedHost DEF NodeInv, Eases
<1>. QED  BY <1>1, <1>5, <1>6, <1>7

LEMMA RollbackMutationStep ==
    ASSUME NodeInv, RollbackMutation
    PROVE  NodeInv'
<1>1. At("undo") /\ cmd.i > 0 /\ ~MustLeave(cmd.i)
  BY DEF RollbackMutation
<1>2. /\ cmd.pc \in Back /\ TypeOK /\ OpOK(cmd) /\ host \in Host /\ wal # None /\ wal \in Log
      /\ cmd.i \in 1 .. 3 /\ cmd.i \in DOMAIN wal.entries
  BY <1>1, Undoing
<1>3. PICK next : next = Loop("undo", cmd.i - 1)
  OBVIOUS
<1>4. PICK p : p = wal.entries[cmd.i].prior
  OBVIOUS
<1>5. CASE ~Owed(cmd.i)
  <2>1. wal.entries[cmd.i].status \in {"removed", "residue"}
    <3>1. wal.entries \in Seq(Entry)
      <4>1. wal.entries \in Entries
        BY <1>2 DEF Log
      <4>. QED  BY <4>1, EntriesLength
    <3>2. wal.entries[cmd.i] \in Entry
      BY <1>2, <3>1
    <3>. QED  BY <1>5, <3>2 DEF Owed, Entry, Status
  <2>2. next \in Command /\ Position(next, wal, receipt, runtime, identity, journal, server, host)
    BY <1>1, <1>2, <1>3, <2>1, UndoneOne
  <2>3. cmd' = next /\ UNCHANGED <<host, wal, spent>>
    BY <1>3, <1>5 DEF RollbackMutation
  <2>. QED  BY <1>2, <2>2, <2>3, OnlyCommand DEF RollbackMutation, TypeOK
<1>6. CASE Owed(cmd.i)
  <2>1. PICK after : after = RolledBack(host, Plan[cmd.i], p)
    OBVIOUS
  <2>2. /\ after \in Host /\ Data(wal, receipt, runtime, identity, journal, server, after)
        /\ wal.life # "repair" => /\ cmd.i = 1 => after.package = after.original
                                  /\ cmd.i = 2 => after.service = "none"
    BY <1>1, <1>4, <1>6, <2>1, RolledBackHost
  <2>3. PICK before : before = IF wal.life = "uninstall" /\ Plan[cmd.i] = "taint"
                               THEN rebootstrapNode(host) ELSE host
    OBVIOUS
  <2>4. before \in Host /\ Data(wal, receipt, runtime, identity, journal, server, before)
    <3>1. Eases(host, before)
      BY <1>2, <2>3, HostOperations
    <3>. QED  BY <1>2, <3>1, EasedHost DEF NodeInv, Eases
  <2>5. PICK ok : ok = RollbackOK(host, Plan[cmd.i], p)
    OBVIOUS
  <2>6. CASE Performs("rollback", ok, after) /\ wal' = Marked(wal, cmd.i, "removed") /\ cmd' = next
    <3>1. PICK w : w = Marked(wal, cmd.i, "removed")
      OBVIOUS
    <3>2. /\ w \in Log /\ Data(w, receipt, runtime, identity, journal, server, after)
          /\ next \in Command
          /\ Position(next, w, receipt, runtime, identity, journal, server, after)
      BY <1>1, <1>3, <1>6, <2>2, <3>1, MarkedData
    <3>3. host' = after /\ wal' = w /\ cmd' = next /\ spent' \in [commands : Nat, faults : Nat]
          /\ w \in Log \cup {None}
      BY <1>2, <2>6, <3>1, <3>2 DEF Performs, TypeOK
    <3>. QED  BY <2>2, <3>2, <3>3, LogAndHostStep DEF RollbackMutation
  <2>7. CASE /\ Breaks("rollback", ok, {before} \cup (IF ok THEN {after} ELSE {}), next)
             /\ wal' = IF cmd' = Idle THEN wal ELSE Marked(wal, cmd.i, "residue")
    <3>1. PICK h : h = host'
      OBVIOUS
    <3>2. cmd' \in {next, Idle} /\ h \in {host, before, after} /\ spent' \in [commands : Nat, faults : Nat]
      BY <1>2, <2>7, <3>1, Broken
    <3>3. h \in Host /\ Data(wal, receipt, runtime, identity, journal, server, h)
      BY <1>2, <2>2, <2>4, <3>2 DEF NodeInv
    <3>4. CASE cmd' = Idle
      <4>1. cmd' \in Command /\ Position(cmd', wal, receipt, runtime, identity, journal, server, h)
        BY <1>2, <3>4, CommandEnds, EndedAnywhere DEF Ends
      <4>2. wal' = wal /\ wal \in Log \cup {None}
        BY <1>2, <2>7, <3>4
      <4>. QED  BY <3>1, <3>2, <3>3, <4>1, <4>2, LogAndHostStep DEF RollbackMutation
    <3>5. CASE cmd' # Idle
      <4>1. PICK w : w = Marked(wal, cmd.i, "residue")
        OBVIOUS
      <4>2. /\ w \in Log /\ Data(w, receipt, runtime, identity, journal, server, h)
            /\ next \in Command
            /\ Position(next, w, receipt, runtime, identity, journal, server, h)
        BY <1>1, <1>3, <1>6, <3>3, <4>1, MarkedData
      <4>3. wal' = w /\ cmd' = next /\ w \in Log \cup {None}
        BY <2>7, <3>2, <3>5, <4>1, <4>2
      <4>. QED  BY <3>1, <3>2, <3>3, <4>2, <4>3, LogAndHostStep DEF RollbackMutation
    <3>. QED  BY <3>4, <3>5
  <2>. QED  BY <1>3, <1>4, <1>6, <2>1, <2>3, <2>5, <2>6, <2>7 DEF RollbackMutation
<1>. QED  BY <1>5, <1>6

LEMMA AbortIncompleteJoinStep ==
    ASSUME NodeInv, AbortIncompleteJoin
    PROVE  NodeInv'
<1>1. cmd.pc = "undo" /\ cmd.pc \in Back /\ cmd.i = 0
  BY DEF AbortIncompleteJoin, At, Back
<1>2. /\ TypeOK /\ OpOK(cmd) /\ wal # None /\ wal \in Log /\ GoingBack(cmd, wal) /\ ~journal
      /\ host \in Host /\ LogOK(wal, host, receipt, server, identity)
  BY <1>1, IsBack DEF TypeOK
<1>3. wal.stage = 3 /\ NoneOwed(wal.entries)
  <2>1. /\ wal.stage = 3
        /\ \A k \in DOMAIN wal.entries : k > cmd.i => wal.entries[k].status \in {"removed", "residue"}
    BY <1>1, <1>2 DEF GoingBack
  <2>2. \A k \in DOMAIN wal.entries : k > 0
    <3>1. wal.entries \in Entries
      BY <1>2 DEF Log
    <3>2. DOMAIN wal.entries = 1 .. Len(wal.entries) /\ Len(wal.entries) \in 0 .. 3
      BY <3>1, EntriesLength
    <3>. QED  BY <3>2
  <2>. QED  BY <1>1, <2>1, <2>2 DEF NoneOwed
<1>4. PICK next : next = Goto("rolled")
  OBVIOUS
<1>5. next \in Command /\ next.pc = "rolled" /\ next.op = cmd.op /\ next.own = cmd.own
      /\ next.joined = cmd.joined /\ next.pc \in Back /\ next # Idle
  <2>1. "rolled" \in PC
    BY DEF PC
  <2>2. next \in Command /\ next.pc = "rolled" /\ next.op = cmd.op /\ next.own = cmd.own
        /\ next.joined = cmd.joined
    BY <1>2, <1>4, <2>1, Moves
  <2>. QED  BY <2>2 DEF Back, Idle
<1>6. /\ cmd.own => wal.life = (IF cmd.op = "enroll" THEN "install" ELSE "repair") /\ wal.terminal = 0
      /\ cmd.op = "uninstall" => wal.life = "uninstall"
      /\ wal.life = "uninstall" => cmd.joined /\ wal.terminal = 0 /\ wal.left
  BY <1>1, <1>2 DEF GoingBack
<1>7. \A h : Position(next, wal, receipt, runtime, identity, journal, server, h)
  <2>1. GoingBack(next, wal)
    BY <1>2, <1>3, <1>5, <1>6 DEF GoingBack
  <2>. QED  BY <1>1, <1>2, <1>5, <2>1, BackKeeps
<1>8. \A h : Idle \in Command /\ Position(Idle, wal, receipt, runtime, identity, journal, server, h)
  BY <1>2, CommandEnds, EndedAnywhere DEF Ends
<1>9. /\ Eases(host, host) /\ Eases(host, AbortJoin(host)) /\ Eases(host, quarantineJoinedNode(host))
  BY <1>2, HostOperations
<1>10. CASE wal' = wal /\ Eases(host, host') /\ cmd' \in {next, Idle}
  <2>1. spent' \in [commands : Nat, faults : Nat]
    <3>1. Fault \/ UNCHANGED spent
      BY DEF AbortIncompleteJoin, Performs, Breaks, Interrupted
    <3>. QED  BY <1>2, <3>1, Spending
  <2>2. PICK h : h = host'
    OBVIOUS
  <2>3. cmd' \in Command /\ Position(cmd', wal, receipt, runtime, identity, journal, server, h)
    BY <1>5, <1>7, <1>8, <1>10
  <2>4. h \in Host /\ Data(wal, receipt, runtime, identity, journal, server, h)
    BY <1>2, <1>10, <2>2, EasedHost DEF NodeInv, Eases
  <2>. QED  BY <1>2, <1>10, <2>1, <2>2, <2>3, <2>4, LogAndHostStep DEF AbortIncompleteJoin
<1>11. CASE /\ wal.life = "install" /\ wal' = [wal EXCEPT !.residue = TRUE]
            /\ Eases(host, host') /\ cmd' = next
  <2>1. spent' \in [commands : Nat, faults : Nat]
    <3>1. Fault \/ UNCHANGED spent
      BY DEF AbortIncompleteJoin, Performs, Breaks, Interrupted
    <3>. QED  BY <1>2, <3>1, Spending
  <2>2. PICK h : h = host'
    OBVIOUS
  <2>3. h \in Host /\ Data(wal, receipt, runtime, identity, journal, server, h)
    BY <1>2, <1>11, <2>2, EasedHost DEF NodeInv, Eases
  <2>4. PICK w : w = [wal EXCEPT !.residue = TRUE]
    OBVIOUS
  <2>5. /\ w \in Log /\ w.residue /\ w.stage = wal.stage /\ w.verifying = wal.verifying
        /\ w.life = wal.life /\ w.left = wal.left
        /\ w.kept = wal.kept /\ w.cleanup = wal.cleanup
        /\ w.terminal = wal.terminal /\ w.original = wal.original
        /\ w.entries = wal.entries
    BY <1>2, <2>4 DEF Log
  <2>6. LogOK(wal, h, receipt, server, identity)
    BY <2>3 DEF Data
  <2>7. wal.entries # <<>> => ~AllApplied(wal.entries)
    <3>1. wal.entries \in Seq(Entry) /\ DOMAIN wal.entries = 1 .. Len(wal.entries)
      <4>1. wal.entries \in Entries
        BY <1>2 DEF Log
      <4>. QED  BY <4>1, EntriesLength
    <3>2. wal.entries # <<>> => 1 \in DOMAIN wal.entries
      BY <3>1
    <3>. QED  BY <1>3, <3>2 DEF NoneOwed, AllApplied
  <2>8. AnyLog(w, h, identity)
    BY <1>2, <2>5, <2>6, <2>7 DEF LogOK, AnyLog
  <2>9. InstallLog(w, h, receipt, server)
    BY <1>2, <1>11, <2>5, <2>6 DEF LogOK, InstallLog
  <2>10. Data(w, receipt, runtime, identity, journal, server, h)
    <3>1. LogOK(w, h, receipt, server, identity)
      BY <1>11, <2>5, <2>8, <2>9 DEF LogOK
    <3>2. Journal(w, journal, identity)
      BY <1>2, <2>3, <2>5 DEF Data, Journal
    <3>. QED  BY <1>2, <2>3, <2>5, <3>1, <3>2, LogChanged
  <2>11. Position(next, w, receipt, runtime, identity, journal, server, h)
    <3>1. w # None
      BY <2>5, NoneIsNoRecord
    <3>2. GoingBack(next, w)
      BY <1>2, <1>3, <1>5, <1>6, <2>5, <3>1 DEF GoingBack
    <3>. QED  BY <1>1, <1>2, <1>5, <3>1, <3>2, BackKeeps
  <2>12. wal' = w /\ w \in Log \cup {None} /\ cmd' \in Command
    BY <1>5, <1>11, <2>4, <2>5
  <2>. QED  BY <1>11, <2>1, <2>2, <2>3, <2>10, <2>11, <2>12, LogAndHostStep DEF AbortIncompleteJoin
<1>. QED
  <2>1. CASE wal.life # "install"
    BY <1>4, <1>9, <1>10, <2>1 DEF AbortIncompleteJoin
  <2>2. CASE wal.life = "install" /\ cmd.joined
    <3>1. cmd' \in {next, Idle} /\ host' \in {host, quarantineJoinedNode(host)}
      BY <1>2, <1>4, <2>2, Broken DEF AbortIncompleteJoin, Performs
    <3>2. wal' = IF cmd' = Idle THEN wal ELSE [wal EXCEPT !.residue = TRUE]
      BY <2>2 DEF AbortIncompleteJoin
    <3>. QED  BY <1>9, <1>10, <1>11, <2>2, <3>1, <3>2
  <2>3. CASE wal.life = "install" /\ ~cmd.joined
    <3>1. cmd' \in {next, Idle} /\ host' \in {host, AbortJoin(host)}
      BY <1>2, <1>4, <2>3, Broken DEF AbortIncompleteJoin, Performs
    <3>2. wal' = wal \/ (cmd' # Idle /\ wal' = [wal EXCEPT !.residue = TRUE])
      BY <2>3 DEF AbortIncompleteJoin
    <3>. QED  BY <1>9, <1>10, <1>11, <2>3, <3>1, <3>2
  <2>. QED  BY <2>1, <2>2, <2>3

-----------------------------------------------------------------------------
(* The theorems. *)

LEMMA NodeInitial ==
    Init => NodeInv
<1>. SUFFICES ASSUME Init PROVE NodeInv
  OBVIOUS
<1>1. PICK o \in {"none", "prior"} : host = FreshHost(o)
  BY DEF Init
<1>2. /\ host \in Host /\ host.package = host.original /\ host.service = "none"
      /\ host.node = "absent" /\ ~host.policy
  BY <1>1 DEF FreshHost, Host, NodeState
<1>3. /\ wal = None /\ receipt = None /\ runtime = None /\ identity = FALSE /\ journal = FALSE
      /\ server = [state |-> "none", receipt |-> "none"] /\ cmd = Idle
  BY DEF Init
<1>4. Idle \in Command /\ Ends(Idle)
  BY DEF Idle, Command, Op, PC, Ends
<1>5. TypeOK
  <2>1. server \in Server
    BY <1>3 DEF Server
  <2>2. spent \in [commands : Nat, faults : Nat] /\ expired = FALSE
    BY DEF Init
  <2>. QED  BY <1>2, <1>3, <1>4, <2>1, <2>2 DEF TypeOK
<1>6. Data(wal, receipt, runtime, identity, journal, server, host)
  BY <1>2, <1>3
     DEF Data, ReceiptOK, IsActive, IsRemoved, LogOK, NoLogOK, PackageOK, Working, Known, Journal
<1>7. Position(cmd, wal, receipt, runtime, identity, journal, server, host)
  BY <1>3, <1>4, EndedAnywhere
<1>. QED  BY <1>5, <1>6, <1>7 DEF NodeInv

LEMMA NodeStep ==
    NodeInv /\ [Next]_vars => NodeInv'
<1>. SUFFICES ASSUME NodeInv, [Next]_vars PROVE NodeInv'
  OBVIOUS
<1>1. CASE UNCHANGED vars
  BY <1>1 DEF vars, NodeInv, TypeOK
<1>2. CASE \E op \in {"enroll", "recover", "repair", "uninstall"} : Start(op)
  BY <1>2, StartStep
<1>3. CASE Prepare \/ Restore \/ Expire \/ Refresh
  BY <1>3, PrepareStep, RestoreStep, ExpireStep, RefreshStep
<1>4. CASE BeginEnroll \/ ExchangeNodeEnrollment \/ AuthorizeBootstrap \/ SaveNewRuntime \/ BeginInstall
  BY <1>4, BeginEnrollStep, ExchangeStep, AuthorizeBootstrapStep, SaveNewRuntimeStep, BeginInstallStep
<1>5. CASE BeginLifecycle \/ LoadWAL \/ Preflight \/ CreateWAL
  BY <1>5, BeginLifecycleStep, LoadWALStep, PreflightStep, CreateWALStep
<1>6. CASE Capture \/ Apply \/ WorkerCredential \/ EnsureJoined
  BY <1>6, CaptureStep, ApplyStep, WorkerCredentialStep, EnsureJoinedStep
<1>7. CASE Checkpoint \/ Confirm \/ Verify \/ Complete \/ PublishActive \/ RemoveWAL
  BY <1>7, CheckpointStep, ConfirmStep, VerifyStep, CompleteStep, PublishActiveStep, RemoveWALStep
<1>8. CASE BindRuntime \/ ActivateNode \/ RecoverActivatedCapacity \/ ReleaseNodeCapacity \/ FinalizeServiceState
  BY <1>8, BindRuntimeStep, ActivateStep, RecoverActivatedCapacityStep, ReleaseStep, FinalizeStep
<1>9. CASE ReconcileRecovery \/ SettleJoin
  BY <1>9, ReconcileStep, SettleStep
<1>10. CASE BeginRollback \/ LeaveCluster \/ RollbackMutation \/ AbortIncompleteJoin
  BY <1>10, BeginRollbackStep, LeaveClusterStep, RollbackMutationStep, AbortIncompleteJoinStep
<1>11. CASE FinishRepairRollback \/ FinishRollback \/ SignTerminal
  BY <1>11, FinishRepairRollbackStep, FinishRollbackStep, SignTerminalStep
<1>12. CASE CreateCleanup \/ ResumeCleanup \/ RemoveSupport \/ RetireRemovedNode \/ RemoveLocalState
  BY <1>12, CreateCleanupStep, ResumeCleanupStep, RemoveSupportStep, RetireStep, RemoveLocalStateStep
<1>13. CASE PublishTerminal \/ EndCleanup
  BY <1>13, PublishTerminalStep, EndCleanupStep
<1>. QED
  BY <1>1, <1>2, <1>3, <1>4, <1>5, <1>6, <1>7, <1>8, <1>9, <1>10, <1>11, <1>12, <1>13 DEF Next

\* The files, the host and the API's Node fit together in every reachable state,
\* whatever command was broken off where: the inductive invariant of the lifecycle.
THEOREM NodeInvariant == Spec => []NodeInv
<1>1. Init => NodeInv
  BY NodeInitial
<1>2. NodeInv /\ [Next]_vars => NodeInv'
  BY NodeStep
<1>. QED  BY <1>1, <1>2, PTL DEF Spec

\* Whatever the installer changed on the host (package, service) a log entry, a
\* residue or a receipt accounts for, and a host whose receipt says removed runs
\* nothing of the node any more (apply, rollback, publishReceipt and their crashes).
THEOREM ChangesAreOwned == Spec => []EveryChangeIsOwned
<1>1. NodeInv => EveryChangeIsOwned
  <2>. SUFFICES ASSUME NodeInv PROVE EveryChangeIsOwned
    OBVIOUS
  <2>1. host.package # host.original => Accounted(1)
    <3>1. CASE wal = None
      BY <3>1 DEF NodeInv, Data, NoLogOK, Accounted, Plan
    <3>2. CASE wal # None
      BY <3>2 DEF NodeInv, Data, LogOK, InstallLog, Accounted
    <3>. QED  BY <3>1, <3>2
  <2>2. host.service # "none" => Accounted(2)
    <3>1. CASE wal = None
      BY <3>1 DEF NodeInv, Data, NoLogOK, Accounted
    <3>2. CASE wal # None
      BY <3>2 DEF NodeInv, Data, LogOK, InstallLog, Accounted
    <3>. QED  BY <3>1, <3>2
  <2>3. Removed /\ wal = None => ~host.policy /\ host.node # "released"
    BY DEF NodeInv, Data, Working, Removed
  <2>. QED  BY <2>1, <2>2, <2>3 DEF EveryChangeIsOwned
<1>. QED  BY <1>1, NodeInvariant, PTL

\* A Node takes work only while the API has it active and its activation grant is
\* on disk, so every crash leaves capacity that can be traced (Service.Enroll).
THEOREM CapacityIsGranted == Spec => []CapacityNeedsGrant
<1>1. NodeInv => CapacityNeedsGrant
  BY DEF NodeInv, Data, Working, CapacityNeedsGrant
<1>. QED  BY <1>1, NodeInvariant, PTL

\* The identity is forgotten only once the API has retired the Node or refused for
\* good, across every crash of the cleanup (retireRemovedNode, removeLocalNodeState).
THEOREM RetirementComesFirst == Spec => []RetiredBeforeForgotten
<1>1. NodeInv => RetiredBeforeForgotten
  BY DEF NodeInv, Data, Known, RetiredBeforeForgotten
<1>. QED  BY <1>1, NodeInvariant, PTL

-----------------------------------------------------------------------------
(* What a step writes. *)

Authorized ==
    wal # None =>
        /\ wal' # None => \/ validExpiredWALTransition(wal, wal')
                          \/ ~expired /\ SignedAgain(wal, wal')
        /\ receipt' # receipt =>
              IF wal.life = "repair" THEN receipt'.state = "active"
              ELSE terminalReceiptMatchesWAL(receipt', wal)

\* A log that goes on with the same entries.
LEMMA SameEntries ==
    ASSUME NEW v \in Log, NEW w \in Log, w.life = v.life, w.original = v.original, w.kept = v.kept,
           w.entries = v.entries,
           v.terminal # 0 => w.terminal = v.terminal,
           v.terminal = 0 /\ w.terminal # 0 => ~w.residue,
           v.left => w.left, v.residue => w.residue, w.stage >= v.stage,
           w.cleanup >= v.cleanup, v.verifying => w.verifying
    PROVE  validExpiredWALTransition(v, w)
<1>1. v.entries \in Entries
  BY DEF Log
<1>2. Len(v.entries) \in 0 .. 3
  BY <1>1, EntriesLength
<1>3. Len(w.entries) \in {Len(v.entries), Len(v.entries) + 1} /\ ~(Len(w.entries) > Len(v.entries))
  BY <1>2
<1>4. \A k \in DOMAIN v.entries :
         /\ w.entries[k].prior = v.entries[k].prior
         /\ validWALStatusTransition(v.entries[k].status, w.entries[k].status)
  BY DEF validWALStatusTransition
<1>5. monotonicWALCheckpoint(v, w)
  BY DEF monotonicWALCheckpoint
<1>. QED  BY <1>3, <1>4, <1>5 DEF validExpiredWALTransition

LEMMA SameLog ==
    ASSUME NEW v \in Log
    PROVE  validExpiredWALTransition(v, v)
<1>1. v.stage >= v.stage /\ v.cleanup >= v.cleanup
  BY DEF Log
<1>. QED  BY <1>1, SameEntries

LEMMA SilentWrites ==
    ASSUME NodeInv, UNCHANGED <<wal, receipt>>
    PROVE  Authorized
<1>1. wal # None => wal \in Log
  BY DEF NodeInv, TypeOK
<1>. QED  BY <1>1, SameLog DEF Authorized

\* A log whose mutation is marked.
LEMMA MarkedWrites ==
    ASSUME NEW v \in Log, NEW k \in DOMAIN v.entries, NEW status \in {"applied", "removed", "residue"},
           v.terminal = 0, validWALStatusTransition(v.entries[k].status, status)
    PROVE  validExpiredWALTransition(v, Marked(v, k, status))
<1>1. PICK w : w = Marked(v, k, status)
  OBVIOUS
<1>2. /\ w \in Log /\ w # None
      /\ w.life = v.life /\ w.stage = v.stage /\ w.verifying = v.verifying /\ w.left = v.left
      /\ w.kept = v.kept /\ w.cleanup = v.cleanup
      /\ w.terminal = v.terminal /\ w.original = v.original
      /\ w.residue <=> v.residue \/ status = "residue"
      /\ Len(w.entries) = Len(v.entries) /\ DOMAIN w.entries = DOMAIN v.entries
      /\ w.entries[k].status = status
      /\ \A n \in DOMAIN v.entries : /\ w.entries[n].prior = v.entries[n].prior
                                     /\ n # k => w.entries[n] = v.entries[n]
  <2>1. status \in Status
    BY DEF Status
  <2>. QED  BY <1>1, <2>1, MarkedLog
<1>3. Len(v.entries) \in 0 .. 3
  <2>1. v.entries \in Entries
    BY DEF Log
  <2>. QED  BY <2>1, EntriesLength
<1>4. Len(w.entries) \in {Len(v.entries), Len(v.entries) + 1} /\ ~(Len(w.entries) > Len(v.entries))
  BY <1>2, <1>3
<1>5. \A n \in DOMAIN v.entries :
         /\ w.entries[n].prior = v.entries[n].prior
         /\ validWALStatusTransition(v.entries[n].status, w.entries[n].status)
  BY <1>2 DEF validWALStatusTransition
<1>6. w.stage >= v.stage /\ monotonicWALCheckpoint(v, w)
  BY <1>2 DEF monotonicWALCheckpoint, Log
<1>. QED  BY <1>1, <1>2, <1>4, <1>5, <1>6 DEF validExpiredWALTransition

LEMMA CaptureWrites ==
    ASSUME NodeInv, Capture
    PROVE  Authorized
<1>1. cmd.pc = "capture" /\ cmd.pc \in Forward7 /\ OpOK(cmd) /\ host \in Host /\ Len(Plan) = 3
  BY DEF Capture, At, Forward7, NodeInv, TypeOK, Position, Plan
<1>2. /\ IF cmd.own THEN OwnLog(cmd, wal) ELSE OthersLog(cmd, wal, receipt)
      /\ cmd.i \in 1 .. 4
  BY <1>1, IsForward
<1>3. CASE UNCHANGED wal
  BY <1>3, SilentWrites DEF Capture
<1>4. CASE wal' # wal
  <2>1. PICK m : m = Plan[cmd.i]
    OBVIOUS
  <2>2. wal' = Journaled(wal, m) /\ cmd.i \in 1 .. 3
    BY <1>1, <1>2, <1>4, <2>1 DEF Capture
  <2>3. OwnLog(cmd, wal)
    BY <1>2, <2>2 DEF OthersLog
  <2>4. /\ wal # None /\ wal \in Log /\ wal.terminal = 0 /\ wal.stage < 3
        /\ Len(wal.entries) = cmd.i - 1
    BY <1>1, <2>3 DEF OwnLog, Forward7, NodeInv, TypeOK
  <2>5. Captured(host, m) \in PackageState \cup ServiceState \cup NodeState
    BY <1>1 DEF Captured, Host, PackageState, ServiceState
  <2>6. wal.entries \in Seq(Entry) /\ Len(wal.entries) \in 0 .. 2 /\ DOMAIN wal.entries = 1 .. Len(wal.entries)
    <3>1. wal.entries \in Entries
      BY <2>4 DEF Log
    <3>. QED  BY <2>2, <2>4, <3>1, EntriesLength
  <2>7. PICK w : w = Journaled(wal, m)
    OBVIOUS
  <2>8. /\ w \in Log /\ w # None
        /\ w.life = wal.life /\ w.verifying = wal.verifying /\ w.left = wal.left
        /\ w.residue = wal.residue /\ w.kept = wal.kept /\ w.cleanup = wal.cleanup
        /\ w.terminal = wal.terminal /\ w.original = wal.original
        /\ w.stage = IF wal.life = "install" THEN 2 ELSE wal.stage
        /\ Len(w.entries) = Len(wal.entries) + 1
        /\ \A k \in 1 .. Len(wal.entries) : w.entries[k] = wal.entries[k]
        /\ w.entries[Len(wal.entries) + 1].status = "pending"
    <3>1. Len(wal.entries) < 3
      BY <2>2, <2>4
    <3>. QED  BY <2>4, <2>5, <2>7, <3>1, JournaledLog
  <2>9. w.stage >= wal.stage /\ monotonicWALCheckpoint(wal, w)
    BY <2>4, <2>8 DEF monotonicWALCheckpoint, Log
  <2>10. /\ \A k \in DOMAIN wal.entries :
               /\ w.entries[k].prior = wal.entries[k].prior
               /\ validWALStatusTransition(wal.entries[k].status, w.entries[k].status)
         /\ w.entries[Len(w.entries)].status = "pending"
         /\ Len(w.entries) \in {Len(wal.entries), Len(wal.entries) + 1}
    BY <2>6, <2>8 DEF validWALStatusTransition
  <2>11. validExpiredWALTransition(wal, w)
    BY <2>4, <2>8, <2>9, <2>10 DEF validExpiredWALTransition
  <2>. QED  BY <2>2, <2>7, <2>11 DEF Authorized, Capture
<1>. QED  BY <1>3, <1>4

LEMMA ApplyWrites ==
    ASSUME NodeInv, Apply
    PROVE  Authorized
<1>1. cmd.pc = "apply" /\ cmd.own
  BY DEF Apply, At, NodeInv, Position, OpOK
<1>2. OwnLog(cmd, wal)
  BY <1>1 DEF NodeInv, Position, GoingForward
<1>3. /\ wal # None /\ wal \in Log /\ wal.terminal = 0 /\ cmd.i \in 1 .. 3 /\ Len(wal.entries) = cmd.i
      /\ wal.entries[cmd.i].status = "pending"
  BY <1>1, <1>2 DEF OwnLog, NodeInv, TypeOK
<1>4. cmd.i \in DOMAIN wal.entries
  <2>1. wal.entries \in Entries
    BY <1>3 DEF Log
  <2>. QED  BY <1>3, <2>1, EntriesLength
<1>5. validExpiredWALTransition(wal, Marked(wal, cmd.i, "applied"))
  BY <1>3, <1>4, MarkedWrites DEF validWALStatusTransition
<1>. QED  BY <1>5, SilentWrites DEF Apply, Authorized

LEMMA CheckpointWrites ==
    ASSUME NodeInv, Checkpoint
    PROVE  Authorized
<1>1. CASE UNCHANGED wal
  BY <1>1, SilentWrites DEF Checkpoint
<1>2. CASE wal' # wal
  <2>1. PICK w : w = [wal EXCEPT !.verifying = TRUE]
    OBVIOUS
  <2>2. wal' = w /\ UNCHANGED receipt
    BY <1>2, <2>1 DEF Checkpoint
  <2>3. ASSUME wal # None PROVE validExpiredWALTransition(wal, w)
    <3>1. wal \in Log
      BY <2>3 DEF NodeInv, TypeOK
    <3>2. /\ w \in Log /\ w.life = wal.life /\ w.stage = wal.stage /\ w.left = wal.left
          /\ w.residue = wal.residue /\ w.kept = wal.kept /\ w.cleanup = wal.cleanup
          /\ w.terminal = wal.terminal /\ w.original = wal.original /\ w.entries = wal.entries
          /\ w.verifying
      BY <2>1, <3>1 DEF Log
    <3>3. w.stage >= wal.stage /\ w.cleanup >= wal.cleanup
      BY <3>1, <3>2 DEF Log
    <3>. QED  BY <3>1, <3>2, <3>3, SameEntries
  <2>. QED  BY <2>2, <2>3 DEF Authorized
<1>. QED  BY <1>1, <1>2

LEMMA CompleteWrites ==
    ASSUME NodeInv, Complete
    PROVE  Authorized
<1>1. CASE UNCHANGED wal
  BY <1>1, SilentWrites DEF Complete
<1>2. CASE wal' # wal
  <2>1. PICK a : a = [wal EXCEPT !.stage = 4]
    OBVIOUS
  <2>2. PICK w : w = [a EXCEPT !.verifying = TRUE]
    OBVIOUS
  <2>3. wal' = w /\ UNCHANGED receipt
    BY <1>2, <2>1, <2>2 DEF Complete
  <2>4. ASSUME wal # None PROVE validExpiredWALTransition(wal, w)
    <3>1. wal \in Log
      BY <2>4 DEF NodeInv, TypeOK
    <3>2. /\ a \in Log /\ a.life = wal.life /\ a.stage = 4 /\ a.left = wal.left
          /\ a.residue = wal.residue /\ a.kept = wal.kept /\ a.cleanup = wal.cleanup
          /\ a.terminal = wal.terminal /\ a.original = wal.original /\ a.entries = wal.entries
      BY <2>1, <3>1 DEF Log
    <3>3. /\ w \in Log /\ w.life = wal.life /\ w.stage = 4 /\ w.left = wal.left
          /\ w.residue = wal.residue /\ w.kept = wal.kept /\ w.cleanup = wal.cleanup
          /\ w.terminal = wal.terminal /\ w.original = wal.original /\ w.entries = wal.entries
          /\ w.verifying
      BY <2>2, <3>2 DEF Log
    <3>4. w.stage >= wal.stage /\ w.cleanup >= wal.cleanup
      BY <3>1, <3>3 DEF Log
    <3>. QED  BY <3>1, <3>3, <3>4, SameEntries
  <2>. QED  BY <2>3, <2>4 DEF Authorized
<1>. QED  BY <1>1, <1>2

LEMMA BeginRollbackWrites ==
    ASSUME NodeInv, BeginRollback
    PROVE  Authorized
<1>1. cmd.pc \in Back
  BY DEF BeginRollback, At, Back
<1>2. wal # None /\ wal \in Log /\ wal.stage <= 3
  BY <1>1, IsBack
<1>3. PICK w : w = [wal EXCEPT !.stage = 3]
  OBVIOUS
<1>4. /\ w \in Log /\ w.life = wal.life /\ w.stage = 3 /\ w.left = wal.left
      /\ w.residue = wal.residue /\ w.kept = wal.kept /\ w.cleanup = wal.cleanup
      /\ w.terminal = wal.terminal /\ w.original = wal.original /\ w.entries = wal.entries
      /\ w.verifying = wal.verifying
  BY <1>2, <1>3 DEF Log
<1>5. w.stage >= wal.stage /\ w.cleanup >= wal.cleanup
  BY <1>2, <1>4 DEF Log
<1>6. validExpiredWALTransition(wal, w)
  BY <1>2, <1>4, <1>5, SameEntries
<1>7. wal' \in {wal, w} /\ UNCHANGED receipt
  BY <1>3 DEF BeginRollback
<1>. QED  BY <1>6, <1>7, SilentWrites DEF Authorized

LEMMA LeaveClusterWrites ==
    ASSUME NodeInv, LeaveCluster
    PROVE  Authorized
<1>1. cmd.pc \in Back
  BY DEF LeaveCluster, At, Back
<1>2. wal # None /\ wal \in Log
  BY <1>1, IsBack
<1>3. PICK w : w = [wal EXCEPT !.left = TRUE]
  OBVIOUS
<1>4. /\ w \in Log /\ w.life = wal.life /\ w.stage = wal.stage /\ w.left
      /\ w.residue = wal.residue /\ w.kept = wal.kept /\ w.cleanup = wal.cleanup
      /\ w.terminal = wal.terminal /\ w.original = wal.original /\ w.entries = wal.entries
      /\ w.verifying = wal.verifying
  BY <1>2, <1>3 DEF Log
<1>5. w.stage >= wal.stage /\ w.cleanup >= wal.cleanup
  BY <1>2, <1>4 DEF Log
<1>6. validExpiredWALTransition(wal, w)
  BY <1>2, <1>4, <1>5, SameEntries
<1>7. wal' \in {wal, w} /\ UNCHANGED receipt
  BY <1>3 DEF LeaveCluster
<1>. QED  BY <1>6, <1>7, SilentWrites DEF Authorized

LEMMA RollbackMutationWrites ==
    ASSUME NodeInv, RollbackMutation
    PROVE  Authorized
<1>1. At("undo") /\ cmd.i > 0 /\ ~MustLeave(cmd.i) /\ UNCHANGED receipt
  BY DEF RollbackMutation
<1>2. /\ wal # None /\ wal \in Log /\ cmd.i \in DOMAIN wal.entries
      /\ LogOK(wal, host, receipt, server, identity)
  BY <1>1, Undoing
<1>3. CASE UNCHANGED wal
  BY <1>1, <1>3, SilentWrites
<1>4. CASE wal' # wal
  <2>1. Owed(cmd.i) /\ (wal' = Marked(wal, cmd.i, "removed") \/ wal' = Marked(wal, cmd.i, "residue"))
    BY <1>4 DEF RollbackMutation
  <2>2. wal.entries[cmd.i].status \in {"pending", "applied"}
    BY <2>1 DEF Owed
  <2>3. wal.terminal = 0
    BY <1>2, <2>2 DEF LogOK, AnyLog, AllRemoved
  <2>4. \A status \in {"removed", "residue"} : validExpiredWALTransition(wal, Marked(wal, cmd.i, status))
    BY <1>2, <2>2, <2>3, MarkedWrites DEF validWALStatusTransition
  <2>. QED  BY <1>1, <2>1, <2>4 DEF Authorized
<1>. QED  BY <1>3, <1>4

LEMMA AbortIncompleteJoinWrites ==
    ASSUME NodeInv, AbortIncompleteJoin
    PROVE  Authorized
<1>1. cmd.pc \in Back
  BY DEF AbortIncompleteJoin, At, Back
<1>2. wal # None /\ wal \in Log
  BY <1>1, IsBack
<1>3. PICK w : w = [wal EXCEPT !.residue = TRUE]
  OBVIOUS
<1>4. /\ w \in Log /\ w.life = wal.life /\ w.stage = wal.stage /\ w.left = wal.left
      /\ w.residue /\ w.kept = wal.kept /\ w.cleanup = wal.cleanup
      /\ w.terminal = wal.terminal /\ w.original = wal.original /\ w.entries = wal.entries
      /\ w.verifying = wal.verifying
  BY <1>2, <1>3 DEF Log
<1>5. w.stage >= wal.stage /\ w.cleanup >= wal.cleanup
  BY <1>2, <1>4 DEF Log
<1>6. validExpiredWALTransition(wal, w)
  BY <1>2, <1>4, <1>5, SameEntries
<1>7. wal' \in {wal, w} /\ UNCHANGED receipt
  BY <1>3 DEF AbortIncompleteJoin
<1>. QED  BY <1>6, <1>7, SilentWrites DEF Authorized

LEMMA SignTerminalWrites ==
    ASSUME NodeInv, SignTerminal
    PROVE  Authorized
<1>1. cmd.pc = "rolled" /\ cmd.pc \in Back /\ wal.life # "repair" /\ ~wal.residue /\ UNCHANGED receipt
  BY DEF SignTerminal, At, Back
<1>2. /\ wal # None /\ wal \in Log /\ GoingBack(cmd, wal) /\ LogOK(wal, host, receipt, server, identity)
      /\ ~journal
  BY <1>1, IsBack
<1>3. PICK a : a = [wal EXCEPT !.cleanup = 1]
  OBVIOUS
<1>4. PICK t : t = AnotherReceipt(wal.terminal)
  OBVIOUS
<1>5. PICK w : w = [a EXCEPT !.terminal = t]
  OBVIOUS
<1>6. wal' \in {wal, w} /\ (wal' = wal \/ (expired => validExpiredWALTransition(wal, w)))
  BY <1>3, <1>4, <1>5 DEF SignTerminal
<1>7. CASE wal.terminal = 0
  <2>1. t = 1 /\ wal.cleanup = 0
    BY <1>2, <1>4, <1>7 DEF AnotherReceipt, LogOK, AnyLog
  <2>2. /\ a \in Log /\ a.life = wal.life /\ a.stage = wal.stage /\ a.left = wal.left
        /\ a.residue = wal.residue /\ a.kept = wal.kept /\ a.cleanup = 1
        /\ a.original = wal.original /\ a.entries = wal.entries /\ a.verifying = wal.verifying
    BY <1>2, <1>3 DEF Log
  <2>3. /\ w \in Log /\ w.life = wal.life /\ w.stage = wal.stage /\ w.left = wal.left
        /\ w.residue = wal.residue /\ w.kept = wal.kept /\ w.cleanup = 1
        /\ w.original = wal.original /\ w.entries = wal.entries /\ w.verifying = wal.verifying
    BY <1>5, <2>1, <2>2 DEF Log
  <2>4. w.stage >= wal.stage /\ w.cleanup >= wal.cleanup
    BY <1>2, <2>1, <2>3 DEF Log
  <2>5. validExpiredWALTransition(wal, w)
    BY <1>1, <1>2, <1>7, <2>3, <2>4, SameEntries
  <2>. QED  BY <1>1, <1>6, <2>5, SilentWrites DEF Authorized
<1>8. CASE wal.terminal # 0
  <2>1. wal.life = "install"
    <3>1. wal.life \in {"install", "repair", "uninstall"}
      BY <1>2 DEF Log
    <3>2. wal.life # "uninstall"
      BY <1>1, <1>2, <1>8 DEF GoingBack
    <3>. QED  BY <1>1, <3>1, <3>2
  <2>2. wal.cleanup = 1
    <3>1. wal.cleanup # 0 /\ ~(wal.cleanup >= 2)
      BY <1>2, <1>8 DEF LogOK, AnyLog, NodeInv, Data, Journal
    <3>2. wal.cleanup \in 0 .. 3
      BY <1>2 DEF Log
    <3>. QED  BY <3>1, <3>2
  <2>3. a = wal
    BY <1>2, <1>3, <2>2 DEF Log
  <2>4. SignedAgain(wal, w)
    BY <1>4, <1>5, <1>8, <2>1, <2>3 DEF SignedAgain
  <2>. QED  BY <1>1, <1>6, <2>4, SilentWrites DEF Authorized
<1>. QED  BY <1>7, <1>8

LEMMA CleanupWrites ==
    ASSUME NodeInv, RemoveSupport \/ RemoveLocalState
    PROVE  Authorized
<1>1. cmd.pc \in {"support", "forget"} /\ cmd.pc \in Cleanup /\ UNCHANGED receipt
  BY DEF RemoveSupport, RemoveLocalState, At, Cleanup
<1>2. PICK n \in {2, 3} : wal' \in {wal, [wal EXCEPT !.cleanup = n]} /\ (n = 2 <=> cmd.pc = "support")
  <2>1. 2 # 3
    OBVIOUS
  <2>2. CASE RemoveSupport
    <3>1. wal' \in {wal, [wal EXCEPT !.cleanup = 2]} /\ cmd.pc = "support"
      BY <2>2 DEF RemoveSupport, At
    <3>. QED  BY <2>1, <3>1
  <2>3. CASE RemoveLocalState
    <3>1. wal' \in {wal, [wal EXCEPT !.cleanup = 3]} /\ cmd.pc = "forget"
      BY <2>3 DEF RemoveLocalState, At
    <3>. QED  BY <2>1, <3>1
  <2>. QED  BY <2>2, <2>3
<1>3. /\ wal # None /\ wal \in Log
      /\ wal.cleanup = CASE cmd.pc = "support" -> 1
                         [] cmd.pc \in {"retire", "forget"} -> 2 [] OTHER -> 3
  BY <1>1, IsCleaning
<1>4. n >= wal.cleanup
  BY <1>1, <1>2, <1>3
<1>5. PICK w : w = [wal EXCEPT !.cleanup = n]
  OBVIOUS
<1>6. /\ w \in Log /\ w.life = wal.life /\ w.stage = wal.stage /\ w.left = wal.left
      /\ w.residue = wal.residue /\ w.kept = wal.kept /\ w.cleanup = n
      /\ w.terminal = wal.terminal /\ w.original = wal.original /\ w.entries = wal.entries
      /\ w.verifying = wal.verifying
  BY <1>2, <1>3, <1>5 DEF Log
<1>7. w.stage >= wal.stage /\ w.cleanup >= wal.cleanup
  BY <1>3, <1>4, <1>6 DEF Log
<1>8. validExpiredWALTransition(wal, w)
  BY <1>3, <1>6, <1>7, SameEntries
<1>. QED  BY <1>1, <1>2, <1>5, <1>8, SilentWrites DEF Authorized

LEMMA ReceiptWrites ==
    ASSUME NodeInv, FinishRollback \/ PublishTerminal
    PROVE  Authorized
<1>1. UNCHANGED wal /\ receipt' \in {receipt, Outcome(wal)}
  BY DEF FinishRollback, PublishTerminal
<1>2. wal # None /\ wal \in Log /\ wal.life # "repair"
  <2>1. CASE FinishRollback
    <3>1. cmd.pc \in Back /\ wal.life # "repair"
      BY <2>1 DEF FinishRollback, At, Back
    <3>. QED  BY <3>1, IsBack
  <2>2. CASE PublishTerminal
    <3>1. cmd.pc \in Cleanup
      BY <2>2 DEF PublishTerminal, At, Cleanup
    <3>2. wal # None /\ wal \in Log /\ wal.terminal # 0
      BY <3>1, IsCleaning
    <3>3. wal.life \in {"install", "uninstall"}
      BY <3>2, Signed
    <3>. QED  BY <3>2, <3>3
  <2>. QED  BY <2>1, <2>2
<1>3. PICK out : out = Outcome(wal)
  OBVIOUS
<1>4. /\ out.state = IF wal.residue THEN "recovery_required" ELSE "removed"
      /\ out.entries = wal.entries
  BY <1>2, <1>3, SignedAsLogged DEF Outcome
<1>5. terminalReceiptMatchesWAL(out, wal)
  BY <1>4 DEF terminalReceiptMatchesWAL
<1>6. validExpiredWALTransition(wal, wal)
  BY <1>2, SameLog
<1>. QED  BY <1>1, <1>2, <1>3, <1>5, <1>6 DEF Authorized

LEMMA RepairRollbackWrites ==
    ASSUME NodeInv, FinishRepairRollback
    PROVE  Authorized
<1>1. /\ cmd.pc \in Back /\ wal.life = "repair" /\ UNCHANGED wal
      /\ receipt' \in {receipt, wal.original}
  BY DEF FinishRepairRollback, At, Back
<1>2. wal # None /\ wal \in Log /\ LogOK(wal, host, receipt, server, identity)
  BY <1>1, IsBack
<1>3. wal.original.state = "active"
  BY <1>1, <1>2 DEF LogOK, RepairLog, IsActive
<1>4. validExpiredWALTransition(wal, wal)
  BY <1>2, SameLog
<1>. QED  BY <1>1, <1>3, <1>4 DEF Authorized

LEMMA PublishActiveWrites ==
    ASSUME NodeInv, PublishActive
    PROVE  Authorized
<1>1. /\ wal # None /\ wal \in Log /\ wal.stage = 4 /\ wal.life # "uninstall"
      /\ UNCHANGED wal /\ receipt' \in {receipt, signedReceipt(wal, "active")}
  BY DEF PublishActive, Publish, At, NodeInv, TypeOK, Position, GoingForward
<1>2. PICK out : out = signedReceipt(wal, "active")
  OBVIOUS
<1>3. out.state = "active"
  BY <1>2 DEF signedReceipt
<1>4. ASSUME wal.life = "install" PROVE terminalReceiptMatchesWAL(out, wal)
  <2>1. Len(wal.entries) = 3 /\ AllApplied(wal.entries)
    BY <1>1, <1>4 DEF NodeInv, Data, LogOK, InstallLog, Complete3
  <2>2. wal.entries # <<>>
    BY <2>1
  <2>3. ~wal.residue
    BY <1>1, <2>1, <2>2 DEF NodeInv, Data, LogOK, AnyLog
  <2>4. out.entries = wal.entries
    BY <1>1, <1>2, <1>4, SignedAsLogged
  <2>. QED  BY <1>1, <1>3, <2>1, <2>3, <2>4
      DEF terminalReceiptMatchesWAL, allMutationStatuses, AllApplied
<1>5. wal.life \in {"install", "repair"}
  BY <1>1 DEF Log
<1>6. validExpiredWALTransition(wal, wal)
  BY <1>1, SameLog
<1>. QED  BY <1>1, <1>2, <1>3, <1>4, <1>5, <1>6 DEF Authorized

LEMMA EveryWrite ==
    ASSUME NodeInv, Next
    PROVE  Authorized
<1>1. CASE (\E op \in {"enroll", "recover", "repair", "uninstall"} : Start(op))
           \/ Prepare \/ Restore \/ Expire \/ Refresh
  BY <1>1, SilentWrites DEF Start, Prepare, Restore, Expire, Refresh, KeepFiles
<1>2. CASE BeginEnroll \/ ExchangeNodeEnrollment \/ AuthorizeBootstrap \/ SaveNewRuntime \/ BeginInstall
  BY <1>2, SilentWrites
     DEF BeginEnroll, ExchangeNodeEnrollment, AuthorizeBootstrap, SaveNewRuntime, BeginInstall, KeepFiles
<1>3. CASE BeginLifecycle \/ LoadWAL \/ Preflight
  BY <1>3, SilentWrites DEF BeginLifecycle, LoadWAL, Preflight, Reads
<1>4. CASE CreateWAL
  <2>1. UNCHANGED receipt /\ (wal = None \/ UNCHANGED wal)
    BY <1>4 DEF CreateWAL
  <2>. QED  BY <2>1, SilentWrites DEF Authorized
<1>5. CASE Capture \/ Apply
  BY <1>5, CaptureWrites, ApplyWrites
<1>6. CASE WorkerCredential \/ EnsureJoined \/ Confirm \/ Verify
  BY <1>6, SilentWrites DEF WorkerCredential, EnsureJoined, Confirm, Verify, KeepFiles
<1>7. CASE Checkpoint \/ Complete \/ PublishActive
  BY <1>7, CheckpointWrites, CompleteWrites, PublishActiveWrites
<1>8. CASE RemoveWAL
  <2>1. UNCHANGED receipt /\ wal' \in {wal, None}
    BY <1>8 DEF RemoveWAL
  <2>. QED  BY <2>1, SilentWrites DEF Authorized
<1>9. CASE BindRuntime \/ ActivateNode \/ RecoverActivatedCapacity \/ ReleaseNodeCapacity \/ FinalizeServiceState
  BY <1>9, SilentWrites
     DEF BindRuntime, ActivateNode, RecoverActivatedCapacity, ReleaseNodeCapacity, FinalizeServiceState,
         Reads, KeepFiles
<1>10. CASE ReconcileRecovery \/ SettleJoin
  BY <1>10, SilentWrites DEF ReconcileRecovery, SettleJoin, KeepFiles
<1>11. CASE BeginRollback \/ LeaveCluster \/ RollbackMutation \/ AbortIncompleteJoin
  BY <1>11, BeginRollbackWrites, LeaveClusterWrites, RollbackMutationWrites, AbortIncompleteJoinWrites
<1>12. CASE FinishRepairRollback \/ FinishRollback \/ SignTerminal
  BY <1>12, RepairRollbackWrites, ReceiptWrites, SignTerminalWrites
<1>13. CASE CreateCleanup \/ ResumeCleanup \/ RetireRemovedNode
  BY <1>13, SilentWrites DEF CreateCleanup, ResumeCleanup, RetireRemovedNode, Reads
<1>14. CASE RemoveSupport \/ RemoveLocalState \/ PublishTerminal
  BY <1>14, CleanupWrites, ReceiptWrites
<1>15. CASE EndCleanup
  <2>1. UNCHANGED receipt /\ wal' \in {wal, None}
    BY <1>15 DEF EndCleanup
  <2>. QED  BY <2>1, SilentWrites DEF Authorized
<1>. QED
  BY <1>1, <1>2, <1>3, <1>4, <1>5, <1>6, <1>7, <1>8, <1>9, <1>10, <1>11, <1>12, <1>13, <1>14, <1>15
     DEF Next

\* Whatever a step writes into the log or the receipt the root helper would still
\* accept after the plan has expired (validExpiredWALTransition,
\* terminalReceiptMatchesWAL), the second signature of a rolled back install apart.
THEOREM EveryWriteIsAuthorized == Spec => WritesStayAuthorized
<1>1. NodeInv /\ [Next]_vars => [Authorized]_vars
  BY EveryWrite
<1>2. Spec => [][Authorized]_vars
  BY <1>1, NodeInvariant, PTL DEF Spec
<1>. QED  BY <1>2 DEF Authorized, WritesStayAuthorized
=============================================================================
