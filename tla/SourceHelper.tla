---------------------------- MODULE SourceHelper ----------------------------
(***************************************************************************)
(* The side of source materialisation that runs within the Pod: the helper *)
(* processes of blazn-sandbox-io which the controller starts by exec in    *)
(* the container sandbox-bootstrap, the files they share, and the          *)
(* container's own process, wait-bootstrap, whose end lets the workload    *)
(* start.  An exec that the controller gave up on is not stopped: its      *)
(* helper runs on and shares the files with the helper of the next one.    *)
(* One source stands for the manifest's list of them.                      *)
(***************************************************************************)
EXTENDS Naturals, FiniteSets

CONSTANTS File,       \* the files of the source's tree
          Slot,       \* the helpers that may run at the same time
          MaxPods,    \* the Pods of one Sandbox, one after the other
          MaxKills    \* the helpers that are killed

ASSUME PodAssumption == MaxPods \in Nat \ {0} /\ MaxKills \in Nat

VARIABLES pod,        \* the UID of the Pod the Sandbox has now
          files,      \* the destination: each file, with the helper that made it
          scratch,    \* .blazn-git-objects exists
          marker,     \* .blazn-source-materialization.json
          receipt,    \* /run/blazn-bootstrap/materialization.json
          released,   \* /run/blazn-bootstrap/validated
          main,       \* wait-bootstrap: waiting, started (it ended well), failed
          helper,     \* the process of each exec
          kills,      \* the helpers killed so far
          sealed,     \* history: the Pods whose receipt was stored whole
          late        \* history: an entry went after another helper checked them

podVars == <<pod, files, scratch, marker, receipt, released, main, sealed, late>>
helperVars == <<podVars, helper, kills>>

\* A file that is not there, and one that helper h created: torn until written.
Absent == [state |-> "none", by |-> "nobody"]
Made(s, h) == [state |-> s, by |-> h]

\* A slot without a process, and the start of an operation in the current Pod.
NoHelper == [pc |-> "free", seen |-> {}, open |-> "none"]
Begin(op) == [NoHelper EXCEPT !.pc = op]

\* Processes that still run; the others have ended with an answer or without.
Ended == {"free", "ok", "error", "dead"}
Running(h) == helper[h].pc \notin Ended

\* The volumes of a new Pod are empty.
HelperInit ==
  /\ pod = 1 /\ files = [f \in File |-> Absent] /\ scratch = FALSE
  /\ marker = "none" /\ receipt = "none" /\ released = "none" /\ main = "waiting"
  /\ helper = [h \in Slot |-> NoHelper] /\ kills = 0
  /\ sealed = {} /\ late = FALSE

At(h, pc) == helper[h].pc = pc
Goto(h, pc) == helper' = [helper EXCEPT ![h].pc = pc]

\* The answer of an operation that failed; respondError makes a frame of it.
Refuse(h) == Goto(h, "error")

\* A failure after the scratch directory was made: the deferred RemoveAll.
Abandon(h) ==
  /\ scratch' = FALSE /\ Refuse(h)
  /\ UNCHANGED <<pod, files, marker, receipt, released, main, sealed, late, kills>>

Quiet == UNCHANGED <<podVars, kills>>

-----------------------------------------------------------------------------
(* ServeBootstrap *)

Present == {f \in File : files[f].state # "none"}
Entries == Present \cup (IF scratch THEN {"scratch"} ELSE {})

\* Mutant of verifyMaterializedFiles: the tree is taken as it was written.
VerifyNames == ~scratch

\* verifyMaterializedFiles: every file of the tree, whole, and nothing else.
verifyMaterializedFiles == ~scratch /\ \A f \in File : files[f].state = "ok"

\* The destination is read: empty, materialised before, or left by a helper.
OpenDestination(h) ==
  /\ At(h, "bootstrap")
  /\ helper' = [helper EXCEPT ![h].seen = Entries,
       ![h].pc = IF marker # "none" THEN "adopt"
                 ELSE IF Entries = {} THEN "mkdir" ELSE "reset"]
  /\ Quiet

\* adoptMaterialization: the marker must be whole and the files as it says.
adoptMaterialization(h) ==
  /\ At(h, "adopt")
  /\ IF marker = "ok" /\ verifyMaterializedFiles THEN Goto(h, "store") ELSE Refuse(h)
  /\ Quiet

\* A helper has checked the files and goes on to answer for them.
Checked == marker # "none" \/ \E h \in Slot : helper[h].pc \in {"mark", "fill_mark"}

\* resetIncompleteSource: the entries that were listed go, one after the other.
resetIncompleteSource(h) ==
  /\ At(h, "reset") /\ helper[h].seen # {}
  /\ \E e \in helper[h].seen :
       /\ helper' = [helper EXCEPT ![h].seen = @ \ {e}]
       /\ scratch' = (scratch /\ e # "scratch")
       /\ files' = [f \in File |-> IF f = e THEN Absent ELSE files[f]]
       /\ late' = (late \/ (Checked /\ e \in Present))
  /\ UNCHANGED <<pod, marker, receipt, released, main, sealed, kills>>

\* It ends when nothing is left, a marker written meanwhile included.
ResetEnds(h) ==
  /\ At(h, "reset") /\ helper[h].seen = {}
  /\ IF Entries = {} /\ marker = "none" THEN Goto(h, "mkdir") ELSE Refuse(h)
  /\ Quiet

\* Mkdir of the scratch directory fails when another helper has made it.
MakeScratch(h) ==
  /\ At(h, "mkdir")
  /\ IF scratch THEN Refuse(h) ELSE Goto(h, "fetch")
  /\ scratch' = TRUE
  /\ UNCHANGED <<pod, files, marker, receipt, released, main, sealed, late, kills>>

\* Fetch brings the commit into the scratch directory.
Fetch(h) == At(h, "fetch") /\ scratch /\ Goto(h, "tree") /\ Quiet

\* A request that leaves the source's origin, a response beyond the budget, or a
\* host that does not answer.
FetchFails(h) == At(h, "fetch") /\ Abandon(h)

\* canonicalSourceFiles: the tree is read and every blob is hashed once.
canonicalSourceFiles(h) ==
  /\ At(h, "tree") /\ scratch
  /\ helper' = [helper EXCEPT ![h].pc = "write", ![h].seen = File]
  /\ Quiet

\* collectTreeFiles refuses links, submodules, unsafe names and trees too large.
collectTreeFiles(h) == At(h, "tree") /\ Abandon(h)

\* The next file is created, unless somebody has: then the source fails.
CreateFile(h) ==
  /\ At(h, "write") /\ helper[h].open = "none"
  /\ \E f \in helper[h].seen :
       IF files[f].state = "none"
       THEN /\ files' = [files EXCEPT ![f] = Made("torn", h)]
            /\ helper' = [helper EXCEPT ![h].open = f]
            /\ UNCHANGED <<pod, scratch, marker, receipt, released, main, sealed, late, kills>>
       ELSE Abandon(h)

\* It is filled.  A file that was removed meanwhile is filled all the same, out
\* of sight; without the scratch directory its content may not be found.
FillFile(h) ==
  /\ At(h, "write") /\ helper[h].open # "none"
  /\ LET f == helper[h].open IN
     \/ /\ files' = IF files[f] = Made("torn", h)
                    THEN [files EXCEPT ![f].state = "ok"] ELSE files
        /\ helper' = [helper EXCEPT ![h].open = "none", ![h].seen = @ \ {f}]
        /\ UNCHANGED <<pod, scratch, marker, receipt, released, main, sealed, late, kills>>
     \/ ~scratch /\ Abandon(h)

\* When all are written the scratch directory goes and the files are checked.
RemoveScratch(h) ==
  /\ At(h, "write") /\ helper[h].seen = {}
  /\ scratch' = FALSE /\ Goto(h, "verify")
  /\ UNCHANGED <<pod, files, marker, receipt, released, main, sealed, late, kills>>

Verify(h) ==
  /\ At(h, "verify")
  /\ IF verifyMaterializedFiles
     THEN Goto(h, "mark") /\ Quiet
     ELSE Abandon(h)

\* The marker is created by the first helper that comes so far, then filled.
CreateMarker(h) ==
  /\ At(h, "mark")
  /\ IF marker = "none"
     THEN /\ marker' = "torn" /\ Goto(h, "fill_mark")
          /\ UNCHANGED <<pod, files, scratch, receipt, released, main, sealed, late, kills>>
     ELSE Abandon(h)

FillMarker(h) ==
  /\ At(h, "fill_mark")
  /\ marker' = "ok" /\ scratch' = FALSE /\ Goto(h, "store")
  /\ UNCHANGED <<pod, files, receipt, released, main, sealed, late, kills>>

\* FileBootstrapState.Store: created, or equal to what is there already.
Store(h) ==
  /\ At(h, "store")
  /\ CASE receipt = "none" -> receipt' = "torn" /\ Goto(h, "fill_receipt")
       [] receipt = "ok" -> receipt' = receipt /\ Goto(h, "ok")
       [] receipt = "torn" -> receipt' = receipt /\ Refuse(h)
  /\ UNCHANGED <<pod, files, scratch, marker, released, main, sealed, late, kills>>

StoreEnds(h) ==
  /\ At(h, "fill_receipt")
  /\ receipt' = "ok" /\ sealed' = sealed \cup {pod} /\ Goto(h, "ok")
  /\ UNCHANGED <<pod, files, scratch, marker, released, main, late, kills>>

-----------------------------------------------------------------------------
(* ServeRelease *)

\* DecodeSourceMaterializationReceipt: what is stored decodes and carries its digest.
WholeReceipt == receipt = "ok"

\* FileBootstrapState.Release: the receipt must be whole and the one asked for;
\* the marker is created, or holds the same digest already.
Release(h) ==
  /\ At(h, "release")
  /\ IF ~WholeReceipt \/ released = "torn"
     THEN released' = released /\ Refuse(h)
     ELSE IF released = "ok" THEN released' = released /\ Goto(h, "ok")
     ELSE released' = "torn" /\ Goto(h, "fill_release")
  /\ UNCHANGED <<pod, files, scratch, marker, receipt, main, sealed, late, kills>>

ReleaseEnds(h) ==
  /\ At(h, "fill_release")
  /\ released' = "ok" /\ Goto(h, "ok")
  /\ UNCHANGED <<pod, files, scratch, marker, receipt, main, sealed, late, kills>>

\* A request that was cut off or that is not of the operation asked for.
DecodeRequestFails(h) == helper[h].pc \in {"bootstrap", "release"} /\ Refuse(h) /\ Quiet

-----------------------------------------------------------------------------
(* The container and the Pod *)

\* The processes of a container that ends go with it; answers that were
\* written before may still arrive.
KillAll == helper' = [h \in Slot |-> IF Running(h) THEN Begin("dead") ELSE helper[h]]

\* WaitForBootstrap looks at the marker: the size tells whether it is whole.
\* RestartPolicy is Never, so a Pod whose bootstrap fails has failed.
WaitForBootstrap ==
  /\ main = "waiting" /\ released # "none"
  /\ main' = IF released = "ok" THEN "started" ELSE "failed"
  /\ KillAll
  /\ UNCHANGED <<pod, files, scratch, marker, receipt, released, sealed, late, kills>>

\* A helper that is killed leaves what it has written.
Killed(h) ==
  /\ kills < MaxKills /\ Running(h)
  /\ kills' = kills + 1 /\ helper' = [helper EXCEPT ![h] = Begin("dead")]
  /\ UNCHANGED podVars

\* The Pod is evicted and the Sandbox gets another, with empty volumes.
PodReplaced ==
  /\ pod < MaxPods
  /\ pod' = pod + 1 /\ files' = [f \in File |-> Absent] /\ scratch' = FALSE
  /\ marker' = "none" /\ receipt' = "none" /\ released' = "none" /\ main' = "waiting"
  /\ KillAll
  /\ UNCHANGED <<sealed, late, kills>>

ServeBootstrap(h) ==
  \/ OpenDestination(h) \/ adoptMaterialization(h) \/ resetIncompleteSource(h) \/ ResetEnds(h)
  \/ MakeScratch(h) \/ Fetch(h) \/ FetchFails(h) \/ canonicalSourceFiles(h)
  \/ collectTreeFiles(h) \/ CreateFile(h) \/ FillFile(h) \/ RemoveScratch(h)
  \/ Verify(h) \/ CreateMarker(h) \/ FillMarker(h) \/ Store(h) \/ StoreEnds(h)

ServeRelease(h) == Release(h) \/ ReleaseEnds(h)

PodSteps ==
  \/ \E h \in Slot : ServeBootstrap(h) \/ ServeRelease(h) \/ DecodeRequestFails(h) \/ Killed(h)
  \/ WaitForBootstrap \/ PodReplaced

=============================================================================
