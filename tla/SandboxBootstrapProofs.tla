----------------------- MODULE SandboxBootstrapProofs -----------------------
(***************************************************************************)
(* Theorems about SandboxBootstrap, for any number of workers, claims,     *)
(* helpers, Pods, files, killed helpers and policies of others.            *)
(***************************************************************************)
EXTENDS SandboxBootstrap, TLAPS

-----------------------------------------------------------------------------
(* The inductive invariant. *)

HelperPc == {"free", "ok", "error", "dead", "bootstrap", "adopt", "reset", "mkdir", "fetch", "tree", "write",
             "verify", "mark", "fill_mark", "store", "fill_receipt", "release", "fill_release"}
HelperRow == [pc : HelperPc, seen : SUBSET (File \cup {"scratch"}), open : File \cup {"scratch", "none"}]

\* The steps of a worker before its receipt is on record; from there to the end of
\* the closed network; and behind that.
OpenPath == {"deny", "get_allow", "post", "delete_legacy", "await_legacy", "verify_open", "undo",
             "preflight", "exec", "wait", "postflight", "record"}
ReleasePath == {"release_preflight", "release_exec", "release_wait", "release_postflight", "ready", "bind"}
ClosePath == {"deny_again", "get_again", "delete", "await", "verify_closed"} \cup ReleasePath
WorkerRow == [pc : {"idle", "observe"} \cup OpenPath \cup ClosePath, pod : Nat \cup {NoPod}, uid : Nat,
              slot : Slot \cup {0}, ready : BOOLEAN]

PodTypes ==
    /\ pod \in Nat \ {0} /\ sealed \subseteq Nat /\ scratch \in BOOLEAN /\ late \in BOOLEAN
    /\ files \in [File -> [state : {"none", "torn", "ok"}, by : Slot \cup {"nobody"}]]
    /\ marker \in {"none", "torn", "ok"} /\ receipt \in {"none", "torn", "ok"}
    /\ released \in {"none", "torn", "ok"} /\ main \in {"waiting", "started", "failed"}
StoreTypes ==
    /\ lease \in Worker \cup {NoWorker} /\ record \in Nat \cup {NoPod} /\ made \in Nat
    /\ allow \in [kind : {"none", "current", "legacy"}, uid : Nat, going : BOOLEAN, fenced : BOOLEAN]
TypeOK ==
    /\ PodTypes /\ StoreTypes
    /\ helper \in [Slot -> HelperRow] /\ worker \in [Worker -> WorkerRow]

\* A worker has a helper of its own while it waits for it, and only then.
Slots ==
    /\ \A w \in Worker : worker[w].pc \in {"wait", "release_wait"} <=> worker[w].slot # 0
    /\ \A v, w \in Worker : worker[v].slot = worker[w].slot /\ worker[w].slot # 0 => v = w
    /\ \A w \in Worker : worker[w].pc = "wait" => helper[worker[w].slot].pc \notin {"release", "fill_release"}

\* A worker's Pod is the current one or an earlier one.
Placed == \A w \in Worker : worker[w].pc \notin {"idle", "observe"} => worker[w].pod \in 1 .. pod

\* A receipt that a worker has heard of was stored in the worker's Pod, unless that
\* Pod has been replaced; the one on record was.
Heard(w) == \/ worker[w].pc = "wait" /\ helper[worker[w].slot].pc = "ok"
            \/ worker[w].pc = "postflight"
Sealed ==
    /\ receipt = "ok" => pod \in sealed
    /\ \A w \in Worker : Heard(w) /\ worker[w].pod = pod => pod \in sealed
    /\ \A w \in Worker : worker[w].pc = "record" => worker[w].pod \in sealed
    /\ record = NoPod \/ record \in sealed

\* What is released, or about to be, has a receipt on record; a worker that holds the
\* lease has put none there itself before it is done with the helper.
Releasing == released # "none" \/ \E h \in Slot : helper[h].pc \in {"release", "fill_release"}
Recorded ==
    /\ Releasing => record # NoPod
    /\ \A w \in Worker : worker[w].pc \in ClosePath => record # NoPod
    /\ \A w \in Worker : worker[w].pc \in OpenPath /\ lease = w => record = NoPod

\* ... and a network that no worker with a lease holds open.
Shut == allow.kind # "none" => ~allow.fenced
Closed == Releasing \/ (\E w \in Worker : worker[w].pc \in ReleasePath) => Shut

\* Release follows the receipt, the receipt the marker, and the marker the check.
Whole == \A f \in File : files[f].state = "ok"
Chain ==
    /\ main = "started" => released # "none"
    /\ released # "none" \/ (\E h \in Slot : helper[h].pc = "fill_release") => receipt # "none"
    /\ receipt # "none" \/ (\E h \in Slot : helper[h].pc \in {"store", "fill_receipt"}) => marker # "none"
    /\ Checked => Whole \/ late

BootstrapInv == TypeOK /\ Slots /\ Placed /\ Sealed /\ Recorded /\ Closed /\ Chain

-----------------------------------------------------------------------------
(* A step of one helper. *)

Around == <<networkVars, storeVars, worker>>

\* What a step of helper h to a position does to the files of the Pod: it keeps
\* the receipts it finds, answers ok only for one that is stored, and puts the
\* marker, the receipt and the release in their order.
FileStep(h, to) ==
    /\ PodTypes' /\ pod' = pod /\ main' = main /\ sealed \subseteq sealed'
    /\ to \in {"release", "fill_release"} => helper[h].pc = "release"
    /\ to = "ok" => helper[h].pc \in {"release", "fill_release"} \/ pod \in sealed'
    /\ receipt' = "ok" => pod \in sealed'
    /\ released' # "none" => released # "none" \/ helper[h].pc \in {"release", "fill_release"}
    /\ released # "none" => released' # "none"
    /\ receipt # "none" => receipt' # "none"
    /\ released' # "none" \/ to = "fill_release" => receipt' # "none"
    /\ marker # "none" => marker' # "none"
    /\ receipt' # "none" \/ to \in {"store", "fill_receipt"} => marker' # "none"
    /\ late => late'
    /\ Checked /\ Whole => Whole' \/ late'
    /\ marker' # "none" \/ to \in {"mark", "fill_mark"} => Checked \/ Whole'

HelperStep(h, to) ==
    /\ helper' \in [Slot -> HelperRow] /\ helper'[h].pc = to
    /\ \A k \in Slot : k # h => helper'[k] = helper[k]
    /\ FileStep(h, to) /\ UNCHANGED Around

\* Every such step keeps the invariant.
LEMMA HelperStepKept ==
    ASSUME BootstrapInv, NEW h \in Slot, NEW to, HelperStep(h, to)
    PROVE  BootstrapInv'
<1>1. /\ helper' \in [Slot -> HelperRow] /\ helper'[h].pc = to
      /\ \A k \in Slot : k # h => helper'[k] = helper[k]
      /\ UNCHANGED <<allow, lease, record, made, worker>>
  BY DEF HelperStep, Around, networkVars, storeVars
<1>2. TypeOK'
  BY <1>1 DEF BootstrapInv, TypeOK, StoreTypes, HelperStep, FileStep
<1>3. Slots'
  <2>1. ASSUME NEW w \in Worker, worker[w].pc = "wait"
        PROVE  worker[w].slot \in Slot /\ helper'[worker[w].slot].pc \notin {"release", "fill_release"}
    BY <1>1, <2>1 DEF BootstrapInv, TypeOK, WorkerRow, Slots, HelperStep, FileStep
  <2>. QED  BY <1>1, <2>1 DEF BootstrapInv, Slots
<1>4. Placed'
  BY <1>1 DEF BootstrapInv, Placed, HelperStep, FileStep
<1>5. Sealed'
  <2>1. receipt' = "ok" => pod' \in sealed'
    BY DEF HelperStep, FileStep
  <2>2. ASSUME NEW w \in Worker, Heard(w)', worker[w].pod = pod
        PROVE  pod \in sealed'
    <3>1. CASE worker[w].pc = "postflight"
      BY <2>2, <3>1 DEF BootstrapInv, Sealed, Heard, HelperStep, FileStep
    <3>2. CASE worker[w].pc = "wait" /\ helper'[worker[w].slot].pc = "ok"
      <4>1. worker[w].slot \in Slot /\ helper[worker[w].slot].pc \notin {"release", "fill_release"}
        BY <3>2 DEF BootstrapInv, TypeOK, WorkerRow, Slots
      <4>2. CASE worker[w].slot = h
        BY <1>1, <3>2, <4>1, <4>2 DEF HelperStep, FileStep
      <4>3. CASE worker[w].slot # h
        BY <1>1, <2>2, <3>2, <4>1, <4>3 DEF BootstrapInv, Sealed, Heard, HelperStep, FileStep
      <4>. QED  BY <4>2, <4>3
    <3>. QED  BY <1>1, <2>2, <3>1, <3>2 DEF Heard
  <2>3. pod' = pod /\ sealed \subseteq sealed'
    BY DEF HelperStep, FileStep
  <2>. QED  BY <1>1, <2>1, <2>2, <2>3 DEF BootstrapInv, Sealed
<1>6. Releasing' => Releasing
  BY <1>1 DEF Releasing, HelperStep, FileStep
<1>7. Recorded' /\ Closed'
  BY <1>1, <1>6 DEF BootstrapInv, Recorded, Closed, Shut
<1>8. Chain'
  <2>1. (\E k \in Slot : helper'[k].pc \in {"store", "fill_receipt"}) => marker' # "none"
    BY <1>1 DEF BootstrapInv, Chain, HelperStep, FileStep
  <2>4. (\E k \in Slot : helper'[k].pc = "fill_release") => receipt' # "none"
    BY <1>1 DEF BootstrapInv, Chain, HelperStep, FileStep
  <2>2. Checked' => Checked \/ Whole'
    BY <1>1 DEF Checked, HelperStep, FileStep
  <2>3. Checked' => Whole' \/ late'
    BY <2>2 DEF BootstrapInv, Chain, HelperStep, FileStep
  <2>. QED  BY <2>1, <2>3, <2>4 DEF BootstrapInv, Chain, HelperStep, FileStep
<1>. QED  BY <1>2, <1>3, <1>4, <1>5, <1>7, <1>8 DEF BootstrapInv

\* A step that leaves the Pod alone, or only takes away the scratch directory.
LEMMA FilesAlone ==
    ASSUME BootstrapInv, NEW h \in Slot, NEW to \in HelperPc, NEW s \in BOOLEAN,
           UNCHANGED <<pod, files, marker, receipt, released, main, sealed, late>>, scratch' = s,
           to \in {"release", "fill_release", "ok"} => FALSE,
           to \in {"store", "fill_receipt"} => marker # "none",
           to \in {"mark", "fill_mark"} => Checked \/ Whole
    PROVE  FileStep(h, to)
<1>1. Whole' <=> Whole
  BY DEF Whole
<1>2. PodTypes'
  BY DEF BootstrapInv, TypeOK, PodTypes
<1>. QED  BY <1>1, <1>2 DEF FileStep, BootstrapInv, Chain, Sealed, Checked

\* helper' in the forms the steps have.
LEMMA RowMoved ==
    ASSUME BootstrapInv, NEW h \in Slot, NEW row \in HelperRow, helper' = [helper EXCEPT ![h] = row]
    PROVE  /\ helper' \in [Slot -> HelperRow] /\ helper'[h].pc = row.pc
           /\ \A k \in Slot : k # h => helper'[k] = helper[k]
  BY DEF BootstrapInv, TypeOK

\* ... only its position, ...
LEMMA PcMoved ==
    ASSUME BootstrapInv, NEW h \in Slot, NEW to \in HelperPc, Goto(h, to)
    PROVE  /\ helper' \in [Slot -> HelperRow] /\ helper'[h].pc = to
           /\ \A k \in Slot : k # h => helper'[k] = helper[k]
<1>1. helper[h] \in HelperRow
  BY DEF BootstrapInv, TypeOK
<1>2. PICK row : row = [helper[h] EXCEPT !.pc = to]
  OBVIOUS
<1>3. row \in HelperRow /\ row.pc = to
  BY <1>1, <1>2 DEF HelperRow
<1>4. helper' = [helper EXCEPT ![h] = row]
  BY <1>2 DEF Goto
<1>. QED  BY <1>3, <1>4, RowMoved

\* Summaries of the steps: of those that change nothing but the helper, and of an
\* operation that ends with an error.
LEMMA QuietStep ==
    ASSUME BootstrapInv, NEW h \in Slot, NEW to \in HelperPc, Quiet, UNCHANGED Around, Goto(h, to),
           to \notin {"release", "fill_release", "ok"},
           to \in {"store", "fill_receipt"} => marker # "none",
           to \in {"mark", "fill_mark"} => Checked \/ Whole
    PROVE  HelperStep(h, to)
<1>1. scratch \in BOOLEAN /\ UNCHANGED <<pod, files, scratch, marker, receipt, released, main, sealed, late>>
  BY DEF Quiet, podVars, BootstrapInv, TypeOK, PodTypes
<1>2. FileStep(h, to)
  BY <1>1, FilesAlone
<1>. QED  BY <1>2, PcMoved DEF HelperStep

\* ... with an error that takes the scratch directory along, ...
LEMMA AbandonStep ==
    ASSUME BootstrapInv, NEW h \in Slot, Abandon(h), UNCHANGED Around
    PROVE  BootstrapInv'
<1>1. /\ UNCHANGED <<pod, files, marker, receipt, released, main, sealed, late>> /\ scratch' = FALSE
      /\ Goto(h, "error") /\ "error" \in HelperPc
  BY DEF Abandon, Refuse, HelperPc
<1>2. FileStep(h, "error")
  BY <1>1, FilesAlone
<1>3. HelperStep(h, "error")
  BY <1>1, <1>2, PcMoved DEF HelperStep
<1>. QED  BY <1>3, HelperStepKept

\* ... or with an error alone.
LEMMA RefuseStep ==
    ASSUME BootstrapInv, NEW h \in Slot, Refuse(h), Quiet, UNCHANGED Around
    PROVE  BootstrapInv'
<1>1. HelperStep(h, "error")
  BY QuietStep DEF Refuse, HelperPc
<1>. QED  BY <1>1, HelperStepKept

-----------------------------------------------------------------------------
(* ServeBootstrap. *)

\* The destination is listed.
LEMMA OpenDestinationKept ==
    ASSUME BootstrapInv, NEW h \in Slot, OpenDestination(h), UNCHANGED Around
    PROVE  BootstrapInv'
<1>1. helper[h] \in HelperRow /\ Entries \in SUBSET (File \cup {"scratch"})
  BY DEF BootstrapInv, TypeOK, Entries, Present
<1>2. PICK to \in {"adopt", "mkdir", "reset"} : helper' = [helper EXCEPT ![h].seen = Entries, ![h].pc = to]
  BY DEF OpenDestination
<1>3. PICK row : row = [helper[h] EXCEPT !.seen = Entries, !.pc = to]
  OBVIOUS
<1>4. row \in HelperRow /\ row.pc = to /\ to \in HelperPc
  BY <1>1, <1>3 DEF HelperRow, HelperPc
<1>5. helper' = [helper EXCEPT ![h] = row]
  BY <1>2, <1>3
<1>6. FileStep(h, to)
  <2>1. scratch \in BOOLEAN /\ UNCHANGED <<pod, files, scratch, marker, receipt, released, main, sealed, late>>
    BY DEF OpenDestination, Quiet, podVars, BootstrapInv, TypeOK, PodTypes
  <2>. QED  BY <1>4, <2>1, FilesAlone
<1>7. HelperStep(h, to)
  BY <1>4, <1>5, <1>6, RowMoved DEF HelperStep
<1>. QED  BY <1>7, HelperStepKept

\* A tree that is there and whole is adopted, its marker being there.
LEMMA adoptKept ==
    ASSUME BootstrapInv, NEW h \in Slot, adoptMaterialization(h), UNCHANGED Around
    PROVE  BootstrapInv'
<1>1. CASE marker = "ok" /\ Goto(h, "store")
  <2>1. HelperStep(h, "store")
    BY <1>1, QuietStep DEF adoptMaterialization, HelperPc
  <2>. QED  BY <2>1, HelperStepKept
<1>2. CASE Refuse(h)
  BY <1>2, RefuseStep DEF adoptMaterialization
<1>. QED  BY <1>1, <1>2 DEF adoptMaterialization

\* An entry goes: when it was checked before, that is noted.
LEMMA resetKept ==
    ASSUME BootstrapInv, NEW h \in Slot, resetIncompleteSource(h), UNCHANGED Around
    PROVE  BootstrapInv'
<1>1. PICK e \in helper[h].seen :
        /\ helper' = [helper EXCEPT ![h].seen = @ \ {e}]
        /\ scratch' = (scratch /\ e # "scratch")
        /\ files' = [f \in File |-> IF f = e THEN Absent ELSE files[f]]
        /\ late' = (late \/ (Checked /\ e \in Present))
  BY DEF resetIncompleteSource
<1>2. /\ helper[h] \in HelperRow /\ helper[h].pc = "reset"
      /\ UNCHANGED <<pod, marker, receipt, released, main, sealed>>
  BY DEF resetIncompleteSource, At, BootstrapInv, TypeOK
<1>3. PICK row : row = [helper[h] EXCEPT !.seen = @ \ {e}]
  OBVIOUS
<1>4. row \in HelperRow /\ row.pc = "reset"
  BY <1>2, <1>3 DEF HelperRow
<1>5. helper' = [helper EXCEPT ![h] = row]
  BY <1>1, <1>3
<1>6. PodTypes'
  <2>1. Absent \in [state : {"none", "torn", "ok"}, by : Slot \cup {"nobody"}]
    BY DEF Absent
  <2>2. files' \in [File -> [state : {"none", "torn", "ok"}, by : Slot \cup {"nobody"}]]
    BY <1>1, <2>1 DEF BootstrapInv, TypeOK, PodTypes
  <2>3. scratch' \in BOOLEAN /\ late' \in BOOLEAN
    BY <1>1
  <2>. QED  BY <1>2, <2>2, <2>3 DEF BootstrapInv, TypeOK, PodTypes
<1>7. Checked /\ Whole => Whole' \/ late'
  <2>1. CASE e \in File
    <3>1. Whole => e \in Present
      BY <2>1 DEF Whole, Present
    <3>. QED  BY <1>1, <3>1
  <2>2. CASE e \notin File
    <3>1. \A f \in File : files'[f] = files[f]
      BY <1>1, <2>2
    <3>. QED  BY <3>1 DEF Whole
  <2>. QED  BY <2>1, <2>2
<1>8. FileStep(h, "reset")
  BY <1>1, <1>2, <1>6, <1>7 DEF FileStep, BootstrapInv, Chain, Sealed, Checked
<1>9. HelperStep(h, "reset")
  BY <1>4, <1>5, <1>8, RowMoved DEF HelperStep
<1>. QED  BY <1>9, HelperStepKept

\* The listed entries are gone.
LEMMA ResetEndsKept ==
    ASSUME BootstrapInv, NEW h \in Slot, ResetEnds(h), UNCHANGED Around
    PROVE  BootstrapInv'
<1>1. CASE Goto(h, "mkdir")
  <2>1. HelperStep(h, "mkdir")
    BY <1>1, QuietStep DEF ResetEnds, HelperPc
  <2>. QED  BY <2>1, HelperStepKept
<1>2. CASE Refuse(h)
  BY <1>2, RefuseStep DEF ResetEnds
<1>. QED  BY <1>1, <1>2 DEF ResetEnds

\* The scratch directory is made by one of them.
LEMMA MakeScratchKept ==
    ASSUME BootstrapInv, NEW h \in Slot, MakeScratch(h), UNCHANGED Around
    PROVE  BootstrapInv'
<1>1. PICK to \in {"error", "fetch"} : Goto(h, to)
  BY DEF MakeScratch, Refuse
<1>2. FileStep(h, to) /\ to \in HelperPc
  BY FilesAlone DEF MakeScratch, HelperPc
<1>3. HelperStep(h, to)
  BY <1>1, <1>2, PcMoved DEF HelperStep
<1>. QED  BY <1>3, HelperStepKept

\* The fetch and the reading of the tree, and their failures.
LEMMA FetchKept ==
    ASSUME BootstrapInv, NEW h \in Slot, UNCHANGED Around,
           Fetch(h) \/ FetchFails(h) \/ canonicalSourceFiles(h) \/ collectTreeFiles(h)
    PROVE  BootstrapInv'
<1>1. CASE Fetch(h)
  <2>1. HelperStep(h, "tree")
    BY <1>1, QuietStep DEF Fetch, HelperPc
  <2>. QED  BY <2>1, HelperStepKept
<1>2. CASE FetchFails(h) \/ collectTreeFiles(h)
  BY <1>2, AbandonStep DEF FetchFails, collectTreeFiles
<1>3. CASE canonicalSourceFiles(h)
  <2>1. helper[h] \in HelperRow /\ "write" \in HelperPc
    BY DEF BootstrapInv, TypeOK, HelperPc
  <2>2. PICK row : row = [helper[h] EXCEPT !.pc = "write", !.seen = File]
    OBVIOUS
  <2>3. row \in HelperRow /\ row.pc = "write"
    BY <2>1, <2>2 DEF HelperRow
  <2>4. helper' = [helper EXCEPT ![h] = row]
    BY <1>3, <2>2 DEF canonicalSourceFiles
  <2>5. FileStep(h, "write")
    <3>1. scratch \in BOOLEAN /\ UNCHANGED <<pod, files, scratch, marker, receipt, released, main, sealed, late>>
      BY <1>3 DEF canonicalSourceFiles, Quiet, podVars, BootstrapInv, TypeOK, PodTypes
    <3>. QED  BY <2>1, <3>1, FilesAlone
  <2>6. HelperStep(h, "write")
    BY <2>3, <2>4, <2>5, RowMoved DEF HelperStep
  <2>. QED  BY <2>6, HelperStepKept
<1>. QED  BY <1>1, <1>2, <1>3

\* A file is created where there is none, and filled: a whole tree stays whole.
LEMMA WriteKept ==
    ASSUME BootstrapInv, NEW h \in Slot, UNCHANGED Around, helper[h].pc = "write",
           NEW row \in HelperRow, row.pc = "write", helper' = [helper EXCEPT ![h] = row],
           NEW f, NEW new \in [state : {"torn", "ok"}, by : Slot \cup {"nobody"}],
           files' = files \/ files' = [files EXCEPT ![f] = new],
           new.state = "torn" => files[f].state = "none",
           UNCHANGED <<pod, scratch, marker, receipt, released, main, sealed, late>>
    PROVE  BootstrapInv'
<1>1. files \in [File -> [state : {"none", "torn", "ok"}, by : Slot \cup {"nobody"}]]
  BY DEF BootstrapInv, TypeOK, PodTypes
<1>2. files' \in [File -> [state : {"none", "torn", "ok"}, by : Slot \cup {"nobody"}]]
  BY <1>1
<1>3. Whole => Whole'
  BY <1>1 DEF Whole
<1>4. PodTypes'
  BY <1>2 DEF BootstrapInv, TypeOK, PodTypes
<1>5. FileStep(h, "write")
  BY <1>3, <1>4 DEF FileStep, BootstrapInv, Chain, Sealed, Checked
<1>6. HelperStep(h, "write")
  BY <1>5, RowMoved DEF HelperStep
<1>. QED  BY <1>6, HelperStepKept

\* A file is made torn only where there was none, ...
LEMMA CreateFileKept ==
    ASSUME BootstrapInv, NEW h \in Slot, CreateFile(h), UNCHANGED Around
    PROVE  BootstrapInv'
<1>1. CASE Abandon(h)
  BY <1>1, AbandonStep
<1>2. ASSUME NEW f \in helper[h].seen, files[f].state = "none",
             files' = [files EXCEPT ![f] = Made("torn", h)], helper' = [helper EXCEPT ![h].open = f],
             UNCHANGED <<pod, scratch, marker, receipt, released, main, sealed, late, kills>>
      PROVE  BootstrapInv'
  <2>1. helper[h] \in HelperRow /\ helper[h].pc = "write"
    BY DEF BootstrapInv, TypeOK, CreateFile, At
  <2>2. PICK row : row = [helper[h] EXCEPT !.open = f]
    OBVIOUS
  <2>3. row \in HelperRow /\ row.pc = "write"
    BY <2>1, <2>2 DEF HelperRow
  <2>4. PICK new : new = Made("torn", h)
    OBVIOUS
  <2>9. new \in [state : {"torn", "ok"}, by : Slot \cup {"nobody"}] /\ new.state = "torn"
    BY <2>4 DEF Made
  <2>5. helper' = [helper EXCEPT ![h] = row] /\ files' = [files EXCEPT ![f] = new]
    BY <1>2, <2>2, <2>4
  <2>6. (files' = files \/ files' = [files EXCEPT ![f] = new]) /\ (new.state = "torn" => files[f].state = "none")
    BY <1>2, <2>5
  <2>7. UNCHANGED <<pod, scratch, marker, receipt, released, main, sealed, late>>
    BY <1>2
  <2>. QED  BY <2>1, <2>3, <2>9, <2>5, <2>6, <2>7, WriteKept
<1>. QED  BY <1>1, <1>2 DEF CreateFile

\* ... and made whole by the helper that made it.
LEMMA FillFileKept ==
    ASSUME BootstrapInv, NEW h \in Slot, FillFile(h), UNCHANGED Around
    PROVE  BootstrapInv'
<1>1. CASE Abandon(h)
  BY <1>1, AbandonStep
<1>2. CASE /\ files' = IF files[helper[h].open] = Made("torn", h)
                       THEN [files EXCEPT ![helper[h].open].state = "ok"] ELSE files
           /\ helper' = [helper EXCEPT ![h].open = "none", ![h].seen = @ \ {helper[h].open}]
           /\ UNCHANGED <<pod, scratch, marker, receipt, released, main, sealed, late, kills>>
  <2>1. helper[h] \in HelperRow /\ helper[h].pc = "write"
    BY DEF BootstrapInv, TypeOK, FillFile, At
  <2>2. PICK row, f : f = helper[h].open /\ row = [helper[h] EXCEPT !.open = "none", !.seen = @ \ {f}]
    OBVIOUS
  <2>3. row \in HelperRow /\ row.pc = "write"
    BY <2>1, <2>2 DEF HelperRow
  <2>4. PICK new : new = Made("ok", h)
    OBVIOUS
  <2>9. new \in [state : {"torn", "ok"}, by : Slot \cup {"nobody"}] /\ new.state = "ok"
    BY <2>4 DEF Made
  <2>5. helper' = [helper EXCEPT ![h] = row]
    BY <1>2, <2>2
  <2>6. files' = files \/ files' = [files EXCEPT ![f] = new]
    <3>1. CASE files[f] = Made("torn", h)
      <4>1. [files[f] EXCEPT !.state = "ok"] = new
        BY <2>4, <3>1 DEF Made
      <4>2. files' = [files EXCEPT ![f] = [files[f] EXCEPT !.state = "ok"]]
        BY <1>2, <2>2, <3>1
      <4>. QED  BY <4>1, <4>2
    <3>2. CASE files[f] # Made("torn", h)
      BY <1>2, <2>2, <3>2
    <3>. QED  BY <3>1, <3>2
  <2>7. new.state = "torn" => files[f].state = "none"
    BY <2>9
  <2>8. UNCHANGED <<pod, scratch, marker, receipt, released, main, sealed, late>>
    BY <1>2
  <2>. QED  BY <2>1, <2>3, <2>9, <2>5, <2>6, <2>7, <2>8, WriteKept
<1>. QED  BY <1>1, <1>2 DEF FillFile

\* The check, the marker, the receipt.
LEMMA VerifyKept ==
    ASSUME BootstrapInv, NEW h \in Slot, UNCHANGED Around, RemoveScratch(h) \/ Verify(h)
    PROVE  BootstrapInv'
<1>1. CASE RemoveScratch(h)
  <2>1. FileStep(h, "verify") /\ "verify" \in HelperPc /\ Goto(h, "verify")
    BY <1>1, FilesAlone DEF RemoveScratch, HelperPc
  <2>2. HelperStep(h, "verify")
    BY <2>1, PcMoved DEF HelperStep
  <2>. QED  BY <2>2, HelperStepKept
<1>2. CASE Verify(h) /\ verifyMaterializedFiles
  <2>1. HelperStep(h, "mark")
    BY <1>2, QuietStep DEF Verify, verifyMaterializedFiles, Whole, HelperPc
  <2>. QED  BY <2>1, HelperStepKept
<1>3. CASE Verify(h) /\ ~verifyMaterializedFiles
  BY <1>3, AbandonStep DEF Verify
<1>. QED  BY <1>1, <1>2, <1>3

\* The marker follows the check: it is created, then filled.
LEMMA MarkerKept ==
    ASSUME BootstrapInv, NEW h \in Slot, UNCHANGED Around, CreateMarker(h) \/ FillMarker(h)
    PROVE  BootstrapInv'
<1>1. CASE CreateMarker(h) /\ marker # "none"
  BY <1>1, AbandonStep DEF CreateMarker
<1>2. CASE (CreateMarker(h) /\ marker = "none") \/ FillMarker(h)
  <2>1. PICK to \in {"fill_mark", "store"} : Goto(h, to)
    BY <1>2 DEF CreateMarker, FillMarker
  <2>2. /\ UNCHANGED <<pod, files, receipt, released, main, sealed, late>>
        /\ marker' \in {"torn", "ok"} /\ scratch' \in BOOLEAN /\ helper[h].pc \in {"mark", "fill_mark"}
    BY <1>2 DEF CreateMarker, FillMarker, At, BootstrapInv, TypeOK, PodTypes
  <2>3. PodTypes' /\ (Whole' <=> Whole)
    BY <2>2 DEF BootstrapInv, TypeOK, PodTypes, Whole
  <2>4. FileStep(h, to) /\ to \in HelperPc
    BY <2>2, <2>3 DEF FileStep, BootstrapInv, Chain, Sealed, Checked, HelperPc
  <2>5. HelperStep(h, to)
    BY <2>1, <2>4, PcMoved DEF HelperStep
  <2>. QED  BY <2>5, HelperStepKept
<1>. QED  BY <1>1, <1>2

\* The receipt follows the marker, and ok the receipt.
LEMMA StoreKept ==
    ASSUME BootstrapInv, NEW h \in Slot, UNCHANGED Around, Store(h) \/ StoreEnds(h)
    PROVE  BootstrapInv'
<1>1. /\ UNCHANGED <<pod, files, scratch, marker, released, main, late>> /\ helper[h].pc \in {"store", "fill_receipt"}
      /\ sealed' \in {sealed, sealed \cup {pod}}
  BY DEF Store, StoreEnds, At
<1>2. marker # "none"
  BY <1>1 DEF BootstrapInv, Chain
<1>3. PICK to \in {"fill_receipt", "ok", "error"} :
         /\ Goto(h, to) /\ receipt' \in {"torn", "ok"}
         /\ receipt' = "ok" => pod \in sealed'
         /\ to = "ok" => pod \in sealed'
  <2>1. receipt \in {"none", "torn", "ok"} /\ (receipt = "ok" => pod \in sealed)
    BY DEF BootstrapInv, TypeOK, PodTypes, Sealed
  <2>2. CASE StoreEnds(h)
    BY <2>2 DEF StoreEnds
  <2>3. CASE Store(h)
    BY <2>1, <2>3 DEF Store, Refuse
  <2>. QED  BY <2>2, <2>3
<1>4. PodTypes' /\ (Whole' <=> Whole)
  BY <1>1, <1>3 DEF BootstrapInv, TypeOK, PodTypes, Whole
<1>5. FileStep(h, to) /\ to \in HelperPc
  BY <1>1, <1>2, <1>3, <1>4 DEF FileStep, BootstrapInv, Chain, Checked, HelperPc
<1>6. HelperStep(h, to)
  BY <1>3, <1>5, PcMoved DEF HelperStep
<1>. QED  BY <1>6, HelperStepKept

\* ServeRelease: only beside a whole receipt.
LEMMA ReleaseKept ==
    ASSUME BootstrapInv, NEW h \in Slot, UNCHANGED Around, ServeRelease(h)
    PROVE  BootstrapInv'
<1>1. /\ UNCHANGED <<pod, files, scratch, marker, receipt, main, sealed, late>>
      /\ helper[h].pc \in {"release", "fill_release"}
  BY DEF ServeRelease, Release, ReleaseEnds, At
<1>2. CASE Release(h)
  <2>1. PICK to \in {"error", "ok", "fill_release"} :
           /\ Goto(h, to) /\ helper[h].pc = "release"
           /\ released' = released \/ (released' = "torn" /\ receipt = "ok")
           /\ to = "fill_release" => receipt = "ok"
           /\ released # "none" => released' # "none"
    BY <1>2 DEF Release, Refuse, WholeReceipt, At
  <2>2. PodTypes' /\ (Whole' <=> Whole)
    BY <1>1, <2>1 DEF BootstrapInv, TypeOK, PodTypes, Whole
  <2>3. FileStep(h, to) /\ to \in HelperPc
    BY <1>1, <2>1, <2>2 DEF FileStep, BootstrapInv, Chain, Checked, Sealed, HelperPc
  <2>4. HelperStep(h, to)
    BY <2>1, <2>3, PcMoved DEF HelperStep
  <2>. QED  BY <2>4, HelperStepKept
<1>3. CASE ReleaseEnds(h)
  <2>1. Goto(h, "ok") /\ released' = "ok" /\ helper[h].pc = "fill_release"
    BY <1>3 DEF ReleaseEnds, At
  <2>2. PodTypes' /\ (Whole' <=> Whole)
    BY <1>1, <2>1 DEF BootstrapInv, TypeOK, PodTypes, Whole
  <2>3. FileStep(h, "ok") /\ "ok" \in HelperPc
    BY <1>1, <2>1, <2>2 DEF FileStep, BootstrapInv, Chain, Checked, Sealed, HelperPc
  <2>4. HelperStep(h, "ok")
    BY <2>1, <2>3, PcMoved DEF HelperStep
  <2>. QED  BY <2>4, HelperStepKept
<1>. QED  BY <1>2, <1>3 DEF ServeRelease

\* A request that is not understood, a helper that is killed, one nobody waits for.
LEMMA EndedKept ==
    ASSUME BootstrapInv, NEW h \in Slot,
           DecodeRequestFails(h) \/ Killed(h) \/ Unheard(h), UNCHANGED Around
    PROVE  BootstrapInv'
<1>1. CASE DecodeRequestFails(h)
  BY <1>1, RefuseStep DEF DecodeRequestFails
<1>2. CASE Killed(h) \/ Unheard(h)
  <2>1. PICK row : /\ row = Begin("dead") \/ row = NoHelper
                   /\ helper' = [helper EXCEPT ![h] = row]
    BY <1>2 DEF Killed, Unheard
  <2>2. row \in HelperRow /\ row.pc \in {"dead", "free"} /\ row.pc \in HelperPc
    BY <2>1 DEF Begin, NoHelper, HelperRow, HelperPc
  <2>3. scratch \in BOOLEAN /\ UNCHANGED <<pod, files, scratch, marker, receipt, released, main, sealed, late>>
    BY <1>2 DEF Killed, Unheard, podVars, BootstrapInv, TypeOK, PodTypes
  <2>4. FileStep(h, row.pc)
    BY <2>2, <2>3, FilesAlone
  <2>5. HelperStep(h, row.pc)
    BY <2>1, <2>2, <2>4, RowMoved DEF HelperStep
  <2>. QED  BY <2>5, HelperStepKept
<1>. QED  BY <1>1, <1>2

-----------------------------------------------------------------------------
(* The container and the Pod. *)

\* The helpers of a container that ends are no longer on their way anywhere, and no
\* answer is made up.
LEMMA AllKilled ==
    ASSUME BootstrapInv, KillAll
    PROVE  /\ helper' \in [Slot -> HelperRow]
           /\ \A k \in Slot : helper'[k].pc \in Ended /\ (helper'[k].pc = "ok" => helper[k].pc = "ok")
<1>1. PICK row : row = Begin("dead")
  OBVIOUS
<1>2. row \in HelperRow /\ row.pc = "dead"
  BY <1>1 DEF Begin, NoHelper, HelperRow, HelperPc
<1>3. helper' = [h \in Slot |-> IF helper[h].pc \notin Ended THEN row ELSE helper[h]]
  BY <1>1 DEF KillAll, Running
<1>4. helper \in [Slot -> HelperRow]
  BY DEF BootstrapInv, TypeOK
<1>. QED  BY <1>2, <1>3, <1>4 DEF Ended

\* The workload starts, or fails, by what is released.
LEMMA WaitForBootstrapKept ==
    ASSUME BootstrapInv, WaitForBootstrap, UNCHANGED Around
    PROVE  BootstrapInv'
<1>1. /\ helper' \in [Slot -> HelperRow]
      /\ \A k \in Slot : helper'[k].pc \in Ended /\ (helper'[k].pc = "ok" => helper[k].pc = "ok")
  BY AllKilled DEF WaitForBootstrap
<1>2. /\ UNCHANGED <<allow, lease, record, made, worker>>
      /\ UNCHANGED <<pod, files, scratch, marker, receipt, released, sealed, late>>
      /\ main' \in {"started", "failed"} /\ released # "none"
  BY DEF WaitForBootstrap, Around, networkVars, storeVars
<1>3. \A w \in Worker : worker[w].pc = "wait" => worker[w].slot \in Slot
  BY DEF BootstrapInv, TypeOK, WorkerRow, Slots
<1>4. TypeOK'
  BY <1>1, <1>2 DEF BootstrapInv, TypeOK, PodTypes, StoreTypes
<1>5. Slots' /\ Placed'
  BY <1>1, <1>2, <1>3 DEF BootstrapInv, Slots, Placed, Ended
<1>6. Sealed'
  BY <1>1, <1>2, <1>3 DEF BootstrapInv, Sealed, Heard
<1>7. Releasing' => Releasing
  BY <1>2 DEF Releasing
<1>8. Recorded' /\ Closed'
  BY <1>2, <1>7 DEF BootstrapInv, Recorded, Closed, Shut
<1>9. Chain'
  BY <1>1, <1>2 DEF BootstrapInv, Chain, Checked, Whole, Ended
<1>. QED  BY <1>4, <1>5, <1>6, <1>8, <1>9 DEF BootstrapInv

\* In the new Pod nothing has been done, and no worker has seen it.
LEMMA PodReplacedKept ==
    ASSUME BootstrapInv, PodReplaced, UNCHANGED Around
    PROVE  BootstrapInv'
<1>1. /\ helper' \in [Slot -> HelperRow]
      /\ \A k \in Slot : helper'[k].pc \in Ended /\ (helper'[k].pc = "ok" => helper[k].pc = "ok")
  BY AllKilled DEF PodReplaced
<1>2. /\ UNCHANGED <<allow, lease, record, made, worker, sealed, late>>
      /\ pod \in Nat /\ pod' = pod + 1 /\ files' = [f \in File |-> Absent] /\ scratch' = FALSE
      /\ marker' = "none" /\ receipt' = "none" /\ released' = "none" /\ main' = "waiting"
  BY DEF PodReplaced, Around, networkVars, storeVars, BootstrapInv, TypeOK, PodTypes
<1>3. \A w \in Worker : worker[w].pc = "wait" => worker[w].slot \in Slot
  BY DEF BootstrapInv, TypeOK, WorkerRow, Slots
<1>4. TypeOK'
  <2>1. files' \in [File -> [state : {"none", "torn", "ok"}, by : Slot \cup {"nobody"}]]
    BY <1>2 DEF Absent
  <2>2. scratch' \in BOOLEAN /\ late' \in BOOLEAN
    BY <1>2 DEF BootstrapInv, TypeOK, PodTypes
  <2>3. pod' \in Nat \ {0} /\ sealed' \subseteq Nat
    BY <1>2 DEF BootstrapInv, TypeOK, PodTypes
  <2>4. PodTypes'
    BY <1>2, <2>1, <2>2, <2>3 DEF PodTypes
  <2>. QED  BY <1>1, <1>2, <2>4 DEF BootstrapInv, TypeOK, StoreTypes
<1>5. Slots' /\ Placed'
  BY <1>1, <1>2, <1>3 DEF BootstrapInv, Slots, Placed, Ended
<1>6. Sealed'
  <2>1. \A w \in Worker : Heard(w)' => worker[w].pod # pod'
    BY <1>2 DEF BootstrapInv, Placed, Heard
  <2>. QED  BY <1>2, <2>1 DEF BootstrapInv, Sealed
<1>7. ~Releasing' /\ ~Checked'
  BY <1>1, <1>2 DEF Releasing, Checked, Ended
<1>8. Recorded' /\ Closed'
  BY <1>2, <1>7 DEF BootstrapInv, Recorded, Closed, Shut
<1>9. Chain'
  BY <1>1, <1>2, <1>7 DEF Chain, Ended
<1>. QED  BY <1>4, <1>5, <1>6, <1>8, <1>9 DEF BootstrapInv

-----------------------------------------------------------------------------
(* A step of one worker. *)

Waits == {"wait", "release_wait"}

\* A helper other than those of other workers may be started afresh, and one that
\* releases only by a worker that has closed the network.
FreshHelpers(w) ==
    /\ helper' \in [Slot -> HelperRow]
    /\ \A k \in Slot :
          \/ helper'[k] = helper[k]
          \/ /\ \A v \in Worker : v # w => worker[v].slot # k
             /\ helper'[k].pc \in {"free", "bootstrap", "release"}
             /\ helper'[k].pc = "release" => worker[w].pc \in ReleasePath

\* The lease is only taken for itself, and only its holder changes the record.
StoreStep(w) ==
    /\ StoreTypes'
    /\ lease' \in {lease, NoWorker, w}
    /\ record' # record => lease = w
    /\ record # NoPod => record' # NoPod
    /\ record' = NoPod \/ record' \in sealed
    /\ record # NoPod /\ Shut => Shut'

\* Where the worker may be after it.
RowStep(w, row) ==
    /\ row \in WorkerRow
    /\ row.pc \in Waits <=> row.slot # 0
    /\ row.slot # 0 => \A v \in Worker : v # w => worker[v].slot # row.slot
    /\ row.pc = "wait" => helper'[row.slot].pc \notin {"ok", "release", "fill_release"}
    /\ row.pc \notin {"idle", "observe"} => row.pod \in 1 .. pod
    /\ row.pc = "postflight" /\ row.pod = pod => pod \in sealed
    /\ row.pc = "record" => row.pod \in sealed
    /\ row.pc \in ClosePath => record' # NoPod
    /\ row.pc \in OpenPath /\ lease' = w => record' = NoPod
    /\ row.pc \in ReleasePath => Shut'

WorkerStep(w, row) ==
    /\ worker' = [worker EXCEPT ![w] = row] /\ UNCHANGED podVars
    /\ FreshHelpers(w) /\ StoreStep(w) /\ RowStep(w, row)

\* Every such step keeps the invariant.
LEMMA WorkerStepKept ==
    ASSUME BootstrapInv, NEW w \in Worker, NEW row, WorkerStep(w, row)
    PROVE  BootstrapInv'
<1>1. /\ worker' \in [Worker -> WorkerRow] /\ worker'[w] = row
      /\ \A v \in Worker : v # w => worker'[v] = worker[v]
  BY DEF BootstrapInv, TypeOK, WorkerStep, RowStep
<1>2. UNCHANGED <<pod, files, scratch, marker, receipt, released, main, sealed, late>>
  BY DEF WorkerStep, podVars
<1>3. ASSUME NEW v \in Worker, v # w, worker[v].slot # 0
      PROVE  worker[v].slot \in Slot /\ helper'[worker[v].slot] = helper[worker[v].slot]
  BY <1>3 DEF BootstrapInv, TypeOK, WorkerRow, WorkerStep, FreshHelpers
<1>4. TypeOK'
  <2>1. PodTypes'
    BY <1>2 DEF BootstrapInv, TypeOK, PodTypes
  <2>. QED  BY <1>1, <2>1 DEF TypeOK, WorkerStep, FreshHelpers, StoreStep
<1>5. Slots'
  <2>1. \A v \in Worker : (worker'[v].pc \in {"wait", "release_wait"}) <=> worker'[v].slot # 0
    BY <1>1 DEF BootstrapInv, Slots, WorkerStep, RowStep, Waits
  <2>2. \A u, v \in Worker : worker'[u].slot = worker'[v].slot /\ worker'[v].slot # 0 => u = v
    BY <1>1 DEF BootstrapInv, Slots, WorkerStep, RowStep
  <2>3. ASSUME NEW v \in Worker, worker'[v].pc = "wait"
        PROVE  helper'[worker'[v].slot].pc \notin {"release", "fill_release"}
    BY <1>1, <1>3, <2>3 DEF BootstrapInv, Slots, WorkerStep, RowStep
  <2>. QED  BY <2>1, <2>2, <2>3 DEF Slots
<1>6. Placed'
  BY <1>1, <1>2 DEF BootstrapInv, Placed, WorkerStep, RowStep
<1>7. Sealed'
  <2>1. ASSUME NEW v \in Worker, Heard(v)', worker'[v].pod = pod
        PROVE  pod \in sealed
    <3>1. CASE v = w
      BY <1>1, <2>1, <3>1 DEF Heard, WorkerStep, RowStep
    <3>2. CASE v # w
      BY <1>1, <1>3, <2>1, <3>2 DEF BootstrapInv, Sealed, Heard, Slots
    <3>. QED  BY <3>1, <3>2
  <2>2. \A v \in Worker : worker'[v].pc = "record" => worker'[v].pod \in sealed
    BY <1>1 DEF BootstrapInv, Sealed, WorkerStep, RowStep
  <2>3. record' = NoPod \/ record' \in sealed
    BY DEF WorkerStep, StoreStep
  <2>. QED  BY <1>2, <2>1, <2>2, <2>3 DEF BootstrapInv, Sealed
<1>8. Releasing' => Releasing \/ worker[w].pc \in ReleasePath
  BY <1>2 DEF Releasing, WorkerStep, FreshHelpers
<1>9. ReleasePath \subseteq ClosePath
  BY DEF ClosePath
<1>10. Recorded'
  <2>1. Releasing' => record' # NoPod
    BY <1>8, <1>9 DEF BootstrapInv, Recorded, WorkerStep, StoreStep
  <2>2. \A v \in Worker : worker'[v].pc \in ClosePath => record' # NoPod
    BY <1>1 DEF BootstrapInv, Recorded, WorkerStep, StoreStep, RowStep
  <2>3. ASSUME NEW v \in Worker, worker'[v].pc \in OpenPath, lease' = v
        PROVE  record' = NoPod
    <3>1. CASE v = w
      BY <1>1, <2>3, <3>1 DEF WorkerStep, RowStep
    <3>2. CASE v # w
      BY <1>1, <2>3, <3>2, NameAssumption DEF BootstrapInv, Recorded, WorkerStep, StoreStep
    <3>. QED  BY <3>1, <3>2
  <2>. QED  BY <2>1, <2>2, <2>3 DEF Recorded
<1>11. Closed'
  <2>1. Releasing \/ (\E v \in Worker : worker[v].pc \in ReleasePath) => Shut'
    BY <1>9 DEF BootstrapInv, Recorded, Closed, WorkerStep, StoreStep
  <2>2. ASSUME NEW v \in Worker, worker'[v].pc \in ReleasePath
        PROVE  Shut'
    BY <1>1, <2>1, <2>2 DEF WorkerStep, RowStep
  <2>. QED  BY <1>8, <2>1, <2>2 DEF Closed
<1>12. Chain'
  <2>1. \A k \in Slot : helper'[k].pc \in {"fill_release", "store", "fill_receipt", "mark", "fill_mark"}
                          => helper'[k] = helper[k]
    BY DEF WorkerStep, FreshHelpers
  <2>2. Checked' => Checked
    BY <1>2, <2>1 DEF Checked
  <2>3. Whole' <=> Whole
    BY <1>2 DEF Whole
  <2>. QED  BY <1>2, <2>1, <2>2, <2>3 DEF BootstrapInv, Chain
<1>. QED  BY <1>4, <1>5, <1>6, <1>7, <1>10, <1>11, <1>12 DEF BootstrapInv

\* Steps that neither start a helper nor end an exchange nor touch the record.
LEMMA MoveKept ==
    ASSUME BootstrapInv, NEW w \in Worker, NEW row \in WorkerRow,
           worker' = [worker EXCEPT ![w] = row], UNCHANGED helperVars, record' = record,
           StoreTypes', lease' \in {lease, NoWorker, w}, record # NoPod /\ Shut => Shut',
           row.slot = 0, row.pc \notin {"wait", "release_wait", "postflight"},
           row.pc \notin {"idle", "observe"} => row.pod \in 1 .. pod,
           row.pc = "record" => row.pod \in sealed,
           row.pc \in ClosePath => record # NoPod,
           row.pc \in OpenPath /\ lease' = w => record = NoPod,
           row.pc \in ReleasePath => Shut'
    PROVE  BootstrapInv'
<1>1. UNCHANGED podVars /\ helper' = helper
  BY DEF helperVars
<1>2. FreshHelpers(w)
  BY <1>1 DEF FreshHelpers, BootstrapInv, TypeOK
<1>3. StoreStep(w)
  BY DEF StoreStep, BootstrapInv, Sealed
<1>4. RowStep(w, row)
  BY DEF RowStep, Waits
<1>. QED  BY <1>1, <1>2, <1>3, <1>4, WorkerStepKept DEF WorkerStep

\* An attempt that fails: the lease goes back, the policy of the Pod stays as it is or goes.
LEMMA FailKept ==
    ASSUME BootstrapInv, NEW w \in Worker, Fail(w), UNCHANGED helperVars,
           made' = made, allow' = allow \/ allow' = [allow EXCEPT !.going = TRUE]
    PROVE  BootstrapInv'
<1>1. PICK row : row = Idle
  OBVIOUS
<1>2. row \in WorkerRow /\ row.pc = "idle" /\ row.slot = 0
  BY <1>1 DEF Idle, WorkerRow
<1>3. /\ worker' = [worker EXCEPT ![w] = row] /\ record' = record
      /\ lease' \in {lease, NoWorker}
  BY <1>1 DEF Fail
<1>4. allow \in [kind : {"none", "current", "legacy"}, uid : Nat, going : BOOLEAN, fenced : BOOLEAN]
  BY DEF BootstrapInv, TypeOK, StoreTypes
<1>5. /\ allow' \in [kind : {"none", "current", "legacy"}, uid : Nat, going : BOOLEAN, fenced : BOOLEAN]
      /\ allow'.kind = allow.kind /\ allow'.fenced = allow.fenced
  BY <1>4
<1>6. StoreTypes' /\ (Shut => Shut')
  BY <1>3, <1>5 DEF BootstrapInv, TypeOK, StoreTypes, Shut
<1>7. row.pc \notin OpenPath \cup ClosePath
  BY <1>2 DEF OpenPath, ClosePath, ReleasePath
<1>8. row.pc \notin ReleasePath
  BY <1>2 DEF ReleasePath
<1>. QED  BY <1>2, <1>3, <1>6, <1>7, <1>8, MoveKept

\* ... and with no change of the network.
LEMMA RefusedKept ==
    ASSUME BootstrapInv, NEW w \in Worker, Refused(w)
    PROVE  BootstrapInv'
  BY FailKept DEF Refused, networkVars

\* A worker goes on along its path, with what it has read of the allow policy.
Onward(w, to, uid) ==
    /\ to \in OpenPath \cup ClosePath /\ to \notin {"wait", "release_wait", "postflight"} /\ uid \in Nat
    /\ worker[w].slot = 0 /\ worker[w].pc \in OpenPath \cup ClosePath
    /\ to \in OpenPath => worker[w].pc \in OpenPath
    /\ to \in ClosePath => worker[w].pc \in ClosePath
    /\ to = "record" => worker[w].pod \in sealed
    /\ worker' = [worker EXCEPT ![w].pc = to, ![w].uid = uid]
    /\ UNCHANGED <<helperVars, storeVars>>

\* Such a step keeps the invariant, if it does not open the network behind a record.
LEMMA OnwardKept ==
    ASSUME BootstrapInv, NEW w \in Worker, NEW to, NEW uid, Onward(w, to, uid),
           StoreTypes', record # NoPod /\ Shut => Shut', to \in ReleasePath => Shut'
    PROVE  BootstrapInv'
<1>1. worker[w] \in WorkerRow /\ worker[w].pc \notin {"idle", "observe"}
  BY DEF BootstrapInv, TypeOK, Onward, OpenPath, ClosePath, ReleasePath
<1>2. PICK row : row = [worker[w] EXCEPT !.pc = to, !.uid = uid]
  OBVIOUS
<1>3. row \in WorkerRow /\ row.pc = to /\ row.slot = 0 /\ row.pod = worker[w].pod
  BY <1>1, <1>2 DEF WorkerRow, Onward
<1>4. worker' = [worker EXCEPT ![w] = row] /\ UNCHANGED helperVars /\ UNCHANGED <<lease, record>>
  BY <1>2 DEF Onward, storeVars
<1>5. row.pod \in 1 .. pod
  BY <1>1, <1>3 DEF BootstrapInv, Placed
<1>6. /\ row.pc \in ClosePath => record # NoPod
      /\ row.pc \in OpenPath /\ lease' = w => record = NoPod
  BY <1>3, <1>4 DEF BootstrapInv, Recorded, Onward
<1>7. /\ row.pc \notin {"wait", "release_wait", "postflight"}
      /\ row.pc = "record" => row.pod \in sealed
      /\ row.pc \in ReleasePath => Shut'
  BY <1>3 DEF Onward
<1>. QED  BY <1>3, <1>4, <1>5, <1>6, <1>7, MoveKept

\* Without a change of the network.
LEMMA ReadsKept ==
    ASSUME BootstrapInv, NEW w \in Worker, NEW to, NEW uid, Onward(w, to, uid), UNCHANGED <<allow, made>>,
           to \in ReleasePath => worker[w].pc \in ReleasePath \/ Shut
    PROVE  BootstrapInv'
<1>1. StoreTypes' /\ (Shut => Shut')
  BY DEF BootstrapInv, TypeOK, StoreTypes, Shut, Onward, storeVars
<1>2. to \in ReleasePath => Shut'
  BY <1>1 DEF BootstrapInv, Closed
<1>. QED  BY <1>1, <1>2, OnwardKept

\* Nobody has a slot off the two waits.
LEMMA NoSlot ==
    ASSUME BootstrapInv, NEW w \in Worker, worker[w].pc \notin {"wait", "release_wait"}
    PROVE  worker[w].slot = 0
  BY DEF BootstrapInv, Slots

\* A step that changes only the position goes onward with the UID it has.
LEMMA StepIsOnward ==
    ASSUME BootstrapInv, NEW w \in Worker, NEW to, Step(w, to), UNCHANGED <<helperVars, storeVars>>,
           worker[w].pc \notin {"wait", "release_wait"}, worker[w].pc \in OpenPath \cup ClosePath,
           to \in OpenPath \cup ClosePath, to \notin {"wait", "release_wait", "postflight"},
           to \in OpenPath => worker[w].pc \in OpenPath,
           to \in ClosePath => worker[w].pc \in ClosePath,
           to = "record" => worker[w].pod \in sealed
    PROVE  Onward(w, to, worker[w].uid)
<1>1. worker \in [Worker -> WorkerRow] /\ worker[w] \in WorkerRow
  BY DEF BootstrapInv, TypeOK
<1>2. worker[w].uid \in Nat
  BY <1>1 DEF WorkerRow
<1>3. [worker[w] EXCEPT !.pc = to] = [worker[w] EXCEPT !.pc = to, !.uid = worker[w].uid]
  BY <1>1 DEF WorkerRow
<1>4. worker' = [worker EXCEPT ![w].pc = to, ![w].uid = worker[w].uid]
  BY <1>3 DEF Step
<1>. QED  BY <1>2, <1>4, NoSlot DEF Onward

-----------------------------------------------------------------------------
(* The steps of create. *)

\* A claim takes the lease when nobody has it.
LEMMA ClaimKept ==
    ASSUME BootstrapInv, NEW w \in Worker, Claim(w)
    PROVE  BootstrapInv'
<1>1. worker[w] \in WorkerRow /\ worker[w].slot = 0
  BY NoSlot DEF Claim, On, BootstrapInv, TypeOK
<1>2. PICK row : row = [worker[w] EXCEPT !.pc = "observe"]
  OBVIOUS
<1>3. row \in WorkerRow /\ row.pc = "observe" /\ row.slot = 0
  BY <1>1, <1>2 DEF WorkerRow
<1>4. worker' = [worker EXCEPT ![w] = row] /\ UNCHANGED <<helperVars, allow, made, record>> /\ lease' = w
  BY <1>2 DEF Claim, Step, networkVars
<1>5. StoreTypes' /\ (Shut => Shut')
  BY <1>4 DEF BootstrapInv, TypeOK, StoreTypes, Shut
<1>6. row.pc \notin OpenPath \cup ClosePath /\ row.pc \notin ReleasePath
  BY <1>3 DEF OpenPath, ClosePath, ReleasePath
<1>. QED  BY <1>3, <1>4, <1>5, <1>6, MoveKept

\* The attempt chooses its path by the record.
LEMMA ObserveKept ==
    ASSUME BootstrapInv, NEW w \in Worker, Observe(w)
    PROVE  BootstrapInv'
<1>1. CASE Refused(w)
  BY <1>1, RefusedKept
<1>2. CASE ~Refused(w)
  <2>1. worker[w] \in WorkerRow /\ worker[w].slot = 0
    BY NoSlot DEF Observe, On, BootstrapInv, TypeOK
  <2>2. PICK to, b : to = (IF record = NoPod THEN "deny" ELSE "deny_again") /\ b = (main = "started")
    OBVIOUS
  <2>3. PICK row : row = [worker[w] EXCEPT !.pod = pod, !.ready = b, !.pc = to]
    OBVIOUS
  <2>4. b \in BOOLEAN
    BY <2>2
  <2>5. pod \in 1 .. pod /\ pod \in Nat /\ to \in OpenPath \cup ClosePath
    BY <2>2 DEF BootstrapInv, TypeOK, PodTypes, OpenPath, ClosePath
  <2>6. row \in WorkerRow /\ row.pc = to /\ row.slot = 0 /\ row.pod = pod
    BY <2>1, <2>3, <2>4, <2>5 DEF WorkerRow
  <2>7. worker' = [worker EXCEPT ![w] = row] /\ UNCHANGED <<helperVars, allow, made, record, lease>>
    BY <1>2, <2>2, <2>3 DEF Observe, networkVars, storeVars
  <2>8. StoreTypes' /\ (Shut => Shut')
    BY <2>7 DEF BootstrapInv, TypeOK, StoreTypes, Shut
  <2>9. /\ row.pc \in ClosePath => record # NoPod
        /\ row.pc \in OpenPath => record = NoPod
        /\ row.pc \notin ReleasePath /\ row.pc \notin {"wait", "release_wait", "postflight", "record"}
    BY <2>2, <2>6 DEF OpenPath, ClosePath, ReleasePath
  <2>. QED  BY <2>5, <2>6, <2>7, <2>8, <2>9, MoveKept
<1>. QED  BY <1>1, <1>2

\* The network: what is read, and what is changed of the policies.
LEMMA LookKept ==
    ASSUME BootstrapInv, NEW w \in Worker, EnsureDeny(w) \/ EnsureBootstrap(w) \/ GetAgain(w)
    PROVE  BootstrapInv'
<1>1. allow.uid \in Nat /\ allow.kind \in {"none", "current", "legacy"}
  BY DEF BootstrapInv, TypeOK, StoreTypes
<1>2. CASE EnsureDeny(w)
  <2>1. PICK to : /\ Step(w, to) /\ to \notin ReleasePath
                  /\ \/ to = "get_allow" /\ worker[w].pc = "deny"
                     \/ to = "get_again" /\ worker[w].pc = "deny_again"
    BY <1>2 DEF EnsureDeny, On, ReleasePath
  <2>2. UNCHANGED <<helperVars, storeVars, allow, made>>
    BY <1>2 DEF EnsureDeny
  <2>3. Onward(w, to, worker[w].uid)
    BY <2>1, <2>2, StepIsOnward DEF OpenPath, ClosePath, ReleasePath
  <2>. QED  BY <2>1, <2>2, <2>3, ReadsKept
<1>3. CASE EnsureBootstrap(w)
  <2>1. PICK to \in {"post", "verify_open", "delete_legacy"} :
           worker' = [worker EXCEPT ![w].uid = allow.uid, ![w].pc = to]
    BY <1>1, <1>3 DEF EnsureBootstrap
  <2>2. worker[w].pc = "get_allow" /\ UNCHANGED <<helperVars, storeVars, allow, made>>
    BY <1>3 DEF EnsureBootstrap, On, networkVars
  <2>3. worker' = [worker EXCEPT ![w].pc = to, ![w].uid = allow.uid]
    BY <2>1 DEF BootstrapInv, TypeOK, WorkerRow
  <2>4. Onward(w, to, allow.uid) /\ to \notin ReleasePath
    BY <1>1, <2>1, <2>2, <2>3, NoSlot DEF Onward, OpenPath, ClosePath, ReleasePath
  <2>. QED  BY <2>2, <2>4, ReadsKept
<1>4. CASE GetAgain(w)
  <2>1. PICK to \in {"await", "delete"} :
           worker' = [worker EXCEPT ![w].uid = allow.uid, ![w].pc = to]
    BY <1>4 DEF GetAgain
  <2>2. worker[w].pc = "get_again" /\ UNCHANGED <<helperVars, storeVars, allow, made>>
    BY <1>4 DEF GetAgain, On, networkVars
  <2>3. worker' = [worker EXCEPT ![w].pc = to, ![w].uid = allow.uid]
    BY <2>1 DEF BootstrapInv, TypeOK, WorkerRow
  <2>4. Onward(w, to, allow.uid) /\ to \notin ReleasePath
    BY <1>1, <2>1, <2>2, <2>3, NoSlot DEF Onward, OpenPath, ClosePath, ReleasePath
  <2>. QED  BY <2>2, <2>4, ReadsKept
<1>. QED  BY <1>2, <1>3, <1>4

\* A policy that is made while a receipt is on record is not its maker's by lease.
LEMMA PostAllowKept ==
    ASSUME BootstrapInv, NEW w \in Worker, PostAllow(w)
    PROVE  BootstrapInv'
<1>1. CASE allow.kind = "none"
  <2>1. /\ made' = made + 1 /\ made \in Nat /\ worker[w].pc = "post" /\ UNCHANGED <<helperVars, storeVars>>
        /\ worker' = [worker EXCEPT ![w].pc = "verify_open", ![w].uid = made + 1]
    BY <1>1 DEF PostAllow, On, BootstrapInv, TypeOK, StoreTypes
  <2>2. PICK b : b = (lease = w)
    OBVIOUS
  <2>3. b \in BOOLEAN /\ (record # NoPod => ~b)
    BY <2>1, <2>2 DEF BootstrapInv, Recorded, OpenPath
  <2>4. allow' = Policy("current", made + 1, b)
    BY <1>1, <2>2 DEF PostAllow
  <2>5. /\ allow' \in [kind : {"none", "current", "legacy"}, uid : Nat, going : BOOLEAN, fenced : BOOLEAN]
        /\ allow'.fenced = b
    BY <2>1, <2>3, <2>4 DEF Policy
  <2>6. StoreTypes' /\ (record # NoPod => Shut')
    BY <2>1, <2>3, <2>5 DEF StoreTypes, Shut, BootstrapInv, TypeOK, storeVars
  <2>7. Onward(w, "verify_open", made + 1) /\ "verify_open" \notin ReleasePath
    BY <2>1, NoSlot DEF Onward, OpenPath, ClosePath, ReleasePath
  <2>. QED  BY <2>6, <2>7, OnwardKept
<1>2. CASE Refused(w)
  BY <1>2, RefusedKept
<1>. QED  BY <1>1, <1>2 DEF PostAllow

\* A deletion that was asked for leaves the policy in place for now.
LEMMA DeletesKept ==
    ASSUME BootstrapInv, NEW w \in Worker, DeleteLegacy(w) \/ DeleteAllow(w)
    PROVE  BootstrapInv'
<1>1. CASE Refused(w)
  BY <1>1, RefusedKept
<1>2. CASE ~Refused(w)
  <2>1. PICK to : /\ Step(w, to) /\ allow' = [allow EXCEPT !.going = TRUE]
                  /\ UNCHANGED <<helperVars, storeVars, made>>
                  /\ \/ to = "await_legacy" /\ worker[w].pc = "delete_legacy"
                     \/ to = "await" /\ worker[w].pc = "delete"
    BY <1>2 DEF DeleteLegacy, DeleteAllow, Deletes, On
  <2>2. allow \in [kind : {"none", "current", "legacy"}, uid : Nat, going : BOOLEAN, fenced : BOOLEAN]
    BY DEF BootstrapInv, TypeOK, StoreTypes
  <2>3. /\ allow' \in [kind : {"none", "current", "legacy"}, uid : Nat, going : BOOLEAN, fenced : BOOLEAN]
        /\ allow'.kind = allow.kind /\ allow'.fenced = allow.fenced
    BY <2>1, <2>2
  <2>4. StoreTypes' /\ (Shut => Shut')
    BY <2>1, <2>3 DEF BootstrapInv, TypeOK, StoreTypes, Shut, storeVars
  <2>5. Onward(w, to, worker[w].uid) /\ to \notin ReleasePath
    BY <2>1, StepIsOnward DEF OpenPath, ClosePath, ReleasePath
  <2>. QED  BY <2>4, <2>5, OnwardKept
<1>. QED  BY <1>1, <1>2

\* Prepare takes its policy back.
LEMMA UndoPrepareKept ==
    ASSUME BootstrapInv, NEW w \in Worker, UndoPrepare(w)
    PROVE  BootstrapInv'
  BY FailKept DEF UndoPrepare

\* The looks that decide how a worker goes on: at the policies, at the owner of the
\* Pod, at the container.
LEMMA DecisionKept ==
    ASSUME BootstrapInv, NEW w \in Worker,
           \/ PollLegacy(w) \/ PollAllow(w) \/ VerifyOpen(w) \/ VerifyClosed(w)
           \/ Preflight(w) \/ Postflight(w) \/ Ready(w)
    PROVE  BootstrapInv'
<1>1. CASE Refused(w)
  BY <1>1, RefusedKept
<1>2. CASE ~Refused(w)
  <2>1. PICK to : /\ Reads(w, to)
                  /\ \/ worker[w].pc = "await_legacy" /\ to = "post"
                     \/ worker[w].pc = "await" /\ to = "verify_closed"
                     \/ worker[w].pc = "verify_open" /\ to \in {"preflight", "undo"}
                     \/ worker[w].pc = "verify_closed" /\ to \in {"bind", "release_preflight"} /\ allow.kind = "none"
                     \/ worker[w].pc = "preflight" /\ to = "exec"
                     \/ worker[w].pc = "release_preflight" /\ to = "release_exec"
                     \/ worker[w].pc = "postflight" /\ to = "record" /\ pod = worker[w].pod
                     \/ worker[w].pc = "release_postflight" /\ to = "ready"
                     \/ worker[w].pc = "ready" /\ to = "bind"
    <3>1. CASE PollLegacy(w) \/ PollAllow(w)
      BY <1>2, <3>1 DEF PollLegacy, PollAllow, On
    <3>2. CASE VerifyOpen(w)
      BY <1>2, <3>2 DEF VerifyOpen, On
    <3>3. CASE VerifyClosed(w)
      BY <1>2, <3>3 DEF VerifyClosed, verifyOwnedSet, On
    <3>4. CASE Preflight(w)
      BY <1>2, <3>4 DEF Preflight, On
    <3>5. CASE Postflight(w)
      BY <1>2, <3>5 DEF Postflight, VerifyPodOwner, On
    <3>6. CASE Ready(w)
      BY <1>2, <3>6 DEF Ready, On
    <3>. QED  BY <3>1, <3>2, <3>3, <3>4, <3>5, <3>6
  <2>2. Step(w, to) /\ UNCHANGED <<helperVars, storeVars, allow, made>>
    BY <2>1 DEF Reads, networkVars
  <2>3. to = "record" => worker[w].pod \in sealed
    BY <2>1 DEF BootstrapInv, Sealed, Heard
  <2>4. Onward(w, to, worker[w].uid)
    BY <2>1, <2>2, <2>3, StepIsOnward DEF OpenPath, ClosePath, ReleasePath
  <2>5. to \in ReleasePath => worker[w].pc \in ReleasePath \/ Shut
    BY <2>1 DEF ReleasePath, Shut
  <2>. QED  BY <2>2, <2>4, <2>5, ReadsKept
<1>. QED  BY <1>1, <1>2

\* The end of an attempt: it fails, gives up, has lost its lease, or is complete.
LEMMA GivenUpKept ==
    ASSUME BootstrapInv, NEW w \in Worker,
           \/ itemSourceCIDRs(w) \/ ValidateSourceManifest(w) \/ GiveUp(w) \/ Notices(w)
    PROVE  BootstrapInv'
  BY RefusedKept DEF itemSourceCIDRs, ValidateSourceManifest, GiveUp, Notices

\* The create completes under the lease.
LEMMA CompleteKept ==
    ASSUME BootstrapInv, NEW w \in Worker, Complete(w)
    PROVE  BootstrapInv'
<1>1. CASE Refused(w)
  BY <1>1, RefusedKept
<1>2. CASE ~Refused(w)
  <2>1. PICK row : row = Idle
    OBVIOUS
  <2>2. row \in WorkerRow /\ row.pc = "idle" /\ row.slot = 0
    BY <2>1 DEF Idle, WorkerRow
  <2>3. worker' = [worker EXCEPT ![w] = row] /\ lease' = NoWorker /\ UNCHANGED <<helperVars, allow, made, record>>
    BY <1>2, <2>1 DEF Complete, networkVars
  <2>4. StoreTypes' /\ (Shut => Shut')
    BY <2>3 DEF BootstrapInv, TypeOK, StoreTypes, Shut
  <2>5. row.pc \notin OpenPath \cup ClosePath /\ row.pc \notin ReleasePath
    BY <2>2 DEF OpenPath, ClosePath, ReleasePath
  <2>. QED  BY <2>2, <2>3, <2>4, <2>5, MoveKept
<1>. QED  BY <1>1, <1>2

\* The receipt is recorded by the holder of the lease, for a Pod that is sealed.
LEMMA RecordSourcesKept ==
    ASSUME BootstrapInv, NEW w \in Worker, RecordSources(w)
    PROVE  BootstrapInv'
<1>1. CASE Refused(w)
  BY <1>1, RefusedKept
<1>2. CASE ~Refused(w)
  <2>1. /\ worker[w] \in WorkerRow /\ worker[w].slot = 0 /\ worker[w].pc = "record"
        /\ worker[w].pod \in 1 .. pod /\ worker[w].pod \in sealed /\ worker[w].pod \in Nat
    BY NoSlot DEF RecordSources, On, BootstrapInv, TypeOK, PodTypes, Placed, Sealed
  <2>2. PICK row : row = [worker[w] EXCEPT !.pc = "deny_again"]
    OBVIOUS
  <2>3. row \in WorkerRow /\ row.pc = "deny_again" /\ row.slot = 0 /\ row.pod = worker[w].pod
    BY <2>1, <2>2 DEF WorkerRow, ClosePath
  <2>4. /\ worker' = [worker EXCEPT ![w] = row] /\ UNCHANGED <<podVars, helper, allow, made, lease>>
        /\ lease = w /\ record' = worker[w].pod /\ record' # NoPod
    BY <1>2, <2>1, <2>2, NameAssumption DEF RecordSources, Step, helperVars, networkVars
  <2>5. FreshHelpers(w)
    BY <2>4 DEF FreshHelpers, BootstrapInv, TypeOK
  <2>6. StoreStep(w)
    <3>1. StoreTypes' /\ (Shut => Shut')
      BY <2>1, <2>4 DEF BootstrapInv, TypeOK, StoreTypes, Shut
    <3>. QED  BY <2>1, <2>4, <3>1 DEF StoreStep
  <2>7. RowStep(w, row)
    BY <2>1, <2>3, <2>4 DEF RowStep, Waits, OpenPath, ReleasePath
  <2>. QED  BY <2>4, <2>5, <2>6, <2>7, WorkerStepKept DEF WorkerStep
<1>. QED  BY <1>1, <1>2

-----------------------------------------------------------------------------
(* An exchange with a helper. *)

\* An exec starts a helper in a slot nobody waits for.
LEMMA ExecKept ==
    ASSUME BootstrapInv, NEW w \in Worker, Exec(w)
    PROVE  BootstrapInv'
<1>1. CASE Refused(w)
  BY <1>1, RefusedKept
<1>2. CASE ~Refused(w)
  <2>1. PICK op, next :
           /\ \/ op = "bootstrap" /\ next = "wait" /\ worker[w].pc = "exec"
              \/ op = "release" /\ next = "release_wait" /\ worker[w].pc = "release_exec"
           /\ Start(w, op, next)
    BY DEF Exec, On
  <2>2. PICK h \in Slot :
           /\ \A v \in Worker : worker[v].slot # h
           /\ helper' = [helper EXCEPT ![h] = Begin(op)]
           /\ worker' = [worker EXCEPT ![w].pc = next, ![w].slot = h]
           /\ UNCHANGED <<podVars, kills, networkVars, storeVars>>
    BY <1>2, <2>1 DEF Start
  <2>3. worker[w] \in WorkerRow /\ worker[w].pod \in 1 .. pod
    BY <2>1 DEF BootstrapInv, TypeOK, Placed
  <2>4. PICK row, new : row = [worker[w] EXCEPT !.pc = next, !.slot = h] /\ new = Begin(op)
    OBVIOUS
  <2>5. row \in WorkerRow /\ row.pc = next /\ row.slot = h /\ row.pod = worker[w].pod
    BY <2>1, <2>3, <2>4 DEF WorkerRow, OpenPath, ClosePath, ReleasePath
  <2>6. new \in HelperRow /\ new.pc = op
    BY <2>1, <2>4 DEF Begin, NoHelper, HelperRow, HelperPc
  <2>7. /\ worker' = [worker EXCEPT ![w] = row] /\ helper' = [helper EXCEPT ![h] = new]
        /\ UNCHANGED <<podVars, allow, made, lease, record>>
    BY <2>2, <2>4 DEF networkVars, storeVars
  <2>8. helper' \in [Slot -> HelperRow] /\ helper'[h].pc = op /\ \A k \in Slot : k # h => helper'[k] = helper[k]
    BY <2>6, <2>7, RowMoved
  <2>9. FreshHelpers(w)
    BY <2>1, <2>2, <2>8 DEF FreshHelpers, ReleasePath
  <2>10. StoreTypes' /\ (Shut => Shut')
    BY <2>7 DEF BootstrapInv, TypeOK, StoreTypes, Shut
  <2>11. StoreStep(w)
    BY <2>7, <2>10 DEF StoreStep, BootstrapInv, Sealed
  <2>12. /\ next \in ClosePath => record # NoPod
         /\ next \in OpenPath /\ lease = w => record = NoPod
         /\ next \in ReleasePath => Shut
    BY <2>1 DEF BootstrapInv, Recorded, Closed, OpenPath, ClosePath, ReleasePath
  <2>13. RowStep(w, row)
    BY <2>1, <2>2, <2>3, <2>5, <2>7, <2>8, <2>10, <2>12, NameAssumption DEF RowStep, Waits
  <2>. QED  BY <2>7, <2>9, <2>11, <2>13, WorkerStepKept DEF WorkerStep
<1>. QED  BY <1>1, <1>2 DEF Exec, Start

\* The answer of its own helper: ok to a bootstrap means that the Pod is sealed.
LEMMA AnswerKept ==
    ASSUME BootstrapInv, NEW w \in Worker, Answer(w)
    PROVE  BootstrapInv'
<1>1. PICK h : h = worker[w].slot
  OBVIOUS
<1>2. /\ h \in Slot /\ worker[w] \in WorkerRow /\ worker[w].pc \in Waits /\ worker[w].pod \in 1 .. pod
      /\ \A v \in Worker : v # w => worker[v].slot # h
  BY <1>1 DEF Answer, BootstrapInv, TypeOK, WorkerRow, Slots, Placed, Waits
<1>3. PICK new : new = NoHelper
  OBVIOUS
<1>4. new \in HelperRow /\ new.pc = "free"
  BY <1>3 DEF NoHelper, HelperRow, HelperPc
<1>5. helper' = [helper EXCEPT ![h] = new] /\ UNCHANGED <<podVars, allow, made>>
  BY <1>1, <1>3 DEF Answer, networkVars
<1>6. helper' \in [Slot -> HelperRow] /\ helper'[h].pc = "free" /\ \A k \in Slot : k # h => helper'[k] = helper[k]
  BY <1>2, <1>4, <1>5, RowMoved
<1>7. FreshHelpers(w)
  BY <1>2, <1>6 DEF FreshHelpers
<1>8. CASE helper[h].pc = "ok"
  <2>1. PICK to : to = IF worker[w].pc = "wait" THEN "postflight" ELSE "release_postflight"
    OBVIOUS
  <2>2. PICK row : row = [worker[w] EXCEPT !.slot = 0, !.pc = to]
    OBVIOUS
  <2>3. row \in WorkerRow /\ row.pc = to /\ row.slot = 0 /\ row.pod = worker[w].pod
    BY <1>2, <2>1, <2>2 DEF WorkerRow, OpenPath, ClosePath, ReleasePath
  <2>4. worker' = [worker EXCEPT ![w] = row] /\ UNCHANGED <<lease, record>>
    BY <1>1, <1>8, <2>1, <2>2 DEF Answer, DecodeResponse, On, storeVars
  <2>5. StoreTypes' /\ (Shut => Shut')
    BY <1>5, <2>4 DEF BootstrapInv, TypeOK, StoreTypes, Shut
  <2>6. StoreStep(w)
    BY <2>4, <2>5 DEF StoreStep, BootstrapInv, Sealed
  <2>7. to = "postflight" /\ worker[w].pod = pod => pod \in sealed
    BY <1>1, <1>8, <2>1 DEF BootstrapInv, Sealed, Heard
  <2>8. /\ to \in ClosePath => record # NoPod
        /\ to \in OpenPath /\ lease = w => record = NoPod
        /\ to \in ReleasePath => Shut
    BY <1>2, <2>1 DEF BootstrapInv, Recorded, Closed, OpenPath, ClosePath, ReleasePath, Waits
  <2>9. RowStep(w, row)
    BY <1>2, <2>1, <2>3, <2>4, <2>5, <2>7, <2>8 DEF RowStep, Waits
  <2>. QED  BY <1>5, <1>7, <2>4, <2>6, <2>9, WorkerStepKept DEF WorkerStep
<1>9. CASE helper[h].pc # "ok"
  <2>1. Fail(w)
    BY <1>1, <1>9 DEF Answer, DecodeResponse
  <2>2. PICK row : row = Idle
    OBVIOUS
  <2>3. row \in WorkerRow /\ row.pc = "idle" /\ row.slot = 0
    BY <2>2 DEF Idle, WorkerRow
  <2>4. /\ worker' = [worker EXCEPT ![w] = row] /\ record' = record /\ lease' \in {lease, NoWorker}
    BY <2>1, <2>2 DEF Fail
  <2>5. StoreTypes' /\ (Shut => Shut')
    BY <1>5, <2>4 DEF BootstrapInv, TypeOK, StoreTypes, Shut
  <2>6. StoreStep(w)
    BY <2>4, <2>5 DEF StoreStep, BootstrapInv, Sealed
  <2>7. RowStep(w, row)
    BY <2>3 DEF RowStep, Waits, OpenPath, ClosePath, ReleasePath
  <2>. QED  BY <1>5, <1>7, <2>4, <2>6, <2>7, WorkerStepKept DEF WorkerStep
<1>. QED  BY <1>8, <1>9

-----------------------------------------------------------------------------
(* The steps of others. *)

\* A deletion ends, a policy of others comes or goes, the lease ends.
LEMMA ElsewhereKept ==
    ASSUME BootstrapInv, AllowGone \/ Foreign \/ LeaseLost
    PROVE  BootstrapInv'
<1>1. UNCHANGED <<helperVars, record, made, worker>> /\ lease' \in {lease, NoWorker}
  BY DEF AllowGone, Foreign, LeaseLost, storeVars, networkVars
<1>2. UNCHANGED <<pod, files, scratch, marker, receipt, released, main, sealed, late, helper>>
  BY <1>1 DEF helperVars, podVars
<1>3. allow' = allow \/ allow' = NoPolicy
  BY DEF AllowGone, Foreign, LeaseLost, networkVars
<1>4. /\ allow' \in [kind : {"none", "current", "legacy"}, uid : Nat, going : BOOLEAN, fenced : BOOLEAN]
      /\ Shut => Shut'
  <2>1. CASE allow' = allow
    BY <2>1 DEF BootstrapInv, TypeOK, StoreTypes, Shut
  <2>2. CASE allow' = NoPolicy
    <3>1. /\ NoPolicy \in [kind : {"none", "current", "legacy"}, uid : Nat, going : BOOLEAN, fenced : BOOLEAN]
          /\ NoPolicy.kind = "none"
      BY DEF NoPolicy
    <3>. QED  BY <2>2, <3>1 DEF Shut
  <2>. QED  BY <1>3, <2>1, <2>2
<1>5. PodTypes'
  BY <1>2 DEF BootstrapInv, TypeOK, PodTypes
<1>6. TypeOK'
  BY <1>1, <1>2, <1>4, <1>5 DEF BootstrapInv, TypeOK, StoreTypes
<1>7. Slots' /\ Placed'
  BY <1>1, <1>2 DEF BootstrapInv, Slots, Placed
<1>8. Sealed'
  BY <1>1, <1>2 DEF BootstrapInv, Sealed, Heard
<1>9. Recorded'
  BY <1>1, <1>2, NameAssumption DEF BootstrapInv, Recorded, Releasing
<1>10. Closed'
  BY <1>1, <1>2, <1>4 DEF BootstrapInv, Closed, Releasing
<1>11. Chain'
  BY <1>2 DEF BootstrapInv, Chain, Checked, Whole
<1>. QED  BY <1>6, <1>7, <1>8, <1>9, <1>10, <1>11 DEF BootstrapInv

-----------------------------------------------------------------------------
(* The theorems. *)

\* The invariant holds before anything has happened.
LEMMA BootstrapInit == Init => BootstrapInv
<1>. SUFFICES ASSUME Init PROVE BootstrapInv
  OBVIOUS
<1>1. /\ pod = 1 /\ files = [f \in File |-> Absent] /\ scratch = FALSE /\ marker = "none" /\ receipt = "none"
      /\ released = "none" /\ main = "waiting" /\ helper = [h \in Slot |-> NoHelper] /\ sealed = {} /\ late = FALSE
  BY DEF Init, HelperInit
<1>2. lease = NoWorker /\ record = NoPod /\ made = 1 /\ worker = [w \in Worker |-> Idle]
  BY DEF Init
<1>3. NoHelper \in HelperRow /\ NoHelper.pc = "free"
  BY DEF NoHelper, HelperRow, HelperPc
<1>4. Idle \in WorkerRow /\ Idle.pc = "idle" /\ Idle.slot = 0
  BY DEF Idle, WorkerRow
<1>5. \A h \in Slot : helper[h].pc = "free"
  BY <1>1, <1>3
<1>6. \A w \in Worker : worker[w].pc = "idle" /\ worker[w].slot = 0
  BY <1>2, <1>4
<1>7. TypeOK
  <2>1. Absent \in [state : {"none", "torn", "ok"}, by : Slot \cup {"nobody"}]
    BY DEF Absent
  <2>2. PodTypes
    <3>1. scratch \in BOOLEAN /\ late \in BOOLEAN
      BY <1>1
    <3>2. files \in [File -> [state : {"none", "torn", "ok"}, by : Slot \cup {"nobody"}]]
      BY <1>1, <2>1
    <3>. QED  BY <1>1, <3>1, <3>2 DEF PodTypes
  <2>3. allow \in [kind : {"none", "current", "legacy"}, uid : Nat, going : BOOLEAN, fenced : BOOLEAN]
    <3>1. /\ NoPolicy \in [kind : {"none", "current", "legacy"}, uid : Nat, going : BOOLEAN, fenced : BOOLEAN]
          /\ Policy("legacy", 1, TRUE)
               \in [kind : {"none", "current", "legacy"}, uid : Nat, going : BOOLEAN, fenced : BOOLEAN]
      BY DEF NoPolicy, Policy
    <3>. QED  BY <3>1 DEF Init
  <2>4. StoreTypes
    BY <1>2, <2>3 DEF StoreTypes
  <2>5. helper \in [Slot -> HelperRow] /\ worker \in [Worker -> WorkerRow]
    BY <1>1, <1>2, <1>3, <1>4
  <2>. QED  BY <2>2, <2>4, <2>5 DEF TypeOK
<1>8. Slots /\ Placed /\ Sealed
  BY <1>1, <1>2, <1>6 DEF Slots, Placed, Sealed, Heard
<1>9. Recorded /\ Closed
  BY <1>1, <1>5, <1>6 DEF Recorded, Closed, Releasing, OpenPath, ClosePath, ReleasePath
<1>10. Chain
  BY <1>1, <1>5 DEF Chain, Checked
<1>. QED  BY <1>7, <1>8, <1>9, <1>10 DEF BootstrapInv

\* Every step keeps it.
LEMMA BootstrapStep == BootstrapInv /\ [Next]_vars => BootstrapInv'
<1>. SUFFICES ASSUME BootstrapInv, [Next]_vars PROVE BootstrapInv'
  OBVIOUS
<1>1. ASSUME NEW w \in Worker, WorkerSteps(w) PROVE BootstrapInv'
  BY <1>1, ClaimKept, ObserveKept, LookKept, PostAllowKept, DeletesKept, UndoPrepareKept, DecisionKept,
     GivenUpKept, CompleteKept, RecordSourcesKept, ExecKept, AnswerKept DEF WorkerSteps
<1>2. ASSUME NEW h \in Slot, Unheard(h) PROVE BootstrapInv'
  BY <1>2, EndedKept DEF Unheard, Around
<1>3. CASE PodSteps /\ UNCHANGED <<networkVars, storeVars, worker>>
  <2>1. UNCHANGED Around
    BY <1>3 DEF Around
  <2>2. ASSUME NEW h \in Slot, ServeBootstrap(h) PROVE BootstrapInv'
    BY <2>1, <2>2, OpenDestinationKept, adoptKept, resetKept, ResetEndsKept, MakeScratchKept, FetchKept,
       CreateFileKept, FillFileKept, VerifyKept, MarkerKept, StoreKept DEF ServeBootstrap
  <2>3. ASSUME NEW h \in Slot, ServeRelease(h) \/ DecodeRequestFails(h) \/ Killed(h) PROVE BootstrapInv'
    BY <2>1, <2>3, ReleaseKept, EndedKept
  <2>. QED  BY <1>3, <2>1, <2>2, <2>3, WaitForBootstrapKept, PodReplacedKept DEF PodSteps
<1>4. CASE AllowGone \/ Foreign \/ LeaseLost
  BY <1>4, ElsewhereKept
<1>5. CASE UNCHANGED vars
  <2>1. UNCHANGED <<pod, files, scratch, marker, receipt, released, main, sealed, late, helper>>
    BY <1>5 DEF vars, helperVars, podVars
  <2>2. UNCHANGED <<lease, record, allow, made, worker>>
    BY <1>5 DEF vars, networkVars, storeVars
  <2>3. TypeOK'
    BY <2>1, <2>2 DEF BootstrapInv, TypeOK, PodTypes, StoreTypes
  <2>4. Slots' /\ Placed' /\ Sealed'
    BY <2>1, <2>2 DEF BootstrapInv, Slots, Placed, Sealed, Heard
  <2>5. Recorded' /\ Closed'
    BY <2>1, <2>2 DEF BootstrapInv, Recorded, Closed, Releasing, Shut
  <2>6. Chain'
    BY <2>1 DEF BootstrapInv, Chain, Checked, Whole
  <2>. QED  BY <2>3, <2>4, <2>5, <2>6 DEF BootstrapInv
<1>. QED  BY <1>1, <1>2, <1>3, <1>4, <1>5 DEF Next

\* The types, the ownership of helpers, and the order receipt, record, closed network,
\* release hold in every state, for all workers, helpers and Pods there may be.
THEOREM BootstrapInvariant == Spec => []BootstrapInv
  BY BootstrapInit, BootstrapStep, PTL DEF Spec

\* SourcesAreWhole: a workload starts only with every file of its sources, unless an
\* abandoned helper removed one after the check; from the chain release, receipt,
\* marker, check.
THEOREM SourcesWhole == Spec => []SourcesAreWhole
<1>1. BootstrapInv => SourcesAreWhole
  BY DEF BootstrapInv, Chain, Whole, Checked, SourcesAreWhole
<1>. QED  BY <1>1, BootstrapInvariant, PTL

\* EgressIsClosed: no allow policy that was made under the lease exists while the
\* workload runs, since a release follows a record and a record ends every lease
\* that could still open the network.
THEOREM EgressClosed == Spec => []EgressIsClosed
<1>1. BootstrapInv => EgressIsClosed
  BY DEF BootstrapInv, Chain, Closed, Releasing, Shut, EgressIsClosed
<1>. QED  BY <1>1, BootstrapInvariant, PTL

\* RecordIsTrue: the Pod on record is one whose receipt a helper stored whole, and
\* nothing is released without a record.
THEOREM RecordTrue == Spec => []RecordIsTrue
<1>1. BootstrapInv => RecordIsTrue
  BY DEF BootstrapInv, Sealed, Recorded, Releasing, RecordIsTrue
<1>. QED  BY <1>1, BootstrapInvariant, PTL
=============================================================================
