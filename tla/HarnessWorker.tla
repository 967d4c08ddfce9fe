---------------------------- MODULE HarnessWorker ----------------------------
(***************************************************************************)
(* One run of blazn-harness-worker: the checks before the start, the       *)
(* harness process with its descendants, the end of the run by itself, by  *)
(* its timeout, by a signal or by the adapter, the clean-up of the process *)
(* tree, and the classification of the result.  Descendants may leave the  *)
(* process group and fork while /proc is read.                             *)
(***************************************************************************)
EXTENDS HermesAdapter

CONSTANTS Rewritten,     \* the artifact files that are written again
          MaxHops,       \* how often a descendant replaces itself by a fork
          MaxRounds      \* the rounds of cleanup before its deadline

ASSUME WorkerAssumption == Rewritten \subseteq Role /\ MaxHops \in Nat /\ MaxRounds \in Nat \ {0}

VARIABLES at,         \* where Runtime.Run is
          given,      \* what is in order before the start
          scope,      \* the protected scope file equals the assignment's scope
          leader,     \* the harness process: none, alive, or its exit code
          other,      \* a descendant: none, child (in its process group), or
                      \* outside of it: writer (it holds stdout), daemon
          hops,       \* forks of the descendant outside so far
          scan,       \* a reading of /proc: off, clean, hopped (a fork meanwhile)
          quiet,      \* the rounds that found nothing
          fooled,     \* history: those of them that missed a live process
          round,
          process,    \* the ProcessResult
          finalized,  \* Adapter.Finalize returned nil
          result      \* the Result

treeVars == <<leader, other, hops>>
cleanupVars == <<scan, quiet, fooled, round>>
runVars == <<at, given, scope, process, finalized, result>>
workerVars == <<adapterVars, treeVars, cleanupVars, runVars>>

Checks == {"launch", "assignment", "executable", "token", "spec", "tracking"}
NoProcess == [exited |-> FALSE, code |-> 0, canceled |-> FALSE, timedOut |-> FALSE,
              clean |-> FALSE, treeKilled |-> FALSE, confirmed |-> TRUE, run |-> FALSE]
NoResult == [status |-> "none", artifacts |-> NoFiles]

WorkerInit ==
  /\ AdapterInit
  /\ at = "start" /\ given \in {Checks} \cup {Checks \ {c} : c \in Checks}
  /\ scope = TRUE
  /\ leader = "none" /\ other = "none" /\ hops = 0
  /\ scan = "off" /\ quiet = 0 /\ fooled = 0 /\ round = 0
  /\ process = NoProcess /\ finalized = FALSE /\ result = NoResult

Go(pc) == at' = pc
Status(s) == result' = [NoResult EXCEPT !.status = s]
Kept == UNCHANGED <<adapterVars, treeVars, cleanupVars>>

-----------------------------------------------------------------------------
(* Before the start *)

\* parseExecution, NewRuntime: the worker's own arguments.
NewRuntime == "launch" \in given

\* DecodeAssignmentLine: one line, and nothing after it.
DecodeAssignmentLine == "assignment" \in given

\* ValidateWorkloadScope: the protected file holds the same scope, not expired.
ValidateWorkloadScope == scope

\* VerifyExecutable: the reviewed executable has the digest of the scope.
VerifyExecutable == "executable" \in given

\* OpenListenerToken: the protected token has the fingerprint of the scope.
OpenListenerToken == "token" \in given

\* validateProcessSpec: what the adapter prepared is within the launch boundary.
validateProcessSpec == "spec" \in given

\* prepareDescendantTracking: the worker is a subreaper and can read /proc.
prepareDescendantTracking == "tracking" \in given

\* The errors that are answered before anything was prepared.
Refuse ==
  /\ at = "start"
  /\ ~(NewRuntime /\ DecodeAssignmentLine /\ ValidateWorkloadScope /\ VerifyExecutable
       /\ OpenListenerToken)
  /\ Status(IF NewRuntime /\ DecodeAssignmentLine THEN "failed" ELSE "error")
  /\ Go("respond")
  /\ UNCHANGED <<given, scope, process, finalized>> /\ Kept

\* Prepare, and the start of the process, unless the specification is refused
\* or the process tree could not be followed.
Launch ==
  /\ at = "start"
  /\ NewRuntime /\ DecodeAssignmentLine /\ ValidateWorkloadScope /\ VerifyExecutable
  /\ OpenListenerToken
  /\ Prepare
  /\ IF validateProcessSpec /\ prepareDescendantTracking
     THEN leader' = "alive" /\ copier' = "reading" /\ Go("running")
          /\ process' = [process EXCEPT !.run = TRUE]
     ELSE Go("finalize") /\ UNCHANGED <<leader, copier, process>>
  /\ UNCHANGED <<written, holding, pending, recorded, terminal, failed, queue, closed, outputErr,
                 output, abort, ctx, files, other, hops, cleanupVars, given, scope, finalized,
                 result>>

-----------------------------------------------------------------------------
(* The processes *)

Alive == leader = "alive" \/ other # "none"
Writers == leader = "alive" \/ other \in {"child", "writer"}
Stray == other \in {"writer", "daemon"}

\* An artifact file is written, or written again after it was announced.
WritesFile ==
  /\ Alive
  /\ \E r \in Role :
       /\ files[r] = 0 \/ (r \in Rewritten /\ files[r] = 1 /\ recorded[r] = 1)
       /\ files' = [files EXCEPT ![r] = @ + 1]
  /\ UNCHANGED <<normalizerVars, deliveryVars, abort, ctx, treeVars, cleanupVars, runVars>>

Forks ==
  /\ leader = "alive" /\ other = "none" /\ hops = 0
  /\ other' \in {"child", "writer", "daemon"} /\ hops' = 1
  /\ UNCHANGED <<adapterVars, leader, cleanupVars, runVars>>

\* A stray forks and exits: its successor may escape a reading that is under way.
Hops ==
  /\ Stray /\ scan # "off" /\ hops < MaxHops
  /\ hops' = hops + 1 /\ scan' = "hopped"
  /\ UNCHANGED <<adapterVars, leader, other, quiet, fooled, round, runVars>>

Exits ==
  /\ \/ leader = "alive" /\ leader' \in {"exit0", "exit1"} /\ other' = other
     \/ other # "none" /\ other' = "none" /\ leader' = leader
  /\ UNCHANGED <<adapterVars, hops, cleanupVars, runVars>>

ProcessSteps == WritesFile \/ Forks \/ Hops \/ Exits

-----------------------------------------------------------------------------
(* ExecProcessRunner.Run *)

\* command.Wait returns when the process has ended and its stdout was read.
Waited == leader \notin {"none", "alive"} /\ copier = "ended"

\* setExitResult
setExitResult(p) == [p EXCEPT !.exited = TRUE, !.code = IF leader = "exit0" THEN 0 ELSE 1]

StartCleanup == Go("group") /\ UNCHANGED <<given, scope, finalized, result>> /\ Kept

\* The run ends by itself.
RunEnds ==
  /\ at = "running" /\ Waited
  /\ process' = setExitResult(process) /\ StartCleanup

\* terminateProcessTree: its context ended or the adapter aborts it; SIGINT
\* goes to the group, and the process has a while to end.
terminateProcessTree ==
  /\ at = "running" /\ (ctx # "live" \/ abort)
  /\ \E timedOut \in {ctx = "deadline"} \cup (IF abort THEN {FALSE} ELSE {}) :
       process' = [process EXCEPT !.canceled = TRUE, !.timedOut = timedOut]
  /\ Go("grace")
  /\ UNCHANGED <<given, scope, finalized, result>> /\ Kept

GraceEnds ==
  /\ at = "grace" /\ Waited
  /\ process' = setExitResult(process) /\ StartCleanup

\* The grace is over: SIGKILL to the group.
GroupKilled ==
  /\ leader' = IF leader = "alive" THEN "exit1" ELSE leader
  /\ other' = IF other = "child" THEN "none" ELSE other

Kill ==
  /\ at = "grace" /\ GroupKilled /\ Go("killed")
  /\ UNCHANGED <<adapterVars, hops, cleanupVars, given, scope, process,
                 finalized, result>>

\* receiveWait: a second more, which a descendant that holds stdout outlasts.
receiveWait ==
  /\ at = "killed"
  /\ process' = IF Waited THEN setExitResult(process) ELSE [process EXCEPT !.confirmed = FALSE]
  /\ StartCleanup

-----------------------------------------------------------------------------
(* descendantTracker.cleanup *)

Scans == scan' = "clean"

\* What a reading finds: a process that is there all the time is seen, one that
\* was forked meanwhile may be missed.
processParents(seen) ==
  IF ~Stray THEN ~seen ELSE scan = "hopped" \/ seen

\* A round starts with the group, then reads /proc.
cleanup ==
  /\ at = "group" /\ GroupKilled /\ Scans /\ Go("scan")
  /\ UNCHANGED <<adapterVars, hops, quiet, fooled, round, given, scope,
                 process, finalized, result>>

\* What was found is killed, but not what it has forked since.
descendantSet ==
  /\ at = "scan"
  /\ \E seen \in BOOLEAN :
       processParents(seen) /\ other' = IF seen /\ scan = "clean" THEN "none" ELSE other
  /\ Scans /\ Go("verify")
  /\ UNCHANGED <<adapterVars, leader, hops, quiet, fooled, round, given, scope, process,
                 finalized, result>>

\* The rest of ExecProcessRunner.Run.
CleanupEnds(ok) ==
  /\ process' = [process EXCEPT !.clean = ok /\ process.confirmed,
                                !.treeKilled = process.canceled /\ ok /\ process.confirmed]
  /\ scan' = "off" /\ Go("finalize")

\* Mutant of Rounds: one reading that finds nothing is enough.
OneRound == 1

\* The rounds in a row that must find nothing.
Rounds == 2

\* The second reading of a round.  Rounds go on until the deadline.
VerifyInventory ==
  /\ at = "verify"
  /\ \E seen \in BOOLEAN :
       /\ processParents(seen)
       /\ quiet' = IF seen THEN 0 ELSE quiet + 1
       /\ fooled' = IF seen THEN 0 ELSE IF Stray THEN fooled + 1 ELSE fooled
  /\ round' = round + 1
  /\ IF quiet' >= Rounds THEN CleanupEnds(TRUE)
     ELSE \/ CleanupEnds(FALSE)
          \/ round' < MaxRounds /\ Go("group") /\ UNCHANGED <<process, scan>>
  /\ UNCHANGED <<adapterVars, treeVars, given, scope, finalized, result>>

-----------------------------------------------------------------------------
(* Runtime.Run, after the process *)

CloseQueue ==
  /\ at = "finalize" /\ Lockable
  /\ finish /\ Go("flush")
  /\ UNCHANGED <<treeVars, cleanupVars, given, scope, process, finalized, result>>

\* The delivery has ended, or five seconds are over.
Flush ==
  /\ at = "flush"
  /\ \E flushed \in {delivery = "done", FALSE} : finalized' = Finalize(flushed, process)
  /\ Go("classify")
  /\ UNCHANGED <<given, scope, process, result>> /\ Kept

cleanupUnproven == process.run /\ ~process.clean

\* The first of the causes.
Cause ==
  IF ~process.run /\ (~validateProcessSpec \/ finalized) THEN "failed"
  ELSE IF ~finalized \/ cleanupUnproven THEN "recovery_required"
  ELSE IF process.timedOut THEN "timed_out"
  ELSE IF process.canceled THEN "cancelled"
  ELSE IF process.code # 0 THEN "failed"
  ELSE "succeeded"

\* No artifacts are collected while processes may be left.
Classify ==
  /\ at = "classify" /\ Status(Cause)
  /\ Go(IF cleanupUnproven THEN "respond" ELSE "postflight")
  /\ UNCHANGED <<given, scope, process, finalized>> /\ Kept

\* The scope must still be the same.
Postflight ==
  /\ at = "postflight"
  /\ IF ValidateWorkloadScope THEN Go("collect") /\ result' = result
     ELSE Go("respond") /\ Status("recovery_required")
  /\ UNCHANGED <<given, scope, process, finalized>> /\ Kept

\* sameArtifacts: what the adapter reviewed is what is collected.  It reviewed
\* what was announced; a review that failed leaves files it does not vouch for.
sameArtifacts == files = recorded

\* Collect reads the files that are there; a run that succeeded needs both.
Collect ==
  /\ at = "collect"
  /\ result' = IF result.status = "succeeded" /\ \E r \in Role : files[r] = 0
               THEN [result EXCEPT !.status = "failed"]
               ELSE IF sameArtifacts THEN [result EXCEPT !.artifacts = files]
               ELSE [NoResult EXCEPT !.status = "recovery_required"]
  /\ Go("respond")
  /\ UNCHANGED <<given, scope, process, finalized>> /\ Kept

\* The result is suppressed while the delivery still owns the output.
Respond ==
  /\ at = "respond" /\ Go(IF OutputReusable THEN "write" ELSE "done")
  /\ UNCHANGED <<given, scope, process, finalized, result>> /\ Kept

\* EncodeResponseContext: written, or given up after a signal or five seconds.
EncodeResponseContext ==
  /\ at = "write"
  /\ output' \in {output, Append(output, "result")} /\ Go("leave")
  /\ UNCHANGED <<normalizerVars, queue, closed, delivery, outputErr, abort, ctx, files,
                 treeVars, cleanupVars, given, scope, process, finalized, result>>

Leave ==
  /\ at = "leave" /\ Go("done")
  /\ UNCHANGED <<given, scope, process, finalized, result>> /\ Kept

-----------------------------------------------------------------------------
(* Goroutines and the world around *)

\* The mutex is held while Finalize waits for the delivery.
Copies ==
  /\ at # "done"
  /\ \/ at # "flush" /\ (consume \/ Write)
     \/ send
     \/ ~Writers /\ CopyEnds
  /\ UNCHANGED <<treeVars, cleanupVars, runVars>>

\* A panic ends the worker without a result.
Panics ==
  /\ at # "done" /\ SendPanics /\ Go("done")
  /\ UNCHANGED <<given, scope, process, finalized, result>> /\ Kept

Delivers == at # "done" /\ run /\ UNCHANGED <<treeVars, cleanupVars, runVars>>
Writes == at # "done" /\ writeAll /\ UNCHANGED <<treeVars, cleanupVars, runVars>>

\* The run's timeout, or SIGINT or SIGTERM to the worker: they reach the runner
\* and a copier that sends, until Run cancels the context itself; which
\* of them it was matters to the runner only.
CtxMatters ==
  /\ ctx = "live" /\ at \notin {"start", "classify", "postflight", "collect", "respond", "write",
                               "leave", "done"}
  /\ at = "running" \/ copier = "sending"
  /\ UNCHANGED <<normalizerVars, deliveryVars, abort, files, treeVars, cleanupVars, runVars>>

Timeout == CtxMatters /\ ctx' = "deadline"
Signal == at = "running" /\ CtxMatters /\ ctx' = "cancelled"

\* The scope expires or its file is replaced, before the start or while it runs.
ScopeChanges ==
  /\ scope /\ at \in {"start", "postflight"} /\ scope' = FALSE
  /\ UNCHANGED <<at, given, process, finalized, result>> /\ Kept

Run ==
  \/ Refuse \/ Launch \/ RunEnds \/ terminateProcessTree \/ GraceEnds \/ Kill \/ receiveWait
  \/ cleanup \/ descendantSet \/ VerifyInventory
  \/ CloseQueue \/ Flush \/ Classify \/ Postflight \/ Collect \/ Respond
  \/ EncodeResponseContext \/ Leave

WorkerNext ==
  \/ Run \/ Copies \/ Panics \/ Delivers \/ Writes
  \/ ProcessSteps \/ Timeout \/ Signal \/ ScopeChanges

\* Goroutines run and timers fire; the harness and the client of the worker
\* owe nothing: processes may never end and the output may never be read.
WorkerSpec ==
  /\ WorkerInit /\ [][WorkerNext]_workerVars
  /\ WF_workerVars(Run) /\ WF_workerVars(Copies) /\ WF_workerVars(Delivers)
  /\ WF_workerVars(Timeout)

-----------------------------------------------------------------------------
(* Properties *)

\* The records of a run that went well.
Story == <<"patch", "summary", "succeeded">>

\* A run is reported as succeeded only when it was not stopped, exited with 0,
\* every record was delivered with the successful one last, and the artifacts
\* reported are the ones that were announced (Finalize, Classify, Collect).
SuccessIsEarned ==
  result.status = "succeeded" /\ at \in {"respond", "write", "leave", "done"} =>
    /\ leader = "exit0" /\ ~process.canceled
    /\ output \in {Story, Append(Story, "result")}
    /\ result.artifacts = recorded

\* The process tree is declared gone while a descendant lives only when two
\* readings of /proc in a row missed it (cleanup), and artifacts that were
\* reported no longer change: nothing that could write them is left, unless
\* cleanup was misled (Run, cleanupUnproven).
NoSurvivors ==
  /\ process.clean /\ Alive => fooled >= 2
  /\ result.artifacts # NoFiles => result.artifacts = files \/ fooled >= 2

\* Every run ends, although the harness may never exit and the client may never
\* read: nothing waits for the queue, the mutex or the output without a timeout.
EveryRunEnds == <>(at = "done")
=============================================================================
