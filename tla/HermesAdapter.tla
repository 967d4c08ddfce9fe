---------------------------- MODULE HermesAdapter ----------------------------
(***************************************************************************)
(* The adapter between a harness process and the harness worker: the       *)
(* copier goroutine of os/exec that hands what the process tree writes to  *)
(* the normalizer, the records the normalizer accepts, and the delivery    *)
(* goroutine that owns the worker's output.  The normalizer's mutex, the   *)
(* bounded queue, the abort channel and the run's context tie the three to *)
(* the runtime of HarnessWorker.  A record is its type; what is written to *)
(* the pipe and what is read from it are one step, since a record stays    *)
(* in the pipe when its writer dies.                                       *)
(***************************************************************************)
EXTENDS Naturals, Sequences

CONSTANTS QueueCap,      \* the records in the queue, with the one that is being written
          MaxRecords     \* the records the processes write

ASSUME QueueAssumption == QueueCap \in Nat \ {0} /\ MaxRecords \in Nat

VARIABLES written,    \* the records read from the pipe so far
          copier,     \* the copier: reading, sending (within Write), ended
          holding,    \* the record the copier sends
          pending,    \* n.pending: a record that has no newline yet
          recorded,   \* n.artifacts: the version of each announced file, or 0
          terminal,   \* n.terminalStatus
          failed,     \* n.failed
          queue, closed,
          delivery,   \* the delivery goroutine: off, running, done
          outputErr,  \* d.err
          output,     \* what the client of the worker reads
          abort,      \* the abort channel holds an error
          ctx,        \* the run's context: live, deadline, cancelled
          files       \* the artifact files: their version, or 0

normalizerVars == <<written, copier, holding, pending, recorded, terminal, failed>>
deliveryVars == <<queue, closed, delivery, outputErr, output>>
adapterVars == <<normalizerVars, deliveryVars, abort, ctx, files>>

Role == {"patch", "summary"}
NoFiles == [r \in Role |-> 0]

AdapterInit ==
  /\ written = 0 /\ copier = "off" /\ holding = "none" /\ pending = FALSE
  /\ recorded = NoFiles /\ terminal = "none" /\ failed = FALSE
  /\ queue = <<>> /\ closed = FALSE /\ delivery = "off" /\ outputErr = FALSE /\ output = <<>>
  /\ abort = FALSE /\ ctx = "live" /\ files = NoFiles

\* Prepare makes the normalizer and starts the delivery goroutine.
Prepare == delivery' = "running"

-----------------------------------------------------------------------------
(* The normalizer *)

\* fail keeps the first error and wakes the runner; the copier ends with it.
fail == failed' = TRUE /\ abort' = TRUE /\ copier' = "ended"

\* addArtifact: the patch first, then the summary, each once.
addArtifact(r) ==
  IF r = "patch" THEN recorded = NoFiles
  ELSE recorded["patch"] # 0 /\ recorded["summary"] = 0

\* validateArtifact reads the file; a digest that differs is a record "bad".
validateArtifact(r) == files[r] # 0

\* requireSuccessfulArtifacts: both files were announced.
requireSuccessfulArtifacts == \A r \in Role : recorded[r] # 0

\* validateRecord, and what the type of the record asks for.  Ordinary records
\* (harness, message, tool, model, progress) are left out: they are sent in the
\* same way and change nothing that is concluded at the end.
validateRecord(t) ==
  CASE t \in Role -> validateArtifact(t) /\ addArtifact(t)
    [] t = "succeeded" -> requireSuccessfulArtifacts
    [] t = "failed" -> TRUE
    [] t = "bad" -> FALSE

\* consume: one record, which may not follow the terminal one or be glued to
\* the rest of another.  What it says is noted before it is sent.
consume ==
  /\ copier = "reading" /\ written < MaxRecords
  /\ written' = written + 1
  /\ \E t \in Role \cup {"succeeded", "failed", "bad"} :
       IF terminal = "none" /\ ~pending /\ validateRecord(t)
       THEN /\ recorded' = [r \in Role |-> IF r = t THEN files[r] ELSE recorded[r]]
            /\ terminal' = IF t \in Role THEN "none" ELSE t
            /\ copier' = "sending" /\ holding' = t
            /\ UNCHANGED <<failed, abort>>
       ELSE fail /\ UNCHANGED <<recorded, terminal, holding>>
  /\ UNCHANGED <<pending, deliveryVars, ctx, files>>

\* Write without a newline: the rest stays in n.pending.
Write ==
  /\ copier = "reading" /\ ~pending /\ written < MaxRecords
  /\ pending' = TRUE /\ written' = written + 1
  /\ UNCHANGED <<copier, holding, recorded, terminal, failed, deliveryVars, abort, ctx, files>>

\* The next record is with the delivery, or the attempt ends.
Sent == copier' = "reading" /\ UNCHANGED <<failed, abort>>

\* Mutant of send: a full queue is waited for whatever happens to the run.
SendPatiently ==
  /\ copier = "sending" /\ holding' = "none"
  /\ \/ /\ delivery # "done" /\ ~closed /\ Len(queue) < QueueCap
        /\ queue' = Append(queue, holding) /\ Sent
     \/ /\ delivery = "done" /\ queue' = queue
        /\ IF outputErr THEN fail ELSE Sent
  /\ UNCHANGED <<written, pending, recorded, terminal, closed, delivery,
                 outputErr, output, ctx, files>>

\* send: into the queue, unless the delivery has ended (its error, if it has
\* one, is the record's) or the run's context has.
send ==
  /\ copier = "sending" /\ holding' = "none"
  /\ \/ /\ delivery # "done" /\ ~closed /\ Len(queue) < QueueCap
        /\ queue' = Append(queue, holding) /\ Sent
     \/ /\ delivery = "done" /\ queue' = queue
        /\ IF outputErr THEN fail ELSE Sent
     \/ /\ delivery # "done" /\ ctx # "live"
        /\ queue' = queue /\ fail
  /\ UNCHANGED <<written, pending, recorded, terminal, closed, delivery,
                 outputErr, output, ctx, files>>

\* A send that meets the closed queue of a delivery that still writes panics.
SendPanics == copier = "sending" /\ closed /\ delivery # "done"

\* No writer is left: the copier reads the end of the pipe.
CopyEnds ==
  /\ copier = "reading" /\ copier' = "ended"
  /\ UNCHANGED <<written, holding, pending, recorded, terminal, failed, deliveryVars, abort,
                 ctx, files>>

-----------------------------------------------------------------------------
(* The delivery goroutine *)

\* run: it ends when the queue is closed and empty.
run ==
  /\ delivery = "running" /\ closed /\ queue = <<>>
  /\ delivery' = "done"
  /\ UNCHANGED <<normalizerVars, queue, closed, outputErr, output, abort, ctx, files>>

\* writeAll: the next record reaches the client, or the output fails.
writeAll ==
  /\ delivery = "running" /\ queue # <<>>
  /\ queue' = Tail(queue)
  /\ \/ output' = Append(output, Head(queue)) /\ UNCHANGED <<delivery, outputErr, abort>>
     \/ delivery' = "done" /\ outputErr' = TRUE /\ abort' = TRUE /\ output' = output
  /\ UNCHANGED <<normalizerVars, closed, ctx, files>>

\* OutputReusable: the goroutine has returned, or was never started.
OutputReusable == delivery \in {"off", "done"}

-----------------------------------------------------------------------------
(* Finalize, after the process has ended *)

\* Finalize takes the normalizer's mutex, which a copier within Write holds.
Lockable == copier # "sending"

\* finish closes the queue.
finish ==
  /\ closed' = TRUE
  /\ UNCHANGED <<normalizerVars, queue, delivery, outputErr, output, abort, ctx, files>>

\* reviewFixedArtifacts: every announced file is there, as it was announced.
reviewFixedArtifacts == \A r \in Role : recorded[r] # 0 => files[r] = recorded[r]

\* Mutant of finalize: records that were not delivered are no error.
FinalizeBlindly(flushed) ==
  /\ reviewFixedArtifacts /\ ~failed /\ ~pending
  /\ terminal = "succeeded" => requireSuccessfulArtifacts

\* finalize: nothing of what the process wrote was refused, cut off or lost.
finalize(flushed) ==
  /\ reviewFixedArtifacts /\ ~failed /\ ~pending
  /\ flushed /\ ~outputErr
  /\ terminal = "succeeded" => requireSuccessfulArtifacts

\* Finalize: a run that was stopped did not succeed and left no process, and
\* one that exited well said so.
Finalize(flushed, process) ==
  /\ finalize(flushed)
  /\ process.canceled => terminal # "succeeded" /\ process.treeKilled
  /\ process.exited /\ process.code = 0 => terminal = "succeeded"

=============================================================================
