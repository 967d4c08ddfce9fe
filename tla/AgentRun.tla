------------------------------ MODULE AgentRun ------------------------------
(***************************************************************************)
(* One Agent Run: the controller that drives the harness of SandboxAgent    *)
(* (services/control-api agent-run-executor.ts) through the Sandbox access  *)
(* endpoint, and the Run's messages, replies and outbox position in         *)
(* PostgreSQL (migration 040).                                              *)
(*                                                                          *)
(* The controller hands over one message at a time, reads the outbox after  *)
(* its recorded position, answers model requests, records replies, and ends *)
(* the Run once the harness has finalized.  Controllers fail and another    *)
(* one takes the Run over; the agent crashes and is started again; an       *)
(* upload whose answer is lost is sent again.                               *)
(***************************************************************************)
EXTENDS SandboxAgent

CONSTANTS
    MaxRestarts,      \* starts of one controller after its first: restarts > 3
    MaxFaults,        \* bound on crashes, failovers, lost answers and signals
    MaxNames,         \* bound on the inbox files of one Run
    Instruction       \* instructions of others: subset of {"cancel", "shutdown", "invalid"}

ASSUME RunAssumption ==
    /\ MaxRestarts \in Nat /\ MaxFaults \in Nat /\ MaxNames \in Nat
    /\ Instruction \subseteq {"cancel", "shutdown", "invalid"}

VARIABLES
    status,     \* run_messages: unsent, queued, claimed, delivered
    replies,    \* recorded replies: harness sequence (or 0 - message) -> message
    position,   \* agent_run_executions.outbox_sequence
    runStatus,  \* runs.status: running, succeeded, failed
    ctl,        \* the controller that holds the Run
    work,       \* durable calls it still makes for the event in hand
    names,      \* inbox names used: each later name sorts after it
    faults      \* faults so far

ctlVars == <<status, replies, position, runStatus, ctl, work, names, faults>>
vars == <<agentVars, ctlVars>>

Down == [pc |-> "down", current |-> None, sequence |-> 0, finalizing |-> FALSE,
         finalized |-> FALSE, restarts |-> 0, batch |-> <<>>]

Init ==
    /\ AgentInit
    /\ status = [m \in Message |-> "unsent"]
    /\ replies = {} /\ position = 0 /\ runStatus = "running"
    /\ ctl = Down /\ work = <<>> /\ names = 0 /\ faults = 0

CtlOnly == UNCHANGED agentVars
Same == UNCHANGED <<status, replies, position, runStatus, names, faults>>
-----------------------------------------------------------------------------
(* The messages of the Run. *)

Send(m) ==
    /\ runStatus = "running" /\ status[m] = "unsent" /\ \A n \in Message : n < m => status[n] # "unsent"
    /\ status' = [status EXCEPT ![m] = "queued"]
    /\ CtlOnly /\ UNCHANGED <<replies, position, runStatus, ctl, work, names, faults>>

Instruct(type) ==
    /\ runStatus = "running" /\ names < MaxNames /\ faults < MaxFaults
    /\ names' = names + 1 /\ faults' = faults + 1
    /\ inbox' = inbox \cup {[name |-> names + 1, type |-> type, msg |-> None, req |-> None,
                              kind |-> "", answer |-> None]}
    /\ UNCHANGED <<requests, outbox, last, torn, disk, checkout, mem, pc, plan, turn, hist>>
    /\ UNCHANGED <<status, replies, position, runStatus, ctl, work>>

\* The message claimed already is returned again, else the first queued one.
Having(state) == {m \in Message : status[m] = state}
claimMessage(m) ==
    LET S == IF Having("claimed") # {} THEN Having("claimed") ELSE Having("queued")
    IN  m \in S /\ \A n \in S : m <= n

NoMessage == Having("claimed") = {} /\ Having("queued") = {}

-----------------------------------------------------------------------------
(* The controller. *)

Upload(type, msg, req, kind, answer) ==
    [op |-> "upload", item |-> [name |-> names + 1, type |-> type, msg |-> msg, req |-> req,
                                kind |-> kind, answer |-> answer]]

\* A controller claims the Run, makes sure that the harness runs, and reads on
\* from the recorded position.
TakeOver ==
    /\ ctl.pc = "down" /\ runStatus = "running"
    /\ ctl' = [Down EXCEPT !.pc = "loop", !.sequence = position]
    /\ Start /\ work' = <<>> /\ Same

\* The claimed message is uploaded under a name that sorts after all before it.
Claim ==
    /\ ctl.pc = "loop" /\ work = <<>> /\ ctl.current = None /\ ~ctl.finalizing
    /\ names < MaxNames
    /\ \E m \in Message :
          /\ claimMessage(m) /\ status' = [status EXCEPT ![m] = "claimed"]
          /\ work' = <<Upload("message", m, None, "", None)>> /\ names' = names + 1
          /\ ctl' = [ctl EXCEPT !.current = m, !.pc = "wait"]
    /\ CtlOnly /\ UNCHANGED <<replies, position, runStatus, faults>>

\* With nothing to do for long enough, or little time left, the harness is
\* told to finalize; a new controller first reads what there is.
Idle ==
    /\ ctl.pc = "loop" /\ work = <<>> /\ ctl.current = None /\ ~ctl.finalizing /\ NoMessage
    /\ \/ /\ names < MaxNames
          /\ work' = <<Upload("finalize", None, None, "", None)>> /\ names' = names + 1
          /\ ctl' = [ctl EXCEPT !.finalizing = TRUE, !.pc = "wait"]
       \/ /\ ctl.sequence = 0
          /\ ctl' = [ctl EXCEPT !.pc = "wait"] /\ UNCHANGED <<work, names>>
    /\ CtlOnly /\ UNCHANGED <<status, replies, position, runStatus, faults>>

\* inlineRequest: a request carries its body, unless it was removed.
inlineRequest(e) == IF e.req \in DOMAIN requests THEN requests[e.req] ELSE None

\* The first k lines are those up to a sequence number.  Wait skips them one by
\* one, and every line that is not beyond the one before.
Read(n, k) == \A i \in DOMAIN outbox : outbox[i].seq <= n <=> i <= k
Beyond(k) == SubSeq(outbox, k + 1, Len(outbox))

\* Wait returns every readable line after the controller's sequence.
Wait ==
    /\ ctl.pc = "wait" \/ (ctl.pc = "loop" /\ (ctl.current # None \/ ctl.finalizing))
    /\ work = <<>>
    /\ \E k \in 0 .. Len(outbox) :
          LET lines == Beyond(k) IN
          /\ Read(ctl.sequence, k)
          /\ ctl' = [ctl EXCEPT !.pc = IF lines = <<>> THEN "status" ELSE "read",
                                !.batch = [i \in 1 .. Len(lines) |->
                                             [e |-> lines[i], body |-> inlineRequest(lines[i])]]]
    /\ CtlOnly /\ Same /\ UNCHANGED work

\* It looks at the process after it has read: a dead one is started again.
WaitStatus ==
    /\ ctl.pc = "status" /\ work = <<>>
    /\ IF pc # "dead" \/ ctl.finalized
       THEN ctl' = [ctl EXCEPT !.pc = "loop"] /\ CtlOnly /\ UNCHANGED runStatus
       ELSE IF ctl.restarts >= MaxRestarts
       THEN runStatus' = "failed" /\ ctl' = Down /\ CtlOnly
       ELSE /\ ctl' = [ctl EXCEPT !.pc = "loop", !.restarts = @ + 1]
            /\ New /\ UNCHANGED runStatus
    /\ UNCHANGED <<status, replies, position, names, faults, work>>

Reply(seq, msg) == [op |-> "reply", seq |-> seq, msg |-> msg]
Deliver(msg) == [op |-> "deliver", msg |-> msg]
Record(seq) == [op |-> "record", seq |-> seq]

\* Mutant of OnReply: the event is recorded before its reply.
OnReplyLate(e) == <<Record(e.seq), Reply(e.seq, e.msg)>>

OnReply(e) == <<Reply(e.seq, e.msg), Record(e.seq)>>

OnCompleted(e) ==
    (IF e.status # "completed" THEN <<Reply(e.seq, e.msg)>> ELSE <<>>)
        \o (IF ctl.current = e.msg THEN <<Deliver(e.msg)>> ELSE <<>>) \o <<Record(e.seq)>>

\* The events of one read are handled in order.
Taken(e) ==
    LET finalized == ctl.finalized \/ e.type = "finalized" IN
    ctl' = [ctl EXCEPT !.batch = Tail(@), !.sequence = e.seq, !.finalized = finalized,
                       !.pc = IF Len(ctl.batch) > 1 THEN @ ELSE IF finalized THEN "drain" ELSE "loop",
                       !.current = IF e.type = "completed" /\ e.msg = @ THEN None ELSE @]

\* recordEvent advances the consumed position; the lines up to it are never
\* read again.
recordEvent(seq) ==
    /\ position' = IF seq > position THEN seq ELSE position
    /\ \E k \in 0 .. Len(outbox) : Read(position', k) /\ outbox' = Beyond(k)
    /\ UNCHANGED <<inbox, requests, last, torn, disk, checkout, mem, pc, plan, turn, hist>>

\* A model request is answered, once the model has, unless its body is gone.
HandleRequest ==
    /\ ctl.pc = "read" /\ work = <<>>
    /\ LET e == Head(ctl.batch).e  body == Head(ctl.batch).body IN
       /\ e.type = "request" /\ body # None /\ Taken(e)
       /\ names < MaxNames /\ names' = names + 1
       /\ \E kind \in {"text", "tools", "error"} :
             work' = <<Upload("model.response", None, e.req, kind, body), Record(e.seq)>>
    /\ CtlOnly /\ UNCHANGED <<status, replies, position, runStatus, faults>>

HandleTurn ==
    /\ ctl.pc = "read" /\ work = <<>>
    /\ LET e == Head(ctl.batch).e IN
       /\ e.type \in {"reply", "completed"} /\ Taken(e)
       /\ work' = IF e.type = "reply" THEN OnReply(e) ELSE OnCompleted(e)
    /\ CtlOnly /\ Same

\* Every other event is only recorded.
HandleOther ==
    /\ ctl.pc = "read" /\ work = <<>>
    /\ LET e == Head(ctl.batch).e  body == Head(ctl.batch).body IN
       /\ e.type \in {"note", "finalized"} \/ (e.type = "request" /\ body = None)
       /\ Taken(e) /\ recordEvent(e.seq)
    /\ UNCHANGED <<status, replies, runStatus, work, names, faults>>

-----------------------------------------------------------------------------
(* Durable calls. *)

Call(op) == work # <<>> /\ Head(work).op = op

\* WriteWorkspaceFile renames the complete file into the inbox.
Written(item) ==
    /\ inbox' = {other \in inbox : other.name # item.name} \cup {item}
    /\ UNCHANGED <<requests, outbox, last, torn, disk, checkout, mem, pc, plan, turn, hist>>

UploadCall ==
    /\ Call("upload") /\ Written(Head(work).item) /\ work' = Tail(work)
    /\ Same /\ UNCHANGED ctl

\* The answer of an upload is lost: it is sent again under the same name.
UploadAgain ==
    /\ Call("upload") /\ Written(Head(work).item) /\ faults < MaxFaults
    /\ faults' = faults + 1
    /\ UNCHANGED <<status, replies, position, runStatus, ctl, work, names>>

\* recordReply is idempotent in the harness sequence.
ReplyCall ==
    /\ Call("reply") /\ work' = Tail(work)
    /\ replies' = replies \cup {[seq |-> Head(work).seq, msg |-> Head(work).msg]}
    /\ CtlOnly /\ UNCHANGED <<status, position, runStatus, ctl, names, faults>>

DeliverCall ==
    /\ Call("deliver") /\ work' = Tail(work)
    /\ status' = [status EXCEPT ![Head(work).msg] = "delivered"]
    /\ CtlOnly /\ UNCHANGED <<replies, position, runStatus, ctl, names, faults>>

RecordCall ==
    /\ Call("record") /\ work' = Tail(work) /\ recordEvent(Head(work).seq)
    /\ UNCHANGED <<status, replies, runStatus, ctl, names, faults>>

\* Messages that arrived after the harness finalized are answered here.
Drain(m) == <<Reply(0 - m, m), Deliver(m)>>

DrainStep ==
    /\ ctl.pc = "drain" /\ work = <<>>
    /\ \E m \in Message :
          claimMessage(m) /\ status' = [status EXCEPT ![m] = "claimed"] /\ work' = Drain(m)
    /\ CtlOnly /\ UNCHANGED <<replies, position, runStatus, ctl, names, faults>>

Drained ==
    /\ ctl.pc = "drain" /\ work = <<>> /\ NoMessage
    /\ ctl' = [ctl EXCEPT !.pc = "final"] /\ CtlOnly /\ Same /\ UNCHANGED work

\* The Run succeeds with its artifacts when every message is delivered; a
\* message that came after the last claim makes it fail instead.
agent_run_controller_finalize ==
    /\ ctl.pc = "final"
    /\ runStatus' = IF \A m \in Message : status[m] \in {"unsent", "delivered"} THEN "succeeded" ELSE "failed"
    /\ ctl' = Down
    /\ CtlOnly /\ UNCHANGED <<status, replies, position, work, names, faults>>

\* The access endpoint refuses or cannot reach the Sandbox: the Run fails.
AccessFails ==
    /\ faults < MaxFaults /\ faults' = faults + 1
    /\ Call("upload") \/ ctl.pc \in {"wait", "status"}
    /\ runStatus' = "failed" /\ ctl' = Down /\ work' = <<>>
    /\ CtlOnly /\ UNCHANGED <<status, replies, position, names>>

-----------------------------------------------------------------------------
(* Faults. *)

\* The controller stops, or loses its lease: its unfinished calls are gone.
ControllerFails ==
    /\ faults < MaxFaults /\ ctl.pc # "down"
    /\ faults' = faults + 1 /\ ctl' = Down /\ work' = <<>>
    /\ CtlOnly /\ UNCHANGED <<status, replies, position, runStatus, names>>

AgentFault ==
    /\ faults < MaxFaults /\ runStatus = "running" /\ faults' = faults + 1
    /\ (\E partial \in BOOLEAN : Crash(partial)) \/ Signalled \/ BaselineStep(TRUE)
    /\ UNCHANGED <<status, replies, position, runStatus, ctl, work, names>>

AgentStep == runStatus = "running" /\ AgentSteps /\ UNCHANGED ctlVars

Next ==
    \/ \E m \in Message : Send(m)
    \/ \E type \in Instruction : Instruct(type)
    \/ TakeOver \/ Claim \/ Idle \/ Wait \/ WaitStatus \/ HandleRequest \/ HandleTurn \/ HandleOther
    \/ UploadCall \/ UploadAgain \/ ReplyCall \/ DeliverCall \/ RecordCall
    \/ DrainStep \/ Drained \/ agent_run_controller_finalize \/ AccessFails
    \/ ControllerFails \/ AgentFault \/ AgentStep

Spec == Init /\ [][Next]_vars
-----------------------------------------------------------------------------
\* A message is marked delivered only once a reply to it is recorded, whatever
\* the order in which controller and agent fail (agent-run-executor.ts).
DeliveredIsAnswered ==
    \A m \in Message : status[m] = "delivered" => \E r \in replies : r.msg = m

\* "Sequence numbers start at 1 and never repeat" (protocol.go): what the
\* outbox holds beyond the recorded position is in order and all beyond it, so
\* a reader skips no event.
SequencesNeverRepeat ==
    /\ \A i \in DOMAIN outbox : outbox[i].seq > position
    /\ \A i, j \in DOMAIN outbox : i < j => outbox[i].seq < outbox[j].seq
=============================================================================
