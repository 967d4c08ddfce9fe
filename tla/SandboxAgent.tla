---------------------------- MODULE SandboxAgent ----------------------------
(***************************************************************************)
(* The reference agent harness that runs inside a Sandbox                   *)
(* (internal/sandboxagent): a turn loop that reads instructions from an     *)
(* inbox directory, asks for the model through an outbox file, and keeps    *)
(* its own state in state.json.  A handler is a list of durable effects     *)
(* that are made one at a time, so the process may die between any two.     *)
(*                                                                          *)
(* The conversation itself, the tools' output and the clock are abstracted: *)
(* a tool call changes the checkout or does not, a deadline passes when it  *)
(* likes.                                                                   *)
(***************************************************************************)
EXTENDS Integers, Sequences

CONSTANTS
    Message,          \* the user's messages, 1 .. n
    None,             \* no message, no request
    MaxStepsPerTurn   \* config.maxStepsPerTurn

ASSUME AgentAssumption ==
    /\ Message \subseteq Nat
    /\ None \notin Nat /\ None \notin Nat \X Nat
    /\ MaxStepsPerTurn \in Nat \ {0}

VARIABLES
    inbox,      \* the inbox items, which are read in name order, removed ones excluded
    requests,   \* request files: request ID -> the turn and step that ask
    outbox,     \* readable outbox lines the controller has not recorded
    last,       \* the highest sequence number of a readable line
    torn,       \* the outbox ends in a partial line
    disk,       \* state.json
    checkout,   \* the baseline, and whether a tool has changed the checkout
    mem,        \* the process: its copy of the state, counters, next sequence
    pc,         \* where the process is: dead, serve, ask or call
    plan,       \* durable effects it still makes before it looks again
    turn,       \* the turn in flight: message, step, request, answer in use
    hist        \* history: messages taken and not reported, those a crash lost, and the
                \* request IDs of crashed processes whose step was not saved

agentVars == <<inbox, requests, outbox, last, torn, disk, checkout, mem, pc, plan, turn, hist>>

NoTurn == [msg |-> None, step |-> 0, req |-> None, answer |-> None]

AgentInit ==
    /\ inbox = {} /\ requests = [r \in {} |-> None] /\ outbox = <<>> /\ last = 0 /\ torn = FALSE
    /\ disk = [done |-> {}, steps |-> 0, current |-> None, finalized |-> FALSE]
    /\ checkout = [base |-> "none", changed |-> FALSE, failed |-> FALSE]
    /\ mem = [state |-> disk, requestNumber |-> 0, next |-> 0]
    /\ pc = "dead" /\ plan = <<>> /\ turn = NoTurn
    /\ hist = [open |-> {}, lost |-> {}, unsaved |-> {}]

-----------------------------------------------------------------------------
(* Durable effects.  A save writes the state as it is then. *)

Emit(type, msg, req, status) == [op |-> "emit", type |-> type, msg |-> msg, req |-> req, status |-> status]

Note == Emit("note", None, None, "")

Unlink(name) == [op |-> "unlink", name |-> name]

\* markDone records the name, removes the file and forgets the name again.
markDone(item) ==
    << [op |-> "done", name |-> item.name, msg |-> item.msg], Unlink(item.name),
       [op |-> "undone", name |-> item.name] >>

\* finishItem reports an item it cannot use and marks it done.
finishItem(item) == <<Note>> \o markDone(item)

Close == [op |-> "close"]

\* complete: the turn is closed in the state, then reported.
complete(msg, status) == <<Close, Emit("completed", msg, None, status)>>

Stop == <<Note, [op |-> "exit"]>>

\* finalizeRun writes the patch and the summary, saves that it did, and reports.
finalizeRun == << [op |-> "final"], Emit("finalized", None, None, "") >>

\* Mutant of Boot: a turn found open is closed and not reported.
BootSilently(current) ==
    <<Note, [op |-> "baseline"]>> \o IF current = None THEN <<>> ELSE <<Close>>

\* What Serve does before it looks at the inbox: report the start, snapshot the
\* checkout, and report a turn that a previous process left open as failed.
Boot(current) ==
    <<Note, [op |-> "baseline"]>> \o IF current = None THEN <<>> ELSE complete(current, "failed")

\* Mutant of OpenOutbox: the last sequence number is used again.
OpenOutboxAgain == last

\* A new process continues after the last line it can read.
OpenOutbox == last + 1

\* Start launches a process unless one is alive; New loads its state.
New ==
    /\ mem' = [state |-> disk, requestNumber |-> 0, next |-> OpenOutbox]
    /\ plan' = Boot(disk.current)
    /\ pc' = "serve" /\ turn' = NoTurn
    /\ UNCHANGED <<inbox, requests, outbox, last, torn, disk, checkout, hist>>

Start == IF pc # "dead" THEN UNCHANGED agentVars ELSE New

-----------------------------------------------------------------------------
(* The turn loop. *)

pendingInbox == {item \in inbox : item.name \notin mem.state.done}

\* Items are read in the order of their names.
First(items, item) == item \in items /\ \A other \in items : item.name <= other.name

InTurn(item) == item.type \in {"shutdown", "cancel", "model.response"}

\* A message is marked done, the turn is saved as current, then accepted.
runTurn(item) == markDone(item) \o <<[op |-> "turn", msg |-> item.msg], Note>>

\* Serve handles the first pending item.
Handle ==
    /\ pc = "serve" /\ plan = <<>>
    /\ \E item \in pendingInbox :
       /\ First(pendingInbox, item)
       /\ plan' = CASE item.type = "message" -> runTurn(item)
                    [] item.type = "finalize" -> finalizeRun \o markDone(item) \o Stop
                    [] item.type = "shutdown" -> markDone(item) \o Stop
                    [] item.type \in {"cancel", "model.response"} -> markDone(item)
                    [] OTHER -> finishItem(item)
       /\ IF item.type = "message"
          THEN pc' = "ask" /\ turn' = [NoTurn EXCEPT !.msg = item.msg]
          ELSE pc' = pc /\ turn' = NoTurn
    /\ UNCHANGED <<inbox, requests, outbox, last, torn, disk, checkout, mem, hist>>

\* The request of the next step, identified by the steps of the Run and the
\* requests of this process, goes out; too large a request fails the turn.
Ask ==
    /\ pc = "ask" /\ plan = <<>>
    /\ IF turn.step = MaxStepsPerTurn
       THEN plan' = complete(turn.msg, "failed") /\ pc' = "serve" /\ UNCHANGED <<mem, turn>>
       ELSE LET id == <<mem.state.steps + 1, mem.requestNumber + 1>> IN
            /\ mem' = [mem EXCEPT !.state.steps = @ + 1, !.requestNumber = @ + 1]
            /\ \/ /\ plan' = <<[op |-> "ask", req |-> id], Emit("request", turn.msg, id, "")>>
                  /\ pc' = "call" /\ turn' = [turn EXCEPT !.step = @ + 1, !.req = id, !.answer = None]
               \/ /\ plan' = complete(turn.msg, "failed")
                  /\ pc' = "serve" /\ turn' = turn
    /\ UNCHANGED <<inbox, requests, outbox, last, torn, disk, checkout, hist>>

Forget == [op |-> "forget", req |-> turn.req]

\* The turn ends with a status, and with it the process when it was stopped.
TurnEnds(before, reply, status, after) ==
    /\ plan' = before \o <<Forget>> \o reply \o complete(turn.msg, status) \o after
    /\ pc' = "serve"

\* An answer of this request: a failure, a reply, or tool calls and another step
\* (tool.started and tool.finished stand as one line).
Answer(item) ==
    /\ turn' = [turn EXCEPT !.answer = item.answer]
    /\ CASE item.kind = "error" -> TurnEnds(markDone(item), <<>>, "failed", <<>>)
         [] item.kind = "text" ->
               TurnEnds(markDone(item), <<Emit("reply", turn.msg, None, "")>>, "completed", <<>>)
         [] item.kind = "tools" ->
               /\ plan' = markDone(item) \o <<Forget, [op |-> "tool"], Note, [op |-> "save"]>>
               /\ pc' = "ask"

\* Mutant of Answers: any model response answers the request.
AnswersAny(item) == item.type = "model.response"

Answers(item) == item.type = "model.response" /\ item.req = turn.req

\* callModel scans the pending items; messages and finalize wait.
Poll ==
    /\ pc = "call" /\ plan = <<>>
    /\ LET waiting == {item \in pendingInbox : InTurn(item)} IN
       \E item \in waiting :
       /\ First(waiting, item)
       /\ CASE item.type = "shutdown" -> TurnEnds(<<>>, <<>>, "cancelled", Stop) /\ turn' = turn
            [] item.type = "cancel" -> TurnEnds(markDone(item), <<>>, "cancelled", <<>>) /\ turn' = turn
            [] Answers(item) -> Answer(item)
            [] OTHER -> plan' = markDone(item) /\ UNCHANGED <<pc, turn>>
    /\ UNCHANGED <<inbox, requests, outbox, last, torn, disk, checkout, mem, hist>>

\* With nothing to read the deadline may pass.
ModelTimesOut ==
    /\ pc = "call" /\ plan = <<>> /\ \A item \in pendingInbox : ~InTurn(item)
    /\ TurnEnds(<<>>, <<>>, "failed", <<>>)
    /\ UNCHANGED <<inbox, requests, outbox, last, torn, disk, checkout, mem, turn, hist>>

\* A signal ends an idle process, and a turn that waits for its model.
Signalled ==
    /\ plan = <<>>
    /\ \/ pc = "serve" /\ pendingInbox = {} /\ plan' = Stop /\ pc' = pc
       \/ /\ pc = "call" /\ \A item \in pendingInbox : ~InTurn(item)
          /\ TurnEnds(<<>>, <<>>, "cancelled", Stop)
    /\ UNCHANGED <<inbox, requests, outbox, last, torn, disk, checkout, mem, turn, hist>>

-----------------------------------------------------------------------------
(* The effects, each at most once. *)

Effect(op) == plan # <<>> /\ Head(plan).op = op /\ plan' = Tail(plan)

\* A line after a partial one is glued to it, and no reader can decode it.
EmitStep ==
    /\ Effect("emit")
    /\ LET e == Head(plan) IN
       /\ mem' = [mem EXCEPT !.next = @ + 1]
       /\ IF torn
          THEN UNCHANGED <<outbox, last, hist>>
          ELSE /\ outbox' = Append(outbox, [seq |-> mem.next, type |-> e.type, msg |-> e.msg,
                                            req |-> e.req, status |-> e.status])
               /\ last' = mem.next
               /\ hist' = IF e.type = "completed" THEN [hist EXCEPT !.open = @ \ {e.msg}] ELSE hist
       /\ torn' = FALSE
    /\ UNCHANGED <<inbox, requests, disk, checkout, pc, turn>>

\* Every save writes the state as the process has it.
persist(state) == mem' = [mem EXCEPT !.state = state] /\ disk' = state

SaveStep ==
    /\ \/ /\ Effect("done") /\ persist([mem.state EXCEPT !.done = @ \cup {Head(plan).name}])
          /\ hist' = IF Head(plan).msg = None THEN hist ELSE [hist EXCEPT !.open = @ \cup {Head(plan).msg}]
       \/ Effect("undone") /\ persist([mem.state EXCEPT !.done = @ \ {Head(plan).name}]) /\ hist' = hist
       \/ Effect("turn") /\ persist([mem.state EXCEPT !.current = Head(plan).msg]) /\ hist' = hist
       \/ Effect("close") /\ persist([mem.state EXCEPT !.current = None]) /\ hist' = hist
       \/ Effect("final") /\ persist([mem.state EXCEPT !.finalized = TRUE]) /\ hist' = hist
       \/ Effect("save") /\ persist(mem.state) /\ hist' = hist
    /\ UNCHANGED <<inbox, requests, outbox, last, torn, checkout, pc, turn>>

UnlinkStep ==
    /\ Effect("unlink") /\ inbox' = {item \in inbox : item.name # Head(plan).name}
    /\ UNCHANGED <<requests, outbox, last, torn, disk, checkout, mem, pc, turn, hist>>

\* writeRequest stores the body for Wait; removeRequest drops it.
RequestStep ==
    /\ \/ /\ Effect("ask")
          /\ requests' = [r \in DOMAIN requests \cup {Head(plan).req} |->
                            IF r = Head(plan).req THEN [msg |-> turn.msg, step |-> turn.step]
                            ELSE requests[r]]
       \/ /\ Effect("forget")
          /\ requests' = [r \in DOMAIN requests \ {Head(plan).req} |-> requests[r]]
    /\ UNCHANGED <<inbox, outbox, last, torn, disk, checkout, mem, pc, turn, hist>>

\* A tool may change the checkout.
ToolStep ==
    /\ Effect("tool") /\ checkout' = [checkout EXCEPT !.changed = TRUE]
    /\ UNCHANGED <<inbox, requests, outbox, last, torn, disk, mem, pc, turn, hist>>

\* ensureBaseline snapshots the checkout when there is no snapshot yet; it is
\* built aside and renamed, and a failure is only logged.
ensureBaseline(fails) ==
    IF checkout.base # "none" THEN checkout
    ELSE IF fails THEN [checkout EXCEPT !.failed = TRUE]
    ELSE [checkout EXCEPT !.base = IF checkout.changed THEN "changed" ELSE "pristine"]

BaselineStep(fails) ==
    /\ Effect("baseline") /\ checkout' = ensureBaseline(fails)
    /\ UNCHANGED <<inbox, requests, outbox, last, torn, disk, mem, pc, turn, hist>>

ExitStep ==
    /\ Effect("exit") /\ pc' = "dead"
    /\ UNCHANGED <<inbox, requests, outbox, last, torn, disk, checkout, mem, turn, hist>>

\* The process dies between two effects, or within an Emit whose line is then
\* partial.  What it took and the state does not name is lost; an ID whose step
\* the state does not count will be used again.
Crash(partial) ==
    /\ pc # "dead" /\ pc' = "dead" /\ plan' = <<>> /\ turn' = NoTurn
    /\ partial => plan # <<>> /\ Head(plan).op = "emit"
    /\ torn' = (torn \/ partial)
    /\ hist' = [hist EXCEPT !.lost = @ \cup (hist.open \ {disk.current}),
                            !.unsaved = IF turn.req # None /\ turn.req[1] > disk.steps
                                        THEN @ \cup {turn.req} ELSE @]
    /\ UNCHANGED <<inbox, requests, outbox, last, disk, checkout, mem>>

AgentSteps ==
    \/ Handle \/ Ask \/ Poll \/ ModelTimesOut
    \/ EmitStep \/ SaveStep \/ UnlinkStep \/ RequestStep \/ ToolStep \/ ExitStep
    \/ BaselineStep(FALSE)

-----------------------------------------------------------------------------
(* Nothing it took and did not report is owed by an agent that looks at its *)
(* inbox, but for what a crash lost: a restarted agent reports the turn it  *)
(* finds open (agent.go, persistedState.CurrentMessage).                    *)
OnlyCrashesLoseTurns ==
    pc = "serve" /\ plan = <<>> => hist.open \subseteq hist.lost

\* An answer is used in the turn and the step it was asked for, whatever was
\* resent, answered again by a second controller or left over by a crash.  Only
\* an ID that a crashed process had used for its unsaved step may bring the
\* answer to another message, and then to one of the same step (callModel).
AnswerFits ==
    turn.answer # None =>
        /\ turn.answer.step = turn.step
        /\ turn.answer.msg = turn.msg \/ turn.req \in hist.unsaved
=============================================================================
