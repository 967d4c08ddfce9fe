--------------------------- MODULE HarnessProofs ----------------------------
(***************************************************************************)
(* Theorems about an Agent Run, for any number of messages, steps,         *)
(* restarts, faults and inbox files, and about the harness worker.         *)
(***************************************************************************)
EXTENDS AgentRun, HarnessWorker, TLAPS

-----------------------------------------------------------------------------
(* Types. *)

Maybe(S) == S \cup {None}
Id == Nat \X Nat
Body == [msg : Message, step : Nat]
EventType == {"note", "request", "reply", "completed", "finalized"}
TurnStatus == {"", "completed", "failed", "cancelled"}

State == [done : SUBSET Nat, steps : Nat, current : Maybe(Message), finalized : BOOLEAN]
Line == [seq : Nat, type : EventType, msg : Maybe(Message), req : Maybe(Id), status : TurnStatus]
ItemType == {"message", "finalize", "model.response", "cancel", "shutdown", "invalid"}
AnswerKind == {"", "text", "tools", "error"}
Item == [name : Nat, type : ItemType, msg : Maybe(Message), req : Maybe(Id), kind : AnswerKind,
         answer : Maybe(Body)]

EmitOp == [op : {"emit"}, type : EventType, msg : Maybe(Message), req : Maybe(Id),
           status : TurnStatus]
DoneOp == [op : {"done"}, name : Nat, msg : Maybe(Message)]
NameOp == [op : {"unlink", "undone"}, name : Nat]
TurnOp == [op : {"turn"}, msg : Message]
RequestOp == [op : {"ask", "forget"}, req : Id]
PlainOp == [op : {"close", "final", "tool", "save", "baseline", "exit"}]
Op == EmitOp \cup DoneOp \cup NameOp \cup TurnOp \cup RequestOp \cup PlainOp

UploadWork == [op : {"upload"}, item : Item]
ReplyWork == [op : {"reply"}, seq : Int, msg : Message]
DeliverWork == [op : {"deliver"}, msg : Message]
RecordWork == [op : {"record"}, seq : Nat]
Work == UploadWork \cup ReplyWork \cup DeliverWork \cup RecordWork

TurnRow == [msg : Maybe(Message), step : Nat, req : Maybe(Id), answer : Maybe(Body)]

AgentType ==
    /\ inbox \subseteq Item
    /\ DOMAIN requests \subseteq Id /\ \A r \in DOMAIN requests : requests[r] \in Body
    /\ outbox \in Seq(Line) /\ last \in Nat /\ torn \in BOOLEAN
    /\ disk \in State /\ mem \in [state : State, requestNumber : Nat, next : Nat]
    /\ pc \in {"dead", "serve", "ask", "call"}
    /\ turn \in TurnRow
    /\ hist \in [open : SUBSET Message, lost : SUBSET Message, unsaved : SUBSET Id]

Controllers == [pc : {"down", "loop", "wait", "status", "read", "drain", "final"},
                current : Maybe(Message), sequence : Nat, finalizing : BOOLEAN,
                finalized : BOOLEAN, restarts : Nat, batch : Seq([e : Line, body : Maybe(Body)])]

RunType ==
    /\ status \in [Message -> {"unsent", "queued", "claimed", "delivered"}]
    /\ replies \subseteq [seq : Int, msg : Message]
    /\ position \in Nat /\ names \in Nat
    /\ ctl \in Controllers /\ work \in Seq(Work)

-----------------------------------------------------------------------------
(* The plan of the agent. *)

Reports(s, type, m) == \E i \in DOMAIN s : s[i].op = "emit" /\ s[i].type = type /\ s[i].msg = m
Saving == {"done", "undone", "turn", "close", "final", "save"}
Saves(s) == \E i \in DOMAIN s : s[i].op \in Saving

\* What an effect needs of the process that has planned it.
Fits(o, p, t) ==
    /\ o.op = "emit" /\ o.type \in {"reply", "completed"} => o.msg \in Message
    /\ o.op = "done" /\ o.msg # None => p = "ask" /\ t.msg = o.msg
    /\ o.op = "ask" => p = "call" /\ o.req = t.req
    /\ o.op = "exit" => p = "serve"

Success(o) == o.op = "emit" /\ o.type = "completed" /\ o.status = "completed"

Succeeds(s, m) == \E i \in DOMAIN s : Success(s[i]) /\ s[i].msg = m

\* Effects that only stand at the end of a plan.
Ends(o) == o.op = "exit" \/ Success(o)

PlanFits(s, p, t) ==
    /\ s \in Seq(Op)
    /\ \A i \in DOMAIN s : Fits(s[i], p, t) /\ (i < Len(s) => ~Ends(s[i]))

ItemFits(item) ==
    /\ item.type = "message" <=> item.msg # None
    /\ item.type = "model.response" => item.kind \in {"text", "tools", "error"}

Planned ==
    /\ PlanFits(plan, pc, turn)
    /\ pc = "dead" => plan = <<>>
    /\ torn /\ pc # "dead" => plan # <<>> /\ plan[1] = Note
    /\ pc \in {"ask", "call"} => turn.msg \in Message
    /\ \A item \in inbox : ItemFits(item)

\* A message taken is one whose turn is open, that is about to be reported, or
\* that a crash has lost.
Owed ==
    \A m \in hist.open :
        \/ m \in hist.lost
        \/ pc = "dead" /\ m = disk.current
        \/ pc \in {"ask", "call"} /\ m = turn.msg
        \/ Reports(plan, "completed", m)

-----------------------------------------------------------------------------
(* Request IDs. *)

\* The steps counted when the process started.
Base == mem.state.steps - mem.requestNumber

Counted ==
    /\ pc # "dead" => /\ mem.state.steps - mem.requestNumber \in Nat /\ Base <= disk.steps
                      /\ disk.steps <= mem.state.steps /\ mem.state.steps <= disk.steps + 1
                      /\ mem.state.steps # disk.steps => pc = "call" \/ Saves(plan)
                      /\ turn.step <= mem.requestNumber
    /\ pc = "call" => /\ turn.req = <<mem.state.steps, mem.requestNumber>>
                      /\ turn.step > 0

\* A request ID and a body that belong together: of a step that was saved before
\* the process started, of a process that crashed and did not save it, or of this one.
AskedIn(r, b, p, d, g, t, h) ==
    LET base == g.state.steps - g.requestNumber IN
    /\ r[2] > 0 /\ (r[2] = 1 => b.step = 1)
    /\ IF p = "dead"
       THEN r[1] <= d.steps \/ (r \in h.unsaved /\ (r[2] > 1 => r[1] <= d.steps + 1))
       ELSE \/ r[1] <= base
            \/ r \in h.unsaved /\ (r[2] > 1 => r[1] <= base + 1)
            \/ /\ r[1] = base + r[2] /\ r[2] <= g.requestNumber
               /\ r[2] = g.requestNumber =>
                     /\ p = "call" => b = [msg |-> t.msg, step |-> t.step]
                     /\ g.state.steps # d.steps => r = t.req

Asked(r, b) == AskedIn(r, b, pc, disk, mem, turn, hist)

AskedItem(item) == item.type = "model.response" /\ item.answer # None => item.req \in Id /\ Asked(item.req, item.answer)

Identified ==
    /\ \A r \in DOMAIN requests : Asked(r, requests[r])
    /\ \A i \in DOMAIN ctl.batch :
          LET b == ctl.batch[i] IN b.body # None => b.e.req \in Id /\ Asked(b.e.req, b.body)
    /\ \A i \in DOMAIN work : work[i].op = "upload" => AskedItem(work[i].item)
    /\ \A item \in inbox : AskedItem(item)

-----------------------------------------------------------------------------
(* The outbox. *)

Numbered ==
    /\ SequencesNeverRepeat
    /\ position <= last /\ \A i \in DOMAIN outbox : outbox[i].seq <= last
    /\ pc # "dead" => last < mem.next

Recording == \E i \in DOMAIN work : work[i].op = "record"

\* The batch of a controller is what the outbox begins with, after the line that is
\* being recorded.
InStep ==
    /\ ctl.pc = "read" => ctl.batch # <<>>
    /\ ctl.pc = "final" => work = <<>>
    /\ ctl.pc = "down" => work = <<>> /\ ctl.batch = <<>>
    /\ ctl.pc # "down" /\ ~Recording =>
          /\ ctl.sequence = position /\ Len(ctl.batch) <= Len(outbox)
          /\ \A i \in DOMAIN ctl.batch : ctl.batch[i].e = outbox[i]
    /\ \A i \in DOMAIN work : work[i].op = "record" => i = Len(work) /\ work[i].seq = ctl.sequence
    /\ Recording =>
          /\ outbox # <<>> /\ outbox[1].seq = ctl.sequence /\ Len(ctl.batch) < Len(outbox)
          /\ \A i \in DOMAIN ctl.batch : ctl.batch[i].e = outbox[i + 1]
    /\ \A i \in DOMAIN work : work[i].op = "upload" => ItemFits(work[i].item)

-----------------------------------------------------------------------------
(* Replies. *)

Answered(m) == \E r \in replies : r.msg = m
ReplyLine(i, m) == outbox[i].type = "reply" /\ outbox[i].msg = m

Replied ==
    /\ DeliveredIsAnswered
    /\ \A i \in DOMAIN outbox : outbox[i].type \in {"reply", "completed"} => outbox[i].msg \in Message
    /\ \A j \in DOMAIN outbox : outbox[j].type = "completed" /\ outbox[j].status = "completed" =>
          \/ Answered(outbox[j].msg)
          \/ \E i \in 1 .. j - 1 : ReplyLine(i, outbox[j].msg)
    /\ \A i \in DOMAIN work : work[i].op = "deliver" =>
          \/ Answered(work[i].msg)
          \/ \E j \in 1 .. i - 1 : work[j].op = "reply" /\ work[j].msg = work[i].msg
    /\ Recording /\ outbox[1].type = "reply" =>
          \/ Answered(outbox[1].msg)
          \/ \E j \in DOMAIN work : work[j].op = "reply" /\ work[j].msg = outbox[1].msg
    /\ \A m \in Message : Succeeds(plan, m) =>
          Answered(m) \/ Reports(plan, "reply", m) \/ \E j \in DOMAIN outbox : ReplyLine(j, m)

AgentRunInv ==
    /\ AgentType /\ RunType /\ Planned /\ Owed /\ Counted /\ Identified /\ AnswerFits
    /\ Numbered /\ InStep /\ Replied

-----------------------------------------------------------------------------
(* Plans. *)

\* Appending one list of effects to another.
LEMMA Joined ==
    ASSUME NEW S, NEW s \in Seq(S), NEW u \in Seq(S)
    PROVE  /\ s \o u \in Seq(S) /\ Len(s \o u) = Len(s) + Len(u)
           /\ \A i \in 1 .. Len(s) : (s \o u)[i] = s[i]
           /\ \A i \in 1 .. Len(u) : (s \o u)[i + Len(s)] = u[i]
           /\ \A i \in 1 .. Len(s) + Len(u) : i > Len(s) => i - Len(s) \in 1 .. Len(u) /\ (s \o u)[i] = u[i - Len(s)]
OBVIOUS

LEMMA Domain ==
    ASSUME NEW S, NEW s \in Seq(S)
    PROVE  DOMAIN s = 1 .. Len(s) /\ Len(s) \in Nat /\ \A i \in DOMAIN s : s[i] \in S
OBVIOUS

LEMMA Dropped ==
    ASSUME NEW S, NEW s \in Seq(S), s # <<>>
    PROVE  /\ Len(s) \in Nat \ {0} /\ Tail(s) \in Seq(S) /\ Len(Tail(s)) = Len(s) - 1
           /\ Head(s) = s[1] /\ s[1] \in S
           /\ \A i \in 1 .. Len(s) - 1 : Tail(s)[i] = s[i + 1]
OBVIOUS

\* What the two lists report and save, the whole one does.
LEMMA JoinedPlan ==
    ASSUME NEW s \in Seq(Op), NEW u \in Seq(Op)
    PROVE  /\ \A type, m : Reports(s \o u, type, m) <=> Reports(s, type, m) \/ Reports(u, type, m)
           /\ \A m : Succeeds(s \o u, m) <=> Succeeds(s, m) \/ Succeeds(u, m)
           /\ Saves(s \o u) <=> Saves(s) \/ Saves(u)
<1> DEFINE w == s \o u
<1>1. /\ w \in Seq(Op) /\ Len(w) = Len(s) + Len(u)
      /\ \A i \in 1 .. Len(s) : w[i] = s[i]
      /\ \A i \in 1 .. Len(u) : w[i + Len(s)] = u[i]
      /\ \A i \in 1 .. Len(s) + Len(u) : i > Len(s) => i - Len(s) \in 1 .. Len(u) /\ w[i] = u[i - Len(s)]
  BY Joined
<1>2. DOMAIN s = 1 .. Len(s) /\ DOMAIN u = 1 .. Len(u) /\ DOMAIN w = 1 .. Len(w) /\ Len(s) \in Nat /\ Len(u) \in Nat
  BY <1>1, Domain
<1> HIDE DEF w
<1>3. \A i \in DOMAIN s : i \in DOMAIN w /\ w[i] = s[i]
  BY <1>1, <1>2
<1>4. \A j \in DOMAIN u : \E i \in DOMAIN w : w[i] = u[j]
  <2> TAKE j \in DOMAIN u
  <2>1. j + Len(s) \in DOMAIN w /\ w[j + Len(s)] = u[j]
    BY <1>1, <1>2
  <2> QED BY <2>1
<1>5. \A i \in DOMAIN w : (i \in DOMAIN s /\ w[i] = s[i]) \/ \E j \in DOMAIN u : w[i] = u[j]
  <2> TAKE i \in DOMAIN w
  <2>1. CASE i <= Len(s) BY <2>1, <1>1, <1>2
  <2>2. CASE i > Len(s)
    <3>1. i - Len(s) \in DOMAIN u /\ w[i] = u[i - Len(s)]
      BY <2>2, <1>1, <1>2
    <3> QED BY <3>1
  <2> QED BY <2>1, <2>2, <1>1, <1>2
<1>6. ASSUME NEW type, NEW m PROVE Reports(w, type, m) <=> Reports(s, type, m) \/ Reports(u, type, m)
  <2>1. Reports(s, type, m) => Reports(w, type, m) BY <1>3 DEF Reports
  <2>2. Reports(u, type, m) => Reports(w, type, m) BY <1>4 DEF Reports
  <2>3. Reports(w, type, m) => Reports(s, type, m) \/ Reports(u, type, m) BY <1>5 DEF Reports
  <2> QED BY <2>1, <2>2, <2>3
<1>7. Saves(w) <=> Saves(s) \/ Saves(u)
  BY <1>3, <1>4, <1>5 DEF Saves
<1>8. ASSUME NEW m PROVE Succeeds(w, m) <=> Succeeds(s, m) \/ Succeeds(u, m)
  <2>1. Succeeds(s, m) => Succeeds(w, m) BY <1>3 DEF Succeeds
  <2>2. Succeeds(u, m) => Succeeds(w, m) BY <1>4 DEF Succeeds
  <2>3. Succeeds(w, m) => Succeeds(s, m) \/ Succeeds(u, m) BY <1>5 DEF Succeeds
  <2> QED BY <2>1, <2>2, <2>3
<1> QED
  BY <1>6, <1>7, <1>8 DEF w

Inner(p, t) == {o \in Op : Fits(o, p, t) /\ ~Ends(o)}

LEMMA InnerFits ==
    ASSUME NEW p, NEW t, NEW s \in Seq(Inner(p, t))
    PROVE  PlanFits(s, p, t) /\ s \in Seq(Op) /\ \A m : ~Succeeds(s, m)
<1>1. s \in Seq(Op) BY DEF Inner
<1>2. DOMAIN s = 1 .. Len(s) /\ \A i \in DOMAIN s : s[i] \in Inner(p, t)
  BY Domain
<1> QED BY <1>1, <1>2 DEF Inner, PlanFits, Succeeds, Ends

LEMMA JoinedFits ==
    ASSUME NEW p, NEW t, NEW s \in Seq(Inner(p, t)), NEW u, PlanFits(u, p, t)
    PROVE  PlanFits(s \o u, p, t)
<1> DEFINE w == s \o u
<1>0. s \in Seq(Op) /\ u \in Seq(Op)
  BY InnerFits DEF PlanFits
<1>1. /\ w \in Seq(Op) /\ Len(w) = Len(s) + Len(u)
      /\ \A i \in 1 .. Len(s) : w[i] = s[i]
      /\ \A i \in 1 .. Len(u) : w[i + Len(s)] = u[i]
      /\ \A i \in 1 .. Len(s) + Len(u) : i > Len(s) => i - Len(s) \in 1 .. Len(u) /\ w[i] = u[i - Len(s)]
  BY <1>0, Joined
<1>2. DOMAIN s = 1 .. Len(s) /\ DOMAIN u = 1 .. Len(u) /\ DOMAIN w = 1 .. Len(w) /\ Len(s) \in Nat /\ Len(u) \in Nat
  BY <1>0, <1>1, Domain
<1>3. \A i \in DOMAIN s : Fits(s[i], p, t) /\ ~Ends(s[i])
  BY <1>2 DEF Inner
<1> HIDE DEF w
<1>4. ASSUME NEW i \in DOMAIN w PROVE Fits(w[i], p, t) /\ (i < Len(w) => ~Ends(w[i]))
  <2>1. CASE i <= Len(s)
    <3>1. i \in 1 .. Len(s) /\ w[i] = s[i]
      BY <2>1, <1>1, <1>2
    <3> QED BY <3>1, <1>2, <1>3
  <2>2. CASE i > Len(s)
    <3>1. i - Len(s) \in DOMAIN u /\ w[i] = u[i - Len(s)] /\ (i < Len(w) => i - Len(s) < Len(u))
      BY <2>2, <1>1, <1>2
    <3> QED BY <3>1 DEF PlanFits
  <2> QED BY <2>1, <2>2, <1>1, <1>2
<1> QED BY <1>1, <1>4 DEF PlanFits, w

LEMMA DroppedPlan ==
    ASSUME NEW p, NEW t, NEW s, PlanFits(s, p, t), s # <<>>
    PROVE  /\ PlanFits(Tail(s), p, t) /\ Head(s) = s[1] /\ Head(s) \in Op /\ Fits(Head(s), p, t)
           /\ Ends(Head(s)) => Tail(s) = <<>>
           /\ \A type, m : Reports(s, type, m) <=> (Head(s).op = "emit" /\ Head(s).type = type /\ Head(s).msg = m)
                                                    \/ Reports(Tail(s), type, m)
           /\ \A m : Succeeds(s, m) <=> (Success(Head(s)) /\ Head(s).msg = m) \/ Succeeds(Tail(s), m)
           /\ Saves(s) <=> Head(s).op \in Saving \/ Saves(Tail(s))
<1> DEFINE u == Tail(s)
<1>0. s \in Seq(Op) BY DEF PlanFits
<1>1. /\ Len(s) \in Nat \ {0} /\ u \in Seq(Op) /\ Len(u) = Len(s) - 1
      /\ Head(s) = s[1] /\ s[1] \in Op
      /\ \A i \in 1 .. Len(s) - 1 : u[i] = s[i + 1]
  BY <1>0, Dropped
<1>2. DOMAIN s = 1 .. Len(s) /\ DOMAIN u = 1 .. Len(u)
  BY <1>0, <1>1, Domain
<1>8. Ends(s[1]) => u = <<>>
  <2>1. Ends(s[1]) => Len(u) = 0 BY <1>1, <1>2 DEF PlanFits
  <2> QED BY <2>1, <1>1
<1> HIDE DEF u
<1>3. PlanFits(u, p, t)
  <2>1. \A i \in DOMAIN u : i + 1 \in DOMAIN s /\ u[i] = s[i + 1] /\ (i < Len(u) => i + 1 < Len(s))
    BY <1>1, <1>2
  <2> QED BY <2>1, <1>1 DEF PlanFits
<1>4. \A i \in DOMAIN s : i = 1 \/ \E j \in DOMAIN u : u[j] = s[i]
  <2> TAKE i \in DOMAIN s
  <2>1. i # 1 => i - 1 \in DOMAIN u /\ u[i - 1] = s[i]
    BY <1>1, <1>2
  <2> QED BY <2>1
<1>5. \A j \in DOMAIN u : j + 1 \in DOMAIN s /\ u[j] = s[j + 1]
  BY <1>1, <1>2
<1>6. 1 \in DOMAIN s BY <1>1, <1>2
<1>7. Fits(s[1], p, t) BY <1>6 DEF PlanFits
<1>9. \A type, m : Reports(s, type, m) <=> (s[1].op = "emit" /\ s[1].type = type /\ s[1].msg = m) \/ Reports(u, type, m)
  BY <1>4, <1>5, <1>6 DEF Reports
<1>10. Saves(s) <=> s[1].op \in Saving \/ Saves(u)
  BY <1>4, <1>5, <1>6 DEF Saves
<1>11. \A m : Succeeds(s, m) <=> (Success(s[1]) /\ s[1].msg = m) \/ Succeeds(u, m)
  BY <1>4, <1>5, <1>6 DEF Succeeds
<1> QED BY <1>1, <1>3, <1>7, <1>8, <1>9, <1>10, <1>11 DEF u

LEMMA Distinct == None \notin Message /\ None \notin Id /\ None \notin Nat
BY AgentAssumption DEF Id

LEMMA EmitIsOp ==
    ASSUME NEW type \in EventType, NEW msg \in Maybe(Message), NEW req \in Maybe(Id), NEW st \in TurnStatus
    PROVE  Emit(type, msg, req, st) \in Op
BY DEF Emit, Op, EmitOp

\* An emit that reports nothing, or a turn that failed, may stand anywhere.
LEMMA EmitInside ==
    ASSUME NEW type \in EventType, NEW msg \in Maybe(Message), NEW req \in Maybe(Id), NEW st \in TurnStatus,
           NEW p, NEW t, type \in {"reply", "completed"} => msg \in Message, type = "completed" => st # "completed"
    PROVE  Emit(type, msg, req, st) \in Inner(p, t)
<1>1. Emit(type, msg, req, st) \in Op BY EmitIsOp
<1> QED BY <1>1 DEF Emit, Inner, Fits, Ends, Success

LEMMA PlainInside ==
    ASSUME NEW p, NEW t
    PROVE  /\ Note \in Inner(p, t) /\ Close \in Inner(p, t)
           /\ \A o \in {"final", "tool", "save", "baseline"} : [op |-> o] \in Inner(p, t)
<1>1. Note \in Inner(p, t) BY EmitInside DEF Note, EventType, TurnStatus, Maybe
<1>2. Close \in Inner(p, t) BY DEF Close, Op, PlainOp, Inner, Fits, Ends, Success
<1>3. \A o \in {"final", "tool", "save", "baseline"} : [op |-> o] \in Inner(p, t)
  BY DEF Op, PlainOp, Inner, Fits, Ends, Success
<1> QED BY <1>1, <1>2, <1>3

LEMMA MarkDone ==
    ASSUME NEW p, NEW t, NEW item \in Item, item.msg # None => p = "ask" /\ t.msg = item.msg
    PROVE  markDone(item) \in Seq(Inner(p, t)) /\ Saves(markDone(item))
<1>0. item.name \in Nat /\ item.msg \in Maybe(Message) BY DEF Item
<1> DEFINE a == [op |-> "done", name |-> item.name, msg |-> item.msg]
           b == [op |-> "unlink", name |-> item.name]
           c == [op |-> "undone", name |-> item.name]
<1>1. a \in Inner(p, t) BY <1>0 DEF Op, DoneOp, Inner, Fits, Ends, Success
<1>2. b \in Inner(p, t) BY <1>0 DEF Op, NameOp, Inner, Fits, Ends, Success
<1>3. c \in Inner(p, t) BY <1>0 DEF Op, NameOp, Inner, Fits, Ends, Success
<1>4. markDone(item) = <<a, b, c>> BY DEF markDone, Unlink
<1>5. a.op \in Saving BY DEF Saving
<1> HIDE DEF a, b, c
<1>6. <<a, b, c>> \in Seq(Inner(p, t)) BY <1>1, <1>2, <1>3
<1>7. 1 \in DOMAIN <<a, b, c>> /\ <<a, b, c>>[1] = a OBVIOUS
<1> QED BY <1>4, <1>5, <1>6, <1>7 DEF Saves

LEMMA Complete ==
    ASSUME NEW p, NEW t, NEW m \in Message, NEW st \in TurnStatus
    PROVE  /\ PlanFits(complete(m, st), p, t) /\ complete(m, st) \in Seq(Op)
           /\ st # "completed" => complete(m, st) \in Seq(Inner(p, t))
           /\ Reports(complete(m, st), "completed", m) /\ Saves(complete(m, st))
           /\ \A n : Succeeds(complete(m, st), n) => n = m
<1> DEFINE e == Emit("completed", m, None, st)
<1>1. e \in Op /\ (st # "completed" => e \in Inner(p, t))
  BY EmitIsOp, EmitInside DEF EventType, Maybe
<1>2. Close \in Inner(p, t) /\ Close \in Op /\ Close.op \in Saving
  BY PlainInside DEF Inner, Close, Saving
<1>3. e.op = "emit" /\ e.type = "completed" /\ e.msg = m /\ Fits(e, p, t)
  BY DEF Emit, Fits
<1>4. ~Success(Close) BY DEF Success, Close
<1>5. complete(m, st) = <<Close, e>> BY DEF complete
<1> HIDE DEF e
<1>6. /\ <<Close, e>> \in Seq(Op) /\ DOMAIN <<Close, e>> = 1 .. 2 /\ Len(<<Close, e>>) = 2
      /\ <<Close, e>>[1] = Close /\ <<Close, e>>[2] = e
  BY <1>1, <1>2
<1>7. st # "completed" => <<Close, e>> \in Seq(Inner(p, t))
  BY <1>1, <1>2
<1>8. PlanFits(<<Close, e>>, p, t)
  BY <1>2, <1>3, <1>6 DEF PlanFits, Inner
<1>9. Reports(<<Close, e>>, "completed", m) /\ Saves(<<Close, e>>) /\ \A n : Succeeds(<<Close, e>>, n) => n = m
  BY <1>2, <1>3, <1>4, <1>6 DEF Reports, Saves, Succeeds
<1> QED BY <1>5, <1>6, <1>7, <1>8, <1>9

LEMMA StopFits ==
    ASSUME NEW t PROVE PlanFits(Stop, "serve", t) /\ Stop \in Seq(Op) /\ \A m : ~Succeeds(Stop, m)
<1> DEFINE e == [op |-> "exit"]
<1>1. Note \in Inner("serve", t) BY PlainInside
<1>2. e \in Op /\ Fits(e, "serve", t) /\ ~Success(e) /\ ~Success(Note)
  BY <1>1 DEF Op, PlainOp, Fits, Success, Inner, Ends
<1>3. Stop = <<Note, e>> BY DEF Stop
<1> HIDE DEF e
<1>4. /\ <<Note, e>> \in Seq(Op) /\ DOMAIN <<Note, e>> = 1 .. 2 /\ Len(<<Note, e>>) = 2
      /\ <<Note, e>>[1] = Note /\ <<Note, e>>[2] = e
  BY <1>1, <1>2 DEF Inner
<1>5. PlanFits(<<Note, e>>, "serve", t) BY <1>1, <1>2, <1>4 DEF PlanFits, Inner
<1>6. \A m : ~Succeeds(<<Note, e>>, m) BY <1>2, <1>4 DEF Succeeds
<1> QED BY <1>3, <1>4, <1>5, <1>6

LEMMA EmptyPlan ==
    ASSUME NEW p, NEW t
    PROVE  /\ PlanFits(<<>>, p, t) /\ ~Saves(<<>>) /\ <<>> \in Seq(Inner(p, t))
           /\ \A m : ~Succeeds(<<>>, m) /\ \A type : ~Reports(<<>>, type, m)
BY DEF PlanFits, Saves, Succeeds, Reports

LEMMA SeqEmpty == ASSUME NEW S, NEW s \in Seq(S) PROVE s \o <<>> = s /\ <<>> \o s = s
OBVIOUS

LEMMA One == ASSUME NEW S, NEW a \in S PROVE <<a>> \in Seq(S) OBVIOUS
LEMMA Two == ASSUME NEW S, NEW a \in S, NEW b \in S PROVE <<a, b>> \in Seq(S) OBVIOUS

LEMMA BootPlan ==
    ASSUME NEW t, NEW m \in Maybe(Message)
    PROVE  /\ PlanFits(Boot(m), "serve", t) /\ Boot(m) # <<>> /\ Boot(m)[1] = Note
           /\ m # None => Reports(Boot(m), "completed", m)
           /\ \A n : ~Succeeds(Boot(m), n)
<1> DEFINE I == Inner("serve", t)
           h == <<Note, [op |-> "baseline"]>>
           c == complete(m, "failed")
<1>1. Note \in I /\ [op |-> "baseline"] \in I BY PlainInside
<1> HIDE DEF I
<1>2. h \in Seq(I) /\ h[1] = Note /\ Len(h) = 2 BY <1>1
<1>3. h \in Seq(Op) /\ PlanFits(h, "serve", t) /\ \A n : ~Succeeds(h, n) BY <1>2, InnerFits DEF I
<1>4. Boot(m) = h \o (IF m = None THEN <<>> ELSE c) BY DEF Boot
<1> HIDE DEF h
<1>5. CASE m = None
  <2>1. Boot(m) = h BY <1>3, <1>4, <1>5, SeqEmpty
  <2> QED BY <2>1, <1>2, <1>3, <1>5
<1>6. CASE m # None
  <2>1. m \in Message /\ "failed" \in TurnStatus /\ "failed" # "completed" BY <1>6 DEF Maybe, TurnStatus
  <2>2. /\ c \in Seq(I) /\ c \in Seq(Op) /\ PlanFits(c, "serve", t) /\ Reports(c, "completed", m)
    BY <2>1, Complete DEF I
  <2>3. \A n : ~Succeeds(c, n) BY <2>2, InnerFits DEF I
  <2>4. Boot(m) = h \o c BY <1>4, <1>6
  <2> HIDE DEF c
  <2>5. PlanFits(h \o c, "serve", t) BY <1>2, <2>2, JoinedFits DEF I
  <2>6. /\ \A type, n : Reports(h \o c, type, n) <=> Reports(h, type, n) \/ Reports(c, type, n)
        /\ \A n : Succeeds(h \o c, n) <=> Succeeds(h, n) \/ Succeeds(c, n)
    BY <1>3, <2>2, JoinedPlan
  <2>7. h \in Seq(Op) /\ c \in Seq(Op) BY <1>3, <2>2
  <2>8. Len(h) = 2 BY <1>2
  <2>9. Len(h \o c) = Len(h) + Len(c) /\ \A i \in 1 .. Len(h) : (h \o c)[i] = h[i] BY <2>7, Joined
  <2>10. Len(h \o c) = 2 + Len(c) /\ (h \o c)[1] = h[1] BY <2>8, <2>9
  <2>11. h \o c # <<>> BY <2>10, <2>2
  <2> QED BY <2>2, <2>3, <2>4, <2>5, <2>6, <2>10, <2>11, <1>2, <1>3
<1> QED BY <1>5, <1>6

-----------------------------------------------------------------------------
(* A process that has made its effects decides what it does next. *)

\* What every decision but that to ask has in common.
Decides ==
    /\ plan = <<>> /\ pc # "dead" /\ pc' \in {"serve", "ask", "call"}
    /\ PlanFits(plan', pc', turn') /\ turn' \in TurnRow
    /\ pc' \in {"ask", "call"} => turn'.msg \in Message
    /\ pc \in {"ask", "call"} =>
          Reports(plan', "completed", turn.msg) \/ (pc' \in {"ask", "call"} /\ turn'.msg = turn.msg)
    /\ pc = "call" =>
          /\ pc' # "call" => Saves(plan')
          /\ turn'.msg = turn.msg /\ turn'.req = turn.req /\ turn'.step = turn.step
    /\ pc' = "call" => pc = "call"
    /\ turn'.step <= turn.step
    /\ \A m : Succeeds(plan', m) => Reports(plan', "reply", m)
    /\ AnswerFits'
    /\ UNCHANGED <<inbox, requests, outbox, last, torn, disk, mem, hist>>

LEMMA NoTurnRow == NoTurn \in TurnRow /\ NoTurn.answer = None /\ NoTurn.step = 0
BY DEF NoTurn, TurnRow, Maybe

LEMMA HandleDecides ==
    ASSUME AgentType, Planned, Handle
    PROVE  Decides
<1>0. /\ pc = "serve" /\ plan = <<>> /\ turn \in TurnRow
      /\ UNCHANGED <<inbox, requests, outbox, last, torn, disk, mem, hist>>
  BY DEF Handle, AgentType
<1>1. PICK item \in pendingInbox :
         /\ plan' = CASE item.type = "message" -> runTurn(item)
                      [] item.type = "finalize" -> finalizeRun \o markDone(item) \o Stop
                      [] item.type = "shutdown" -> markDone(item) \o Stop
                      [] item.type \in {"cancel", "model.response"} -> markDone(item)
                      [] OTHER -> finishItem(item)
         /\ IF item.type = "message"
            THEN pc' = "ask" /\ turn' = [NoTurn EXCEPT !.msg = item.msg]
            ELSE pc' = pc /\ turn' = NoTurn
  BY DEF Handle
<1>2. item \in inbox /\ item \in Item /\ (item.type = "message" <=> item.msg # None)
  BY DEF pendingInbox, AgentType, Planned, ItemFits
<1>3. CASE item.type = "message"
  <2>1. pc' = "ask" /\ turn' = [NoTurn EXCEPT !.msg = item.msg] /\ plan' = runTurn(item)
    BY <1>1, <1>3
  <2>2. item.msg \in Message BY <1>2, <1>3 DEF Item, Maybe
  <2>3. turn' \in TurnRow /\ turn'.msg = item.msg /\ turn'.step = 0 /\ turn'.answer = None
    BY <2>1, <2>2 DEF NoTurn, TurnRow, Maybe
  <2> DEFINE I == Inner("ask", turn')
             h == markDone(item)
             u == <<[op |-> "turn", msg |-> item.msg], Note>>
  <2>4. h \in Seq(I) BY <1>2, <2>3, MarkDone
  <2>5. [op |-> "turn", msg |-> item.msg] \in I
    BY <2>2 DEF Inner, Op, TurnOp, Fits, Ends, Success
  <2>6. Note \in I BY PlainInside
  <2> HIDE DEF I, h
  <2>7. u \in Seq(I) BY <2>5, <2>6
  <2> HIDE DEF u
  <2>8. h \o u \in Seq(I) BY <2>4, <2>7, Joined
  <2>9. PlanFits(h \o u, "ask", turn') /\ \A m : ~Succeeds(h \o u, m) BY <2>8, InnerFits DEF I
  <2>10. plan' = h \o u BY <2>1 DEF runTurn, h, u
  <2>11. turn'.step <= turn.step BY <2>3, <1>0 DEF TurnRow
  <2>12. AnswerFits' BY <2>3 DEF AnswerFits
  <2> QED BY <1>0, <2>1, <2>2, <2>3, <2>9, <2>10, <2>11, <2>12 DEF Decides
<1>4. CASE item.type # "message"
  <2>1. pc' = "serve" /\ turn' = NoTurn /\ item.msg = None
    BY <1>0, <1>1, <1>2, <1>4
  <2> DEFINE I == Inner("serve", turn')
             h == markDone(item)
  <2>2. h \in Seq(I) BY <1>2, <2>1, MarkDone
  <2>3. PlanFits(Stop, "serve", turn') /\ Stop \in Seq(Op) /\ \A m : ~Succeeds(Stop, m) BY StopFits
  <2>4. Note \in I /\ [op |-> "final"] \in I BY PlainInside
  <2>5. Emit("finalized", None, None, "") \in I
    BY EmitInside DEF EventType, TurnStatus, Maybe
  <2>6. finalizeRun \in Seq(I)
    <3> DEFINE a == [op |-> "final"]
               b == Emit("finalized", None, None, "")
    <3>1. finalizeRun = <<a, b>> BY DEF finalizeRun
    <3>2. a \in I /\ b \in I BY <2>4, <2>5
    <3> HIDE DEF I, a, b
    <3> QED BY <3>1, <3>2, Two
  <2> HIDE DEF h
  <2>7. PlanFits(plan', "serve", turn') /\ \A m : ~Succeeds(plan', m)
    <3>1. CASE item.type = "finalize"
      <4>1. plan' = (finalizeRun \o h) \o Stop BY <1>1, <3>1 DEF h
      <4>2. finalizeRun \o h \in Seq(I)
        <5> HIDE DEF I
        <5> QED BY <2>2, <2>6, Joined
      <4>3. finalizeRun \o h \in Seq(Op) /\ \A m : ~Succeeds(finalizeRun \o h, m) BY <4>2, InnerFits
      <4>4. PlanFits((finalizeRun \o h) \o Stop, "serve", turn') BY <2>3, <4>2, JoinedFits
      <4>5. \A m : ~Succeeds((finalizeRun \o h) \o Stop, m) BY <2>3, <4>3, JoinedPlan
      <4> QED BY <4>1, <4>4, <4>5
    <3>2. CASE item.type = "shutdown"
      <4>1. plan' = h \o Stop BY <1>1, <3>2 DEF h
      <4>3. h \in Seq(Op) /\ \A m : ~Succeeds(h, m) BY <2>2, InnerFits
      <4>4. PlanFits(h \o Stop, "serve", turn') BY <2>3, <2>2, JoinedFits
      <4>5. \A m : ~Succeeds(h \o Stop, m) BY <2>3, <4>3, JoinedPlan
      <4> QED BY <4>1, <4>4, <4>5
    <3>3. CASE item.type \in {"cancel", "model.response"}
      <4>1. plan' = h BY <1>1, <3>3 DEF h
      <4> QED BY <4>1, <2>2, InnerFits
    <3>4. CASE item.type \notin {"message", "finalize", "shutdown", "cancel", "model.response"}
      <4>1. plan' = <<Note>> \o h BY <1>1, <3>4 DEF h, finishItem
      <4>2. <<Note>> \in Seq(I)
        <5> HIDE DEF I
        <5> QED BY <2>4
      <4>3. <<Note>> \o h \in Seq(I)
        <5> HIDE DEF I
        <5> QED BY <2>2, <4>2, Joined
      <4> QED BY <4>1, <4>3, InnerFits
    <3> QED BY <1>4, <3>1, <3>2, <3>3, <3>4
  <2>8. turn' \in TurnRow /\ turn'.step <= turn.step BY <2>1, <1>0, NoTurnRow DEF TurnRow
  <2>9. AnswerFits' BY <2>1, NoTurnRow DEF AnswerFits
  <2> QED BY <1>0, <2>1, <2>7, <2>8, <2>9 DEF Decides
<1> QED BY <1>3, <1>4

\* A turn that waits for its model ends.
LEMMA TurnEndsDecides ==
    ASSUME AgentType, Planned, Counted, pc = "call", plan = <<>>,
           NEW before \in Seq(Inner("serve", turn')), NEW reply \in Seq(Inner("serve", turn')),
           NEW st \in {"completed", "failed", "cancelled"}, NEW after, after = <<>> \/ (after = Stop /\ st # "completed"),
           st = "completed" => Reports(reply, "reply", turn.msg),
           TurnEnds(before, reply, st, after),
           turn' \in TurnRow, turn'.msg = turn.msg, turn'.req = turn.req, turn'.step = turn.step, AnswerFits',
           UNCHANGED <<inbox, requests, outbox, last, torn, disk, mem, hist>>
    PROVE  Decides
<1>a. turn \in TurnRow /\ turn.msg \in Message /\ turn.req \in Id
  <2>1. turn \in TurnRow /\ turn.msg \in Message BY DEF AgentType, Planned
  <2>2. mem.state.steps \in Nat /\ mem.requestNumber \in Nat BY DEF AgentType, State
  <2>3. turn.req = <<mem.state.steps, mem.requestNumber>> BY DEF Counted
  <2> QED BY <2>1, <2>2, <2>3 DEF Id
<1> DEFINE I == Inner("serve", turn')
           c == complete(turn.msg, st)
           f == Forget
           s == before \o <<f>> \o reply \o complete(turn.msg, st) \o after
<1>1. f \in I BY <1>a DEF f, Forget, Op, RequestOp, Inner, Fits, Ends, Success
<1>2. <<f>> \in Seq(I) BY <1>1, One
<1> HIDE DEF I, f
<1>3. before \in Seq(I) /\ reply \in Seq(I) BY DEF I
<1>4. before \o <<f>> \in Seq(I) BY <1>2, <1>3, Joined
<1> DEFINE h == before \o <<f>>
           k == h \o reply
<1>5. k \in Seq(I) /\ h \in Seq(I) BY <1>3, <1>4, Joined
<1>6. s = k \o c \o after OBVIOUS
<1>7. st \in TurnStatus BY DEF TurnStatus
<1>8. /\ PlanFits(c, "serve", turn') /\ c \in Seq(Op) /\ (st # "completed" => c \in Seq(I))
      /\ Reports(c, "completed", turn.msg) /\ Saves(c)
      /\ \A n : Succeeds(c, n) => n = turn.msg
  BY <1>7, <1>a, Complete DEF I
<1> HIDE DEF h, k, c, s
<1>9. k \in Seq(Op) /\ \A m : ~Succeeds(k, m) BY <1>5, InnerFits DEF I
<1>9a. h \in Seq(Op) /\ \A m : ~Succeeds(h, m) BY <1>5, InnerFits DEF I
<1>9b. reply \in Seq(Op) BY InnerFits
<1>10. \A m : Reports(reply, "reply", m) => Reports(k, "reply", m)
  BY <1>9a, <1>9b, JoinedPlan DEF k
<1> DEFINE g == k \o c
<1>11. /\ g \in Seq(Op) /\ PlanFits(g, "serve", turn') /\ Saves(g) /\ Reports(g, "completed", turn.msg)
       /\ \A m : Succeeds(g, m) => m = turn.msg
       /\ \A m : Reports(reply, "reply", m) => Reports(g, "reply", m)
       /\ st # "completed" => g \in Seq(I)
  <2>1. PlanFits(g, "serve", turn') BY <1>5, <1>8, JoinedFits DEF I
  <2>2. g \in Seq(Op) BY <1>8, <1>9, Joined
  <2>3. st # "completed" => g \in Seq(I) BY <1>5, <1>8, Joined
  <2>4. /\ \A type, m : Reports(g, type, m) <=> Reports(k, type, m) \/ Reports(c, type, m)
        /\ \A m : Succeeds(g, m) <=> Succeeds(k, m) \/ Succeeds(c, m)
        /\ Saves(g) <=> Saves(k) \/ Saves(c)
    BY <1>8, <1>9, JoinedPlan
  <2> HIDE DEF g
  <2> QED BY <2>1, <2>2, <2>3, <2>4, <1>8, <1>9, <1>10
<1>12. s = g \o after BY <1>6
<1> HIDE DEF g
<1> DEFINE G == /\ PlanFits(s, "serve", turn') /\ Saves(s) /\ Reports(s, "completed", turn.msg)
                /\ \A m : Succeeds(s, m) => m = turn.msg /\ st = "completed"
                /\ \A m : Reports(reply, "reply", m) => Reports(s, "reply", m)
<1>13. ASSUME after = <<>> PROVE G
  <2>1. s = g BY <1>11, <1>12, <1>13, SeqEmpty
  <2>2. st # "completed" => \A m : ~Succeeds(g, m) BY <1>11, InnerFits DEF I
  <2> QED BY <2>1, <2>2, <1>11
<1>14. ASSUME after = Stop, st # "completed" PROVE G
  <2>1. PlanFits(Stop, "serve", turn') /\ Stop \in Seq(Op) /\ \A m : ~Succeeds(Stop, m) BY StopFits
  <2>2. g \in Seq(I) /\ \A m : ~Succeeds(g, m) BY <1>11, <1>14, InnerFits DEF I
  <2>3. PlanFits(s, "serve", turn') BY <2>1, <2>2, <1>12, <1>14, JoinedFits DEF I
  <2>4. /\ \A type, m : Reports(g \o Stop, type, m) <=> Reports(g, type, m) \/ Reports(Stop, type, m)
        /\ \A m : Succeeds(g \o Stop, m) <=> Succeeds(g, m) \/ Succeeds(Stop, m)
        /\ Saves(g \o Stop) <=> Saves(g) \/ Saves(Stop)
    BY <2>1, <1>11, JoinedPlan
  <2>5. s = g \o Stop BY <1>12, <1>14
  <2> QED BY <2>1, <2>2, <2>3, <2>4, <2>5, <1>11
<1>15. G
  <2> HIDE DEF G
  <2> QED BY <1>13, <1>14
<1>16. plan' = s /\ pc' = "serve" BY DEF TurnEnds, s, f, Forget
<1>17. turn'.step <= turn.step BY <1>a DEF TurnRow
<1> QED BY <1>a, <1>15, <1>16, <1>17 DEF Decides

\* The turn in flight has the ID of this process's last request.
LEMMA Calling ==
    ASSUME AgentType, Planned, Counted, pc = "call"
    PROVE  /\ turn \in TurnRow /\ turn.msg \in Message /\ turn.req \in Id
           /\ mem.state.steps \in Nat /\ mem.requestNumber \in Nat
           /\ turn.req[1] = mem.state.steps /\ turn.req[2] = mem.requestNumber
           /\ turn.step \in Nat /\ turn.step > 0 /\ turn.step <= mem.requestNumber
<1>1. turn \in TurnRow /\ turn.msg \in Message /\ turn.step \in Nat BY DEF AgentType, Planned, TurnRow
<1>2. mem.state.steps \in Nat /\ mem.requestNumber \in Nat BY DEF AgentType, State
<1>3. turn.req = <<mem.state.steps, mem.requestNumber>> /\ turn.step > 0 /\ turn.step <= mem.requestNumber BY DEF Counted
<1> QED BY <1>1, <1>2, <1>3 DEF Id

\* The answer that a request's ID brings is one to its step, and to its message
\* but for an ID that a crashed process has used.
LEMMA AnswerOfRequest ==
    ASSUME AgentType, Planned, Counted, pc = "call", NEW b \in Body, Asked(turn.req, b)
    PROVE  b.step = turn.step /\ (b.msg = turn.msg \/ turn.req \in hist.unsaved)
<1>1. /\ turn \in TurnRow /\ turn.msg \in Message /\ turn.req \in Id
      /\ mem.state.steps \in Nat /\ mem.requestNumber \in Nat
      /\ turn.req[1] = mem.state.steps /\ turn.req[2] = mem.requestNumber
      /\ turn.step \in Nat /\ turn.step > 0 /\ turn.step <= mem.requestNumber
  BY Calling
<1>2. /\ turn.req[2] > 0 /\ (turn.req[2] = 1 => b.step = 1)
      /\ \/ turn.req[1] <= Base
         \/ turn.req \in hist.unsaved /\ (turn.req[2] > 1 => turn.req[1] <= Base + 1)
         \/ turn.req[2] = mem.requestNumber => b = [msg |-> turn.msg, step |-> turn.step]
  BY DEF Asked, AskedIn, Base
<1>3. ~(turn.req[1] <= Base) BY <1>1 DEF Base
<1>4. CASE turn.req \in hist.unsaved /\ (turn.req[2] > 1 => turn.req[1] <= Base + 1)
  <2>1. mem.requestNumber = 1 BY <1>1, <1>4 DEF Base
  <2> QED BY <2>1, <1>1, <1>2, <1>4
<1>5. CASE turn.req[2] = mem.requestNumber => b = [msg |-> turn.msg, step |-> turn.step]
  BY <1>1, <1>5
<1> QED BY <1>2, <1>3, <1>4, <1>5

LEMMA PollDecides ==
    ASSUME AgentType, Planned, Counted, Identified, AnswerFits, Poll
    PROVE  Decides
<1>0. /\ pc = "call" /\ plan = <<>>
      /\ UNCHANGED <<inbox, requests, outbox, last, torn, disk, mem, hist>>
  BY DEF Poll
<1>1. /\ turn \in TurnRow /\ turn.msg \in Message /\ turn.req \in Id /\ turn.step \in Nat
  BY <1>0, Calling
<1>2. PICK item \in pendingInbox :
         /\ InTurn(item)
         /\ CASE item.type = "shutdown" -> TurnEnds(<<>>, <<>>, "cancelled", Stop) /\ turn' = turn
              [] item.type = "cancel" -> TurnEnds(markDone(item), <<>>, "cancelled", <<>>) /\ turn' = turn
              [] Answers(item) -> Answer(item)
              [] OTHER -> plan' = markDone(item) /\ UNCHANGED <<pc, turn>>
  BY DEF Poll
<1>3. /\ item \in inbox /\ item \in Item /\ item.msg = None /\ AskedItem(item)
      /\ item.type = "model.response" => item.kind \in {"text", "tools", "error"}
  BY <1>2 DEF pendingInbox, AgentType, Planned, ItemFits, Identified, InTurn
<1>4. /\ \A p, t : markDone(item) \in Seq(Inner(p, t)) /\ Saves(markDone(item))
      /\ \A p, t : <<>> \in Seq(Inner(p, t))
  BY <1>3, MarkDone, EmptyPlan
<1>5. turn' = turn => AnswerFits' BY <1>0 DEF AnswerFits
<1>6. CASE item.type = "shutdown"
  <2>1. TurnEnds(<<>>, <<>>, "cancelled", Stop) /\ turn' = turn BY <1>2, <1>6 DEF Answers
  <2> QED BY <2>1, <1>0, <1>1, <1>4, <1>5, TurnEndsDecides
<1>7. CASE item.type = "cancel"
  <2>1. TurnEnds(markDone(item), <<>>, "cancelled", <<>>) /\ turn' = turn BY <1>2, <1>7 DEF Answers
  <2> QED BY <2>1, <1>0, <1>1, <1>4, <1>5, TurnEndsDecides
<1>8. CASE item.type = "model.response" /\ ~Answers(item)
  <2>1. plan' = markDone(item) /\ pc' = pc /\ turn' = turn BY <1>2, <1>8
  <2>2. PlanFits(plan', pc', turn') /\ \A m : ~Succeeds(plan', m) BY <2>1, <1>4, InnerFits
  <2> QED BY <2>1, <2>2, <1>0, <1>1, <1>5 DEF Decides
<1>9. CASE item.type = "model.response" /\ Answers(item)
  <2>1. Answer(item) BY <1>2, <1>9
  <2>2. turn' = [turn EXCEPT !.answer = item.answer] /\ item.answer \in Maybe(Body)
    BY <2>1, <1>3 DEF Answer, Item
  <2>3. /\ turn' \in TurnRow /\ turn'.msg = turn.msg /\ turn'.req = turn.req /\ turn'.step = turn.step
        /\ turn'.answer = item.answer
    BY <2>2, <1>1 DEF TurnRow
  <2>4. AnswerFits'
    <3>1. CASE item.answer = None BY <2>3, <3>1 DEF AnswerFits
    <3>2. CASE item.answer # None
      <4>1. item.answer \in Body BY <2>2, <3>2 DEF Maybe
      <4>2. item.req = turn.req BY <1>9 DEF Answers
      <4>3. Asked(turn.req, item.answer) BY <1>3, <1>9, <3>2, <4>2 DEF AskedItem
      <4>4. item.answer.step = turn.step /\ (item.answer.msg = turn.msg \/ turn.req \in hist.unsaved)
        BY <4>1, <4>3, <1>0, AnswerOfRequest
      <4> QED BY <4>4, <2>3, <1>0 DEF AnswerFits
    <3> QED BY <3>1, <3>2
  <2>5. CASE item.kind = "error"
    <3>1. TurnEnds(markDone(item), <<>>, "failed", <<>>) BY <2>1, <2>5 DEF Answer
    <3> QED BY <3>1, <2>3, <2>4, <1>0, <1>4, TurnEndsDecides
  <2>6. CASE item.kind = "text"
    <3> DEFINE e == Emit("reply", turn.msg, None, "")
    <3>1. TurnEnds(markDone(item), <<e>>, "completed", <<>>) BY <2>1, <2>6 DEF Answer
    <3>2. e \in Inner("serve", turn') BY <1>1, EmitInside DEF EventType, TurnStatus, Maybe
    <3>3. e.op = "emit" /\ e.type = "reply" /\ e.msg = turn.msg BY DEF Emit
    <3> HIDE DEF e
    <3>4. <<e>> \in Seq(Inner("serve", turn')) BY <3>2, One
    <3>5. Reports(<<e>>, "reply", turn.msg)
      <4>1. 1 \in DOMAIN <<e>> /\ <<e>>[1] = e OBVIOUS
      <4> QED BY <4>1, <3>3 DEF Reports
    <3> QED BY <3>1, <3>4, <3>5, <2>3, <2>4, <1>0, <1>4, TurnEndsDecides
  <2>7. CASE item.kind = "tools"
    <3> DEFINE I == Inner("ask", turn')
               h == markDone(item)
               u == <<Forget, [op |-> "tool"], Note, [op |-> "save"]>>
    <3>1. plan' = h \o u /\ pc' = "ask" BY <2>1, <2>7 DEF Answer
    <3>2. Forget \in I BY <1>1 DEF Forget, Op, RequestOp, Inner, Fits, Ends, Success
    <3>3. Note \in I /\ [op |-> "tool"] \in I /\ [op |-> "save"] \in I BY PlainInside
    <3>4. h \in Seq(I) /\ Saves(h) BY <1>4
    <3> HIDE DEF I, h
    <3>5. u \in Seq(I) BY <3>2, <3>3
    <3> HIDE DEF u
    <3>6. h \o u \in Seq(I) BY <3>4, <3>5, Joined
    <3>7. h \in Seq(Op) /\ u \in Seq(Op) BY <3>4, <3>5, InnerFits DEF I
    <3>8. Saves(h \o u) BY <3>4, <3>7, JoinedPlan
    <3>9. PlanFits(h \o u, "ask", turn') /\ \A m : ~Succeeds(h \o u, m) BY <3>6, InnerFits DEF I
    <3> QED BY <3>1, <3>8, <3>9, <2>3, <2>4, <1>0, <1>1 DEF Decides
  <2> QED BY <1>3, <1>9, <2>5, <2>6, <2>7
<1> QED BY <1>2, <1>6, <1>7, <1>8, <1>9 DEF InTurn

LEMMA TimeoutDecides ==
    ASSUME AgentType, Planned, Counted, AnswerFits, ModelTimesOut
    PROVE  Decides
<1>1. /\ pc = "call" /\ plan = <<>> /\ turn' = turn /\ TurnEnds(<<>>, <<>>, "failed", <<>>)
      /\ UNCHANGED <<inbox, requests, outbox, last, torn, disk, mem, hist>>
  BY DEF ModelTimesOut
<1>2. turn \in TurnRow BY DEF AgentType
<1>3. AnswerFits' BY <1>1 DEF AnswerFits
<1>4. <<>> \in Seq(Inner("serve", turn')) BY EmptyPlan
<1> QED BY <1>1, <1>2, <1>3, <1>4, TurnEndsDecides

LEMMA SignalDecides ==
    ASSUME AgentType, Planned, Counted, AnswerFits, Signalled
    PROVE  Decides
<1>1. /\ plan = <<>> /\ turn' = turn
      /\ UNCHANGED <<inbox, requests, outbox, last, torn, disk, mem, hist>>
  BY DEF Signalled
<1>2. turn \in TurnRow /\ turn.step <= turn.step BY DEF AgentType, TurnRow
<1>3. AnswerFits' BY <1>1 DEF AnswerFits
<1>4. <<>> \in Seq(Inner("serve", turn')) BY EmptyPlan
<1>5. CASE pc = "serve" /\ plan' = Stop /\ pc' = pc
  <2>1. PlanFits(Stop, "serve", turn') /\ \A m : ~Succeeds(Stop, m) BY StopFits
  <2> QED BY <2>1, <1>1, <1>2, <1>3, <1>5 DEF Decides
<1>6. CASE pc = "call" /\ TurnEnds(<<>>, <<>>, "cancelled", Stop)
  BY <1>1, <1>2, <1>3, <1>4, <1>6, TurnEndsDecides
<1> QED BY <1>5, <1>6 DEF Signalled

-----------------------------------------------------------------------------
(* What the steps of the agent preserve. *)

CtlKept == UNCHANGED <<status, replies, position, ctl, work, names>>

\* IDs and bodies that belong together still do.
AskedStays == \A r \in Id, b \in Body : Asked(r, b) => AskedIn(r, b, pc', disk', mem', turn', hist')

LEMMA Counters ==
    ASSUME AgentType
    PROVE  /\ mem.state.steps \in Nat /\ mem.requestNumber \in Nat /\ mem.next \in Nat
           /\ disk.steps \in Nat /\ turn.step \in Nat
BY DEF AgentType, State, TurnRow

LEMMA IdentifiedKept ==
    ASSUME AgentType, RunType, Identified, AskedStays, inbox' \subseteq inbox, ctl'.batch = ctl.batch, work' = work,
           DOMAIN requests' \subseteq DOMAIN requests, \A r \in DOMAIN requests' : requests'[r] = requests[r]
    PROVE  Identified'
<1> DEFINE Will(r, b) == AskedIn(r, b, pc', disk', mem', turn', hist')
           WillItem(item) == item.type = "model.response" /\ item.answer # None => item.req \in Id /\ Will(item.req, item.answer)
<1>0. \A r \in Id, b \in Body : Asked(r, b) => Will(r, b) BY DEF AskedStays
<1> HIDE DEF Will
<1>1. \A r \in DOMAIN requests' : Will(r, requests'[r])
  BY <1>0 DEF AgentType, Identified
<1>2. ASSUME NEW i \in DOMAIN ctl.batch, ctl.batch[i].body # None
      PROVE  ctl.batch[i].e.req \in Id /\ Will(ctl.batch[i].e.req, ctl.batch[i].body)
  <2>1. ctl.batch \in Seq([e : Line, body : Maybe(Body)]) BY DEF RunType, Controllers
  <2>2. ctl.batch[i] \in [e : Line, body : Maybe(Body)] BY <2>1, Domain
  <2>3. ctl.batch[i].body \in Body BY <2>2, <1>2 DEF Maybe
  <2>4. ctl.batch[i].e.req \in Id /\ Asked(ctl.batch[i].e.req, ctl.batch[i].body) BY <1>2 DEF Identified
  <2> QED BY <2>3, <2>4, <1>0
<1>3. ASSUME NEW item \in Item, AskedItem(item) PROVE WillItem(item)
  <2>1. item.answer \in Maybe(Body) BY DEF Item
  <2> QED BY <2>1, <1>0, <1>3 DEF AskedItem, Maybe
<1>4. ASSUME NEW i \in DOMAIN work, work[i].op = "upload" PROVE WillItem(work[i].item)
  <2>1. work[i] \in Work BY DEF RunType
  <2>2. work[i].item \in Item BY <2>1, <1>4 DEF Work, UploadWork, ReplyWork, DeliverWork, RecordWork
  <2>3. AskedItem(work[i].item) BY <1>4 DEF Identified
  <2> QED BY <1>3, <2>2, <2>3
<1>5. \A item \in inbox' : WillItem(item)
  <2> TAKE item \in inbox'
  <2>1. item \in inbox /\ item \in Item /\ AskedItem(item) BY DEF AgentType, Identified
  <2> QED BY <1>3, <2>1
<1> HIDE DEF WillItem
<1>6. /\ \A i \in DOMAIN ctl'.batch :
            ctl'.batch[i].body # None => ctl'.batch[i].e.req \in Id /\ Will(ctl'.batch[i].e.req, ctl'.batch[i].body)
      /\ \A i \in DOMAIN work' : work'[i].op = "upload" => WillItem(work'[i].item)
  BY <1>2, <1>4
<1> QED BY <1>1, <1>5, <1>6 DEF Identified, Asked, AskedItem, Will, WillItem

LEMMA DecidesAsked ==
    ASSUME AgentType, Counted, Decides
    PROVE  AskedStays
<1>1. /\ mem.state.steps \in Nat /\ mem.requestNumber \in Nat /\ disk.steps \in Nat BY Counters
<1>2. pc # "dead" /\ pc' # "dead" /\ mem' = mem /\ disk' = disk /\ hist' = hist /\ (pc' = "call" => pc = "call")
  BY DEF Decides
<1>3. mem.state.steps # disk.steps => pc = "call" BY EmptyPlan, <1>2 DEF Counted, Decides
<1>4. pc = "call" => turn'.msg = turn.msg /\ turn'.req = turn.req /\ turn'.step = turn.step BY DEF Decides
<1> QED BY <1>1, <1>2, <1>3, <1>4 DEF AskedStays, Asked, AskedIn, Base

LEMMA DecidesKeeps ==
    ASSUME AgentRunInv, Decides, CtlKept
    PROVE  AgentRunInv'
<1>0. AgentType /\ RunType /\ Planned /\ Owed /\ Counted /\ Identified /\ Numbered /\ InStep /\ Replied
  BY DEF AgentRunInv
<1>1. /\ UNCHANGED <<inbox, requests, outbox, last, torn, disk, mem, hist>> /\ plan = <<>> /\ pc # "dead"
      /\ pc' \in {"serve", "ask", "call"} /\ PlanFits(plan', pc', turn') /\ turn' \in TurnRow /\ AnswerFits'
  BY DEF Decides
<1>2. AgentType' BY <1>0, <1>1 DEF AgentType
<1>3. RunType' BY <1>0 DEF RunType, CtlKept
<1>4. ~torn BY <1>0, <1>1 DEF Planned
<1>5. Planned' BY <1>0, <1>1, <1>4 DEF Planned, Decides
<1>6. Owed'
  <2>1. \A m \in hist.open : m \in hist.lost \/ (pc \in {"ask", "call"} /\ m = turn.msg)
    BY <1>0, <1>1, EmptyPlan DEF Owed
  <2> QED BY <2>1, <1>1 DEF Owed, Decides
<1>7. Counted'
  <2>1. /\ mem.state.steps \in Nat /\ mem.requestNumber \in Nat /\ disk.steps \in Nat /\ turn.step \in Nat BY <1>0, Counters
  <2>2. mem.state.steps # disk.steps => pc = "call" BY <1>0, <1>1, EmptyPlan DEF Counted
  <2>3. turn'.step \in Nat /\ turn'.step <= turn.step BY <1>1 DEF Decides, TurnRow
  <2>4. pc = "call" => (pc' # "call" => Saves(plan')) BY DEF Decides
  <2>5. pc' = "call" => pc = "call" /\ turn'.req = turn.req /\ turn'.step = turn.step BY DEF Decides
  <2> QED BY <2>1, <2>2, <2>3, <2>4, <2>5, <1>0, <1>1 DEF Counted, Base
<1>8. Identified'
  <2>1. AskedStays BY <1>0, DecidesAsked
  <2> QED BY <2>1, <1>0, <1>1, IdentifiedKept DEF CtlKept
<1>9. Numbered' BY <1>0, <1>1 DEF Numbered, SequencesNeverRepeat, CtlKept
<1>10. InStep' BY <1>0, <1>1 DEF InStep, Recording, CtlKept
<1>11. Replied'
  <2>1. \A m \in Message : Succeeds(plan', m) => Reports(plan', "reply", m) BY DEF Decides
  <2> QED BY <2>1, <1>0, <1>1 DEF Replied, DeliveredIsAnswered, Answered, ReplyLine, Recording, CtlKept
<1> QED BY <1>1, <1>2, <1>3, <1>5, <1>6, <1>7, <1>8, <1>9, <1>10, <1>11 DEF AgentRunInv

LEMMA OpRows ==
    ASSUME NEW o \in Op
    PROVE  /\ o.op = "emit" => o.type \in EventType /\ o.msg \in Maybe(Message) /\ o.req \in Maybe(Id) /\ o.status \in TurnStatus
           /\ o.op = "done" => o.name \in Nat /\ o.msg \in Maybe(Message)
           /\ o.op \in {"unlink", "undone"} => o.name \in Nat
           /\ o.op = "turn" => o.msg \in Message
           /\ o.op \in {"ask", "forget"} => o.req \in Id
BY DEF Op, EmitOp, DoneOp, NameOp, TurnOp, RequestOp, PlainOp

\* What every effect but the exit has in common.
Acts ==
    /\ plan # <<>> /\ plan' = Tail(plan) /\ pc' = pc /\ turn' = turn /\ Head(plan).op # "exit"
    /\ mem'.state.steps = mem.state.steps /\ mem'.requestNumber = mem.requestNumber
    /\ IF Head(plan).op \in Saving THEN disk'.steps = mem.state.steps ELSE disk' = disk
    /\ hist'.lost = hist.lost /\ hist'.unsaved = hist.unsaved
    /\ \A m \in hist'.open :
          \/ m \in hist.open /\ ~(Head(plan).op = "emit" /\ Head(plan).type = "completed" /\ Head(plan).msg = m)
          \/ pc = "ask" /\ m = turn.msg
    /\ torn' = FALSE \/ (torn' = torn /\ Head(plan).op # "emit")
    /\ inbox' \subseteq inbox

LEMMA Acting ==
    ASSUME AgentRunInv, plan # <<>>
    PROVE  /\ PlanFits(Tail(plan), pc, turn) /\ Head(plan) = plan[1] /\ Head(plan) \in Op /\ Fits(Head(plan), pc, turn)
           /\ Ends(Head(plan)) => Tail(plan) = <<>>
           /\ \A type, m : Reports(plan, type, m) <=> (Head(plan).op = "emit" /\ Head(plan).type = type /\ Head(plan).msg = m)
                                                       \/ Reports(Tail(plan), type, m)
           /\ \A m : Succeeds(plan, m) <=> (Success(Head(plan)) /\ Head(plan).msg = m) \/ Succeeds(Tail(plan), m)
           /\ Saves(plan) <=> Head(plan).op \in Saving \/ Saves(Tail(plan))
           /\ pc # "dead" /\ (torn => Head(plan) = Note)
<1>1. PlanFits(plan, pc, turn) /\ pc # "dead" /\ (torn => plan[1] = Note) BY DEF AgentRunInv, Planned
<1> QED BY <1>1, DroppedPlan

LEMMA ActsKeeps ==
    ASSUME AgentRunInv, Acts, AgentType', CtlKept
    PROVE  RunType' /\ Planned' /\ Owed' /\ Counted' /\ AskedStays /\ AnswerFits'
<1>0. AgentType /\ RunType /\ Planned /\ Owed /\ Counted /\ AnswerFits
  BY DEF AgentRunInv
<1>1. /\ plan # <<>> /\ plan' = Tail(plan) /\ pc' = pc /\ turn' = turn /\ Head(plan).op # "exit"
      /\ hist'.lost = hist.lost /\ hist'.unsaved = hist.unsaved
  BY DEF Acts
<1>2. /\ PlanFits(Tail(plan), pc, turn)
      /\ \A m : Reports(plan, "completed", m) <=> (Head(plan).op = "emit" /\ Head(plan).type = "completed" /\ Head(plan).msg = m)
                                                   \/ Reports(Tail(plan), "completed", m)
      /\ Saves(plan) <=> Head(plan).op \in Saving \/ Saves(Tail(plan))
      /\ pc # "dead" /\ (torn => Head(plan) = Note)
  BY <1>1, Acting
<1>3. RunType' BY <1>0 DEF RunType, CtlKept
<1>4. Planned'
  <2>1. ~torn'
    <3>1. Note.op = "emit" BY DEF Note, Emit
    <3> QED BY <3>1, <1>2 DEF Acts
  <2> QED BY <2>1, <1>0, <1>1, <1>2 DEF Planned, Acts
<1>5. Owed'
  <2> SUFFICES ASSUME NEW m \in hist'.open
               PROVE  m \in hist.lost \/ (pc \in {"ask", "call"} /\ m = turn.msg) \/ Reports(Tail(plan), "completed", m)
    BY <1>1 DEF Owed
  <2>1. \/ m \in hist.open /\ ~(Head(plan).op = "emit" /\ Head(plan).type = "completed" /\ Head(plan).msg = m)
        \/ pc = "ask" /\ m = turn.msg
    BY DEF Acts
  <2>2. m \in hist.open => m \in hist.lost \/ (pc \in {"ask", "call"} /\ m = turn.msg) \/ Reports(plan, "completed", m)
    BY <1>0, <1>2 DEF Owed
  <2> QED BY <2>1, <2>2, <1>2
<1>6. /\ mem.state.steps \in Nat /\ mem.requestNumber \in Nat /\ disk.steps \in Nat /\ turn.step \in Nat
      /\ disk'.steps \in Nat
  BY <1>0, Counters DEF AgentType, State
<1>7. /\ mem'.state.steps = mem.state.steps /\ mem'.requestNumber = mem.requestNumber
      /\ disk'.steps = mem.state.steps \/ (Head(plan).op \notin Saving /\ disk'.steps = disk.steps)
  BY DEF Acts
<1>8. Counted' BY <1>0, <1>1, <1>2, <1>6, <1>7 DEF Counted, Base
<1>9. AskedStays
  <2>1. mem'.state.steps # disk'.steps => mem.state.steps # disk.steps BY <1>7
  <2> QED BY <2>1, <1>1, <1>2, <1>7 DEF AskedStays, Asked, AskedIn
<1>10. AnswerFits' BY <1>0, <1>1 DEF AnswerFits
<1> QED BY <1>3, <1>4, <1>5, <1>8, <1>9, <1>10

\* Effects that leave the outbox as it is.
LEMMA QuietKeeps ==
    ASSUME AgentRunInv, Acts, Head(plan).op # "emit", CtlKept, UNCHANGED <<outbox, last>>, mem'.next = mem.next
    PROVE  Numbered' /\ InStep' /\ Replied'
<1>0. Numbered /\ InStep /\ Replied BY DEF AgentRunInv
<1>1. plan # <<>> /\ plan' = Tail(plan) /\ pc' = pc BY DEF Acts
<1>2. /\ \A m : Reports(plan, "reply", m) <=> Reports(Tail(plan), "reply", m)
      /\ \A m : Succeeds(plan, m) <=> Succeeds(Tail(plan), m)
  BY <1>1, Acting DEF Success
<1>3. Numbered' BY <1>0, <1>1 DEF Numbered, SequencesNeverRepeat, CtlKept
<1>4. InStep' BY <1>0 DEF InStep, Recording, CtlKept
<1>5. Replied' BY <1>0, <1>1, <1>2 DEF Replied, DeliveredIsAnswered, Answered, ReplyLine, Recording, CtlKept
<1> QED BY <1>3, <1>4, <1>5

LEMMA EmitKeeps ==
    ASSUME AgentRunInv, EmitStep, CtlKept
    PROVE  AgentRunInv'
<1> DEFINE e == Head(plan)
<1>0. AgentType /\ RunType /\ Planned /\ Identified /\ Numbered /\ InStep /\ Replied
  BY DEF AgentRunInv
<1>1. /\ plan # <<>> /\ plan' = Tail(plan) /\ e.op = "emit" /\ mem' = [mem EXCEPT !.next = @ + 1] /\ torn' = FALSE
      /\ UNCHANGED <<inbox, requests, disk, pc, turn>>
  BY DEF EmitStep, Effect
<1>2. /\ e = plan[1] /\ e \in Op /\ Fits(e, pc, turn) /\ pc # "dead" /\ (torn => e = Note)
      /\ Ends(e) => Tail(plan) = <<>>
      /\ \A m : Reports(plan, "reply", m) <=> (e.type = "reply" /\ e.msg = m) \/ Reports(Tail(plan), "reply", m)
      /\ \A m : Succeeds(plan, m) <=> (Success(e) /\ e.msg = m) \/ Succeeds(Tail(plan), m)
  BY <1>1, Acting
<1>3. e.type \in EventType /\ e.msg \in Maybe(Message) /\ e.req \in Maybe(Id) /\ e.status \in TurnStatus
  BY <1>1, <1>2, OpRows
<1> DEFINE l == [seq |-> mem.next, type |-> e.type, msg |-> e.msg, req |-> e.req, status |-> e.status]
<1>4. IF torn THEN UNCHANGED <<outbox, last, hist>>
      ELSE /\ outbox' = Append(outbox, l) /\ last' = mem.next
           /\ hist' = IF e.type = "completed" THEN [hist EXCEPT !.open = @ \ {e.msg}] ELSE hist
  BY DEF EmitStep
<1>5. torn => e.type = "note"
  <2>1. Note.type = "note" BY DEF Note, Emit
  <2> QED BY <1>2, <2>1
<1>6. mem.next \in Nat /\ mem \in [state : State, requestNumber : Nat, next : Nat] BY <1>0 DEF AgentType
<1> HIDE DEF e
<1>7. l \in Line
  <2> DEFINE t == e.type
             m == e.msg
             r == e.req
             s == e.status
  <2>1. t \in EventType /\ m \in Maybe(Message) /\ r \in Maybe(Id) /\ s \in TurnStatus BY <1>3
  <2>2. l = [seq |-> mem.next, type |-> t, msg |-> m, req |-> r, status |-> s] OBVIOUS
  <2> HIDE DEF t, m, r, s, l
  <2> QED BY <2>1, <2>2, <1>6 DEF Line
<1>8. outbox \in Seq(Line) /\ hist \in [open : SUBSET Message, lost : SUBSET Message, unsaved : SUBSET Id]
  BY <1>0 DEF AgentType
<1>9. mem' \in [state : State, requestNumber : Nat, next : Nat] /\ mem'.state = mem.state
      /\ mem'.requestNumber = mem.requestNumber /\ mem'.next = mem.next + 1
  BY <1>1, <1>6
<1>10. /\ hist' \in [open : SUBSET Message, lost : SUBSET Message, unsaved : SUBSET Id]
       /\ hist'.lost = hist.lost /\ hist'.unsaved = hist.unsaved
       /\ \A m \in hist'.open : m \in hist.open /\ ~(e.type = "completed" /\ e.msg = m)
  BY <1>4, <1>5, <1>8
<1> HIDE DEF l
<1>11. ~torn => /\ outbox' \in Seq(Line) /\ Len(outbox') = Len(outbox) + 1 /\ outbox'[Len(outbox) + 1] = l
                /\ \A i \in 1 .. Len(outbox) : outbox'[i] = outbox[i]
  BY <1>4, <1>7, <1>8
<1>12. AgentType'
  BY <1>0, <1>1, <1>4, <1>6, <1>9, <1>10, <1>11 DEF AgentType
<1>13. Acts BY <1>1, <1>9, <1>10 DEF Acts, e, Saving
<1>14. RunType' /\ Planned' /\ Owed' /\ Counted' /\ AskedStays /\ AnswerFits'
  BY <1>12, <1>13, ActsKeeps
<1>15. Identified' BY <1>0, <1>1, <1>14, IdentifiedKept DEF CtlKept
<1>16. DOMAIN outbox = 1 .. Len(outbox) /\ Len(outbox) \in Nat BY <1>8, Domain
<1>17. ~torn => DOMAIN outbox' = 1 .. Len(outbox) + 1 BY <1>11, Domain
<1>18. \A i \in DOMAIN outbox : outbox[i].seq \in Nat
  <2>1. \A i \in DOMAIN outbox : outbox[i] \in Line BY <1>8, Domain
  <2> QED BY <2>1 DEF Line
<1>19. l.seq = mem.next /\ l.type = e.type /\ l.msg = e.msg /\ l.status = e.status BY DEF l
<1>20. last < mem.next /\ last \in Nat /\ position \in Nat /\ position <= last BY <1>0, <1>2 DEF Numbered, AgentType, RunType
<1>21. Numbered'
  <2>1. CASE torn BY <2>1, <1>0, <1>1, <1>2, <1>4, <1>9, <1>20, <1>6 DEF Numbered, SequencesNeverRepeat, CtlKept
  <2>2. CASE ~torn
    <3>1. last' = mem.next /\ position' = position BY <2>2, <1>4 DEF CtlKept
    <3>2. \A i \in DOMAIN outbox' : (i \in DOMAIN outbox /\ outbox'[i] = outbox[i]) \/ (i = Len(outbox) + 1 /\ outbox'[i] = l)
      <4> TAKE i \in DOMAIN outbox'
      <4>1. i \in 1 .. Len(outbox) \/ i = Len(outbox) + 1 BY <2>2, <1>16, <1>17
      <4>2. outbox'[Len(outbox) + 1] = l /\ \A k \in 1 .. Len(outbox) : outbox'[k] = outbox[k] BY <2>2, <1>11
      <4>3. CASE i \in 1 .. Len(outbox) BY <4>2, <4>3, <1>16
      <4>4. CASE i = Len(outbox) + 1 BY <4>2, <4>4, <1>16
      <4> QED BY <4>1, <4>3, <4>4
    <3>3. \A i \in DOMAIN outbox : position < outbox[i].seq /\ outbox[i].seq <= last
      BY <1>0 DEF Numbered, SequencesNeverRepeat
    <3>4. \A i \in DOMAIN outbox' : position < outbox'[i].seq /\ outbox'[i].seq <= last'
      BY <3>1, <3>2, <3>3, <1>6, <1>18, <1>19, <1>20
    <3>5. \A i, j \in DOMAIN outbox' : i < j => outbox'[i].seq < outbox'[j].seq
      BY <3>2, <3>3, <1>0, <1>6, <1>16, <1>18, <1>19, <1>20 DEF Numbered, SequencesNeverRepeat
    <3> QED BY <3>1, <3>4, <3>5, <1>6, <1>9, <1>20 DEF Numbered, SequencesNeverRepeat
  <2> QED BY <2>1, <2>2
<1>22. InStep'
  <2>1. CASE torn BY <2>1, <1>0, <1>4 DEF InStep, Recording, CtlKept
  <2>2. CASE ~torn
    <3>1. Len(ctl.batch) \in Nat /\ DOMAIN ctl.batch = 1 .. Len(ctl.batch) BY <1>0, Domain DEF RunType, Controllers
    <3>2. outbox # <<>> => Len(outbox) >= 1 BY <1>8
    <3>3. outbox' # <<>> BY <2>2, <1>11, <1>16
    <3> QED BY <2>2, <3>1, <3>2, <3>3, <1>0, <1>11, <1>16 DEF InStep, Recording, CtlKept
  <2> QED BY <2>1, <2>2
<1>23. Replied'
  <2>1. CASE torn
    <3>1. \A m : Succeeds(Tail(plan), m) => Succeeds(plan, m) BY <1>2
    <3>2. \A m : Reports(plan, "reply", m) => Reports(Tail(plan), "reply", m) BY <2>1, <1>2, <1>5
    <3> QED BY <2>1, <3>1, <3>2, <1>0, <1>1, <1>4 DEF Replied, DeliveredIsAnswered, Answered, ReplyLine, Recording, CtlKept
  <2>2. CASE ~torn
    <3> DEFINE n == Len(outbox)
    <3>1. \A i \in DOMAIN outbox : i \in DOMAIN outbox' /\ outbox'[i] = outbox[i] BY <2>2, <1>11, <1>16, <1>17
    <3>2. n + 1 \in DOMAIN outbox' /\ outbox'[n + 1] = l BY <2>2, <1>11, <1>16, <1>17
    <3>3. \A i \in DOMAIN outbox' : i \in DOMAIN outbox \/ i = n + 1 BY <2>2, <1>16, <1>17
    <3>4. e.type \in {"reply", "completed"} => e.msg \in Message BY <1>1, <1>2 DEF Fits, e
    <3>5. \A i \in DOMAIN outbox' : outbox'[i].type \in {"reply", "completed"} => outbox'[i].msg \in Message
      BY <3>1, <3>2, <3>3, <3>4, <1>0, <1>19 DEF Replied
    <3>6. ASSUME NEW j \in DOMAIN outbox', outbox'[j].type = "completed", outbox'[j].status = "completed"
          PROVE  Answered(outbox'[j].msg) \/ \E i \in 1 .. j - 1 : outbox'[i].type = "reply" /\ outbox'[i].msg = outbox'[j].msg
      <4>1. CASE j \in DOMAIN outbox
        <5>1. outbox'[j] = outbox[j] BY <4>1, <3>1
        <5>2. Answered(outbox[j].msg) \/ \E i \in 1 .. j - 1 : ReplyLine(i, outbox[j].msg) BY <4>1, <5>1, <3>6, <1>0 DEF Replied
        <5>3. \A i \in 1 .. j - 1 : i \in DOMAIN outbox BY <4>1, <1>16
        <5> QED BY <5>1, <5>2, <5>3, <3>1 DEF ReplyLine
      <4>2. CASE j = n + 1
        <5>1. e.type = "completed" /\ e.status = "completed" /\ outbox'[j].msg = e.msg BY <4>2, <3>2, <3>6, <1>19
        <5>2. Success(e) /\ Ends(e) BY <5>1, <1>1 DEF Success, Ends, e
        <5>3. Succeeds(plan, e.msg) /\ ~Reports(plan, "reply", e.msg)
          <6>1. Tail(plan) = <<>> BY <5>2, <1>2
          <6>2. ~Reports(Tail(plan), "reply", e.msg) BY <6>1, EmptyPlan
          <6> QED BY <6>2, <5>1, <5>2, <1>2
        <5>4. e.msg \in Message BY <5>1, <3>4
        <5>5. Answered(e.msg) \/ \E i \in DOMAIN outbox : ReplyLine(i, e.msg) BY <5>3, <5>4, <1>0 DEF Replied
        <5>6. \A i \in DOMAIN outbox : i \in 1 .. j - 1 BY <4>2, <1>16
        <5> QED BY <5>1, <5>5, <5>6, <3>1 DEF ReplyLine
      <4> QED BY <4>1, <4>2, <3>3
    <3>7. ASSUME NEW m \in Message, Succeeds(Tail(plan), m)
          PROVE  Answered(m) \/ Reports(Tail(plan), "reply", m) \/ \E j \in DOMAIN outbox' : outbox'[j].type = "reply" /\ outbox'[j].msg = m
      <4>1. Answered(m) \/ Reports(plan, "reply", m) \/ \E j \in DOMAIN outbox : ReplyLine(j, m) BY <3>7, <1>0, <1>2 DEF Replied
      <4>2. CASE e.type = "reply" /\ e.msg = m BY <4>2, <3>2, <1>19
      <4>3. CASE ~(e.type = "reply" /\ e.msg = m) BY <4>1, <4>3, <3>1, <1>2 DEF ReplyLine
      <4> QED BY <4>2, <4>3
    <3>8. Recording => 1 \in DOMAIN outbox BY <1>0, <1>8, <1>16 DEF InStep
    <3>9. Recording => outbox'[1] = outbox[1] BY <3>1, <3>8
    <3> QED BY <3>5, <3>6, <3>7, <3>9, <1>0, <1>1 DEF Replied, DeliveredIsAnswered, Answered, ReplyLine, Recording, CtlKept
  <2> QED BY <2>1, <2>2
<1> QED BY <1>12, <1>14, <1>15, <1>21, <1>22, <1>23 DEF AgentRunInv

LEMMA SaveKeeps ==
    ASSUME AgentRunInv, SaveStep, CtlKept
    PROVE  AgentRunInv'
<1> DEFINE e == Head(plan)
<1>0. AgentType /\ RunType /\ Identified BY DEF AgentRunInv
<1>1. /\ plan # <<>> /\ plan' = Tail(plan) /\ e.op \in Saving
      /\ UNCHANGED <<inbox, requests, outbox, last, torn, pc, turn>>
  BY DEF SaveStep, Effect, Saving
<1>2. e \in Op /\ Fits(e, pc, turn) BY <1>1, Acting
<1>3. /\ mem \in [state : State, requestNumber : Nat, next : Nat]
      /\ hist \in [open : SUBSET Message, lost : SUBSET Message, unsaved : SUBSET Id]
  BY <1>0 DEF AgentType
<1>4. PICK s : persist(s) /\ s \in State /\ s.steps = mem.state.steps
  <2>1. mem.state \in State BY <1>3
  <2>2. CASE Effect("done") /\ persist([mem.state EXCEPT !.done = @ \cup {e.name}])
    <3>1. e.name \in Nat BY <2>2, <1>2, OpRows DEF Effect
    <3> QED BY <2>1, <2>2, <3>1 DEF State
  <2>3. CASE Effect("undone") /\ persist([mem.state EXCEPT !.done = @ \ {e.name}])
    BY <2>1, <2>3 DEF State
  <2>4. CASE Effect("turn") /\ persist([mem.state EXCEPT !.current = e.msg])
    <3>1. e.msg \in Message BY <2>4, <1>2, OpRows DEF Effect
    <3> QED BY <2>1, <2>4, <3>1 DEF State, Maybe
  <2>5. CASE Effect("close") /\ persist([mem.state EXCEPT !.current = None])
    BY <2>1, <2>5 DEF State, Maybe
  <2>6. CASE Effect("final") /\ persist([mem.state EXCEPT !.finalized = TRUE])
    <3>1. [mem.state EXCEPT !.finalized = TRUE] \in State /\ [mem.state EXCEPT !.finalized = TRUE].steps = mem.state.steps
      BY <2>1 DEF State
    <3> QED BY <2>6, <3>1
  <2>7. CASE Effect("save") /\ persist(mem.state)
    BY <2>1, <2>7
  <2> QED BY <2>2, <2>3, <2>4, <2>5, <2>6, <2>7 DEF SaveStep
<1>5. /\ mem' = [mem EXCEPT !.state = s] /\ disk' = s BY <1>4 DEF persist
<1>6. /\ mem' \in [state : State, requestNumber : Nat, next : Nat] /\ mem'.state.steps = mem.state.steps
      /\ mem'.requestNumber = mem.requestNumber /\ mem'.next = mem.next /\ disk' \in State /\ disk'.steps = mem.state.steps
  BY <1>3, <1>4, <1>5
<1>7. /\ hist' \in [open : SUBSET Message, lost : SUBSET Message, unsaved : SUBSET Id]
      /\ hist'.lost = hist.lost /\ hist'.unsaved = hist.unsaved
      /\ \A m \in hist'.open : m \in hist.open \/ (pc = "ask" /\ m = turn.msg)
  <2>1. CASE hist' = hist BY <2>1, <1>3
  <2>2. CASE e.op = "done" /\ e.msg # None /\ hist' = [hist EXCEPT !.open = @ \cup {e.msg}]
    <3>1. e.msg \in Message BY <2>2, <1>2, OpRows DEF Maybe
    <3>2. pc = "ask" /\ turn.msg = e.msg BY <2>2, <1>2 DEF Fits
    <3> HIDE DEF e
    <3> QED BY <2>2, <3>1, <3>2, <1>3
  <2> QED BY <2>1, <2>2 DEF SaveStep, Effect
<1>8. AgentType' BY <1>0, <1>1, <1>6, <1>7 DEF AgentType
<1>9. e.op # "exit" /\ e.op # "emit" BY <1>1 DEF Saving
<1>10. Acts BY <1>1, <1>6, <1>7, <1>9 DEF Acts
<1>11. RunType' /\ Planned' /\ Owed' /\ Counted' /\ AskedStays /\ AnswerFits' BY <1>8, <1>10, ActsKeeps
<1>12. Numbered' /\ InStep' /\ Replied' BY <1>1, <1>6, <1>9, <1>10, QuietKeeps
<1>13. Identified' BY <1>0, <1>1, <1>11, IdentifiedKept DEF CtlKept
<1> QED BY <1>8, <1>11, <1>12, <1>13 DEF AgentRunInv

\* The effects that leave the saved state alone.
LEMMA OtherEffectKeeps ==
    ASSUME AgentRunInv, CtlKept, plan # <<>>, plan' = Tail(plan), Head(plan).op \notin Saving \cup {"emit", "exit"},
           UNCHANGED <<outbox, last, torn, disk, mem, pc, turn, hist>>, inbox' \subseteq inbox,
           DOMAIN requests' \subseteq DOMAIN requests, \A r \in DOMAIN requests' : requests'[r] = requests[r]
    PROVE  AgentRunInv'
<1>0. AgentType /\ RunType /\ Identified BY DEF AgentRunInv
<1>1. AgentType' BY <1>0 DEF AgentType
<1>2. Acts BY DEF Acts
<1>3. RunType' /\ Planned' /\ Owed' /\ Counted' /\ AskedStays /\ AnswerFits' BY <1>1, <1>2, ActsKeeps
<1>4. Numbered' /\ InStep' /\ Replied' BY <1>2, QuietKeeps
<1>5. Identified' BY <1>0, <1>3, IdentifiedKept DEF CtlKept
<1> QED BY <1>1, <1>3, <1>4, <1>5 DEF AgentRunInv

LEMMA UnlinkKeeps ==
    ASSUME AgentRunInv, UnlinkStep, CtlKept
    PROVE  AgentRunInv'
<1>1. /\ plan # <<>> /\ plan' = Tail(plan) /\ Head(plan).op = "unlink" /\ inbox' \subseteq inbox
      /\ UNCHANGED <<requests, outbox, last, torn, disk, mem, pc, turn, hist>>
  BY DEF UnlinkStep, Effect
<1> QED BY <1>1, OtherEffectKeeps DEF Saving

LEMMA ToolKeeps ==
    ASSUME AgentRunInv, ToolStep \/ BaselineStep(TRUE) \/ BaselineStep(FALSE), CtlKept
    PROVE  AgentRunInv'
<1>1. /\ plan # <<>> /\ plan' = Tail(plan) /\ Head(plan).op \in {"tool", "baseline"}
      /\ UNCHANGED <<inbox, requests, outbox, last, torn, disk, mem, pc, turn, hist>>
  BY DEF ToolStep, BaselineStep, Effect
<1> QED BY <1>1, OtherEffectKeeps DEF Saving

LEMMA RequestKeeps ==
    ASSUME AgentRunInv, RequestStep, CtlKept
    PROVE  AgentRunInv'
<1>0. AgentType /\ RunType /\ Planned /\ Counted /\ Identified BY DEF AgentRunInv
<1>1. /\ plan # <<>> /\ plan' = Tail(plan) /\ Head(plan).op \in {"ask", "forget"}
      /\ UNCHANGED <<inbox, outbox, last, torn, disk, mem, pc, turn, hist>>
  BY DEF RequestStep, Effect
<1>2. CASE Head(plan).op = "forget"
  <2>1. requests' = [r \in DOMAIN requests \ {Head(plan).req} |-> requests[r]]
    BY <1>2 DEF RequestStep, Effect
  <2>2. DOMAIN requests' \subseteq DOMAIN requests /\ \A r \in DOMAIN requests' : requests'[r] = requests[r]
    BY <2>1
  <2> QED BY <2>2, <1>1, <1>2, OtherEffectKeeps DEF Saving
<1>3. CASE Head(plan).op = "ask"
  <2> DEFINE q == Head(plan).req
             new == [msg |-> turn.msg, step |-> turn.step]
  <2>1. requests' = [r \in DOMAIN requests \cup {q} |-> IF r = q THEN new ELSE requests[r]]
    BY <1>3 DEF RequestStep, Effect
  <2>2. pc = "call" /\ q = turn.req BY <1>1, <1>3, Acting DEF Fits
  <2>3. /\ turn \in TurnRow /\ turn.msg \in Message /\ turn.req \in Id
        /\ mem.state.steps \in Nat /\ mem.requestNumber \in Nat
        /\ turn.req[1] = mem.state.steps /\ turn.req[2] = mem.requestNumber
        /\ turn.step \in Nat /\ turn.step > 0 /\ turn.step <= mem.requestNumber
    BY <2>2, <1>0, Calling
  <2>4. new \in Body BY <2>3 DEF Body
  <2>5. DOMAIN requests' = DOMAIN requests \cup {q} /\ requests'[q] = new
        /\ \A r \in DOMAIN requests \ {q} : requests'[r] = requests[r]
    BY <2>1
  <2>6. AgentType'
    <3>1. DOMAIN requests \subseteq Id /\ \A r \in DOMAIN requests : requests[r] \in Body BY <1>0 DEF AgentType
    <3> HIDE DEF new, q
    <3>2. DOMAIN requests' \subseteq Id /\ \A r \in DOMAIN requests' : requests'[r] \in Body
      BY <3>1, <2>2, <2>3, <2>4, <2>5
    <3> QED BY <3>2, <1>0, <1>1 DEF AgentType
  <2>7. Acts BY <1>1, <1>3 DEF Acts, Saving
  <2>8. RunType' /\ Planned' /\ Owed' /\ Counted' /\ AskedStays /\ AnswerFits' BY <2>6, <2>7, ActsKeeps
  <2>9. Numbered' /\ InStep' /\ Replied' BY <2>7, <1>1, <1>3, QuietKeeps
  <2>10. Asked(q, new)
    <3>1. q[2] = 1 => turn.step = 1 BY <2>2, <2>3
    <3>2. new.step = turn.step /\ new = [msg |-> turn.msg, step |-> turn.step] OBVIOUS
    <3>3. q[1] = (mem.state.steps - mem.requestNumber) + q[2] /\ q[2] <= mem.requestNumber /\ q[2] > 0 BY <2>2, <2>3
    <3> HIDE DEF new, q
    <3> QED BY <2>2, <3>1, <3>2, <3>3 DEF Asked, AskedIn
  <2>11. Identified'
    <3> HIDE DEF new, q
    <3>1. \A r \in DOMAIN requests' : Asked(r, requests'[r])
      BY <2>5, <2>10, <1>0 DEF Identified
    <3> QED BY <3>1, <1>0, <1>1 DEF Identified, Asked, AskedItem, CtlKept
  <2> QED BY <2>6, <2>8, <2>9, <2>11 DEF AgentRunInv
<1> QED BY <1>1, <1>2, <1>3

LEMMA ExitKeeps ==
    ASSUME AgentRunInv, ExitStep, CtlKept
    PROVE  AgentRunInv'
<1>0. AgentType /\ RunType /\ Planned /\ Owed /\ Counted /\ Identified /\ AnswerFits /\ Numbered /\ InStep /\ Replied
  BY DEF AgentRunInv
<1>1. /\ plan # <<>> /\ plan' = Tail(plan) /\ Head(plan).op = "exit" /\ pc' = "dead"
      /\ UNCHANGED <<inbox, requests, outbox, last, torn, disk, mem, turn, hist>>
  BY DEF ExitStep, Effect
<1>2. /\ Ends(Head(plan)) /\ Fits(Head(plan), pc, turn) /\ Tail(plan) = <<>>
      /\ \A m : Reports(plan, "completed", m) <=> Reports(Tail(plan), "completed", m)
      /\ Saves(plan) <=> Saves(Tail(plan))
  <2>1. Ends(Head(plan)) BY <1>1 DEF Ends
  <2> QED BY <2>1, <1>1, Acting DEF Saving
<1>3. plan' = <<>> /\ pc = "serve" BY <1>1, <1>2 DEF Fits
<1>4. ~Saves(plan) /\ \A m : ~Reports(plan, "completed", m) BY <1>2, EmptyPlan
<1>5. AgentType' BY <1>0, <1>1 DEF AgentType
<1>6. RunType' BY <1>0 DEF RunType, CtlKept
<1>7. Planned' BY <1>0, <1>1, <1>3, EmptyPlan DEF Planned
<1>8. Owed' BY <1>0, <1>1, <1>3, <1>4 DEF Owed
<1>9. Counted' BY <1>1 DEF Counted
<1>10. /\ mem.state.steps \in Nat /\ mem.requestNumber \in Nat /\ disk.steps \in Nat
       /\ mem.state.steps = disk.steps
       /\ mem.state.steps - mem.requestNumber \in Nat /\ mem.state.steps - mem.requestNumber <= disk.steps
  BY <1>0, <1>3, <1>4, Counters DEF Counted, Base
<1>11. AskedStays
  <2> SUFFICES ASSUME NEW r \in Id, NEW b \in Body, Asked(r, b) PROVE AskedIn(r, b, "dead", disk, mem, turn, hist)
    BY <1>1 DEF AskedStays
  <2>1. r[1] \in Nat /\ r[2] \in Nat BY DEF Id
  <2> QED BY <2>1, <1>3, <1>10 DEF Asked, AskedIn
<1>12. Identified' BY <1>0, <1>1, <1>11, IdentifiedKept DEF CtlKept
<1>13. AnswerFits' BY <1>0, <1>1 DEF AnswerFits
<1>14. Numbered' BY <1>0, <1>1 DEF Numbered, SequencesNeverRepeat, CtlKept
<1>15. InStep' BY <1>0, <1>1 DEF InStep, Recording, CtlKept
<1>16. Replied'
  <2>1. \A m : ~Succeeds(plan', m) BY <1>3, EmptyPlan
  <2> QED BY <2>1, <1>0, <1>1 DEF Replied, DeliveredIsAnswered, Answered, ReplyLine, Recording, CtlKept
<1> QED BY <1>5, <1>6, <1>7, <1>8, <1>9, <1>12, <1>13, <1>14, <1>15, <1>16 DEF AgentRunInv

LEMMA CrashKeeps ==
    ASSUME AgentRunInv, NEW partial \in BOOLEAN, Crash(partial), CtlKept
    PROVE  AgentRunInv'
<1>0. AgentType /\ RunType /\ Planned /\ Owed /\ Counted /\ Identified /\ Numbered /\ InStep /\ Replied
  BY DEF AgentRunInv
<1>1. /\ pc # "dead" /\ pc' = "dead" /\ plan' = <<>> /\ turn' = NoTurn /\ torn' \in BOOLEAN
      /\ UNCHANGED <<inbox, requests, outbox, last, disk, mem>>
  BY <1>0 DEF Crash, AgentType
<1>2. hist' = [hist EXCEPT !.lost = @ \cup (hist.open \ {disk.current}),
                           !.unsaved = IF turn.req # None /\ turn.req[1] > disk.steps THEN @ \cup {turn.req} ELSE @]
  BY DEF Crash
<1>3. /\ hist \in [open : SUBSET Message, lost : SUBSET Message, unsaved : SUBSET Id] /\ turn.req \in Maybe(Id)
  BY <1>0 DEF AgentType, TurnRow
<1>4. /\ hist' \in [open : SUBSET Message, lost : SUBSET Message, unsaved : SUBSET Id]
      /\ hist'.open = hist.open /\ hist'.lost = hist.lost \cup (hist.open \ {disk.current})
      /\ hist.unsaved \subseteq hist'.unsaved
      /\ turn.req # None /\ turn.req[1] > disk.steps => turn.req \in hist'.unsaved
  BY <1>2, <1>3 DEF Maybe
<1>5. AgentType' BY <1>0, <1>1, <1>4, NoTurnRow DEF AgentType
<1>6. RunType' BY <1>0 DEF RunType, CtlKept
<1>7. Planned' BY <1>0, <1>1, EmptyPlan DEF Planned
<1>8. Owed' BY <1>1, <1>4 DEF Owed
<1>9. Counted' BY <1>1 DEF Counted
<1>10. /\ mem.state.steps \in Nat /\ mem.requestNumber \in Nat /\ disk.steps \in Nat
       /\ mem.state.steps <= disk.steps + 1 /\ disk.steps <= mem.state.steps
       /\ mem.state.steps - mem.requestNumber \in Nat /\ mem.state.steps - mem.requestNumber <= disk.steps
  BY <1>0, <1>1, Counters DEF Counted, Base
<1>11. AskedStays
  <2> SUFFICES ASSUME NEW r \in Id, NEW b \in Body, Asked(r, b) PROVE AskedIn(r, b, "dead", disk, mem, NoTurn, hist')
    BY <1>1 DEF AskedStays
  <2>1. r[1] \in Nat /\ r[2] \in Nat /\ r # None BY Distinct DEF Id
  <2> DEFINE base == mem.state.steps - mem.requestNumber
  <2>2. /\ r[2] > 0 /\ (r[2] = 1 => b.step = 1)
        /\ \/ r[1] <= base
           \/ r \in hist.unsaved /\ (r[2] > 1 => r[1] <= base + 1)
           \/ /\ r[1] = base + r[2] /\ r[2] <= mem.requestNumber
              /\ r[2] = mem.requestNumber /\ mem.state.steps # disk.steps => r = turn.req
    BY <1>1 DEF Asked, AskedIn
  <2>3. CASE r[1] <= base BY <2>1, <2>2, <2>3, <1>10 DEF AskedIn
  <2>4. CASE r \in hist.unsaved /\ (r[2] > 1 => r[1] <= base + 1)
    BY <2>1, <2>2, <2>4, <1>4, <1>10 DEF AskedIn
  <2>5. CASE /\ r[1] = base + r[2] /\ r[2] <= mem.requestNumber
             /\ r[2] = mem.requestNumber /\ mem.state.steps # disk.steps => r = turn.req
    <3>1. CASE r[1] <= disk.steps BY <2>2, <3>1 DEF AskedIn
    <3>2. CASE r[1] > disk.steps
      <4>1. r[2] = mem.requestNumber /\ mem.state.steps # disk.steps /\ r[1] <= disk.steps + 1
        BY <2>1, <2>5, <3>2, <1>10
      <4>2. r = turn.req /\ r \in hist'.unsaved BY <4>1, <2>1, <2>5, <3>2, <1>4
      <4> QED BY <4>1, <4>2, <2>2 DEF AskedIn
    <3> QED BY <3>1, <3>2, <2>1, <1>10
  <2> QED BY <2>2, <2>3, <2>4, <2>5
<1>12. Identified' BY <1>0, <1>1, <1>11, IdentifiedKept DEF CtlKept
<1>13. AnswerFits' BY <1>1, NoTurnRow DEF AnswerFits
<1>14. Numbered' BY <1>0, <1>1 DEF Numbered, SequencesNeverRepeat, CtlKept
<1>15. InStep' BY <1>0, <1>1 DEF InStep, Recording, CtlKept
<1>16. Replied' BY <1>0, <1>1, EmptyPlan DEF Replied, DeliveredIsAnswered, Answered, ReplyLine, Recording, CtlKept
<1> QED BY <1>5, <1>6, <1>7, <1>8, <1>9, <1>12, <1>13, <1>14, <1>15, <1>16 DEF AgentRunInv

LEMMA AskKeeps ==
    ASSUME AgentRunInv, Ask, CtlKept
    PROVE  AgentRunInv'
<1>0. AgentType /\ RunType /\ Planned /\ Owed /\ Counted /\ Identified /\ AnswerFits /\ Numbered /\ InStep /\ Replied
  BY DEF AgentRunInv
<1>1. /\ pc = "ask" /\ plan = <<>> /\ UNCHANGED <<inbox, requests, outbox, last, torn, disk, hist>>
  BY DEF Ask
<1>2. /\ turn \in TurnRow /\ turn.msg \in Message /\ turn.step \in Nat
      /\ mem \in [state : State, requestNumber : Nat, next : Nat] /\ mem.state.steps \in Nat
      /\ mem.requestNumber \in Nat /\ disk.steps \in Nat
  BY <1>0, <1>1, Counters DEF AgentType, Planned
<1> DEFINE c == complete(turn.msg, "failed")
<1>3. /\ \A p, t : PlanFits(c, p, t) /\ c \in Seq(Inner(p, t))
      /\ Reports(c, "completed", turn.msg) /\ Saves(c)
  BY <1>2, Complete DEF TurnStatus
<1>4. \A m : ~Succeeds(c, m) BY <1>3, InnerFits
<1> HIDE DEF c
<1>5. CASE turn.step = MaxStepsPerTurn
  <2>1. plan' = c /\ pc' = "serve" /\ mem' = mem /\ turn' = turn BY <1>5 DEF Ask, c
  <2>2. AnswerFits' BY <2>1, <1>0, <1>1 DEF AnswerFits
  <2>3. Decides BY <2>1, <2>2, <1>1, <1>2, <1>3, <1>4 DEF Decides
  <2> QED BY <2>3, DecidesKeeps
<1>6. CASE turn.step # MaxStepsPerTurn
  <2> DEFINE n == mem.requestNumber + 1
             id == <<mem.state.steps + 1, n>>
             o == [op |-> "ask", req |-> id]
             e == Emit("request", turn.msg, id, "")
  <2>1. /\ mem' = [mem EXCEPT !.state.steps = @ + 1, !.requestNumber = @ + 1]
        /\ \/ /\ plan' = <<o, e>>
              /\ pc' = "call" /\ turn' = [turn EXCEPT !.step = @ + 1, !.req = id, !.answer = None]
           \/ plan' = c /\ pc' = "serve" /\ turn' = turn
    BY <1>6 DEF Ask, c
  <2>2. /\ mem' \in [state : State, requestNumber : Nat, next : Nat] /\ mem'.next = mem.next
        /\ mem'.state.steps = mem.state.steps + 1 /\ mem'.requestNumber = n
    <3>1. /\ mem'.state = [mem.state EXCEPT !.steps = @ + 1] /\ mem'.requestNumber = n /\ mem'.next = mem.next
          /\ mem' = [state |-> mem'.state, requestNumber |-> n, next |-> mem.next]
      BY <2>1, <1>2
    <3>2. mem.state \in State BY <1>2
    <3>3. [mem.state EXCEPT !.steps = @ + 1] \in State /\ [mem.state EXCEPT !.steps = @ + 1].steps = mem.state.steps + 1
      BY <3>2 DEF State
    <3> QED BY <3>1, <3>3, <1>2
  <2>3. id \in Id /\ n \in Nat BY <1>2 DEF Id
  <2>4. mem.state.steps = disk.steps BY <1>0, <1>1, EmptyPlan DEF Counted
  <2>5. /\ mem.state.steps - mem.requestNumber \in Nat /\ mem.state.steps - mem.requestNumber <= disk.steps
        /\ turn.step <= mem.requestNumber
    BY <1>0, <1>1 DEF Counted, Base
  <2>6. ~torn /\ torn \in BOOLEAN BY <1>0, <1>1 DEF Planned, AgentType
  <2>7. /\ PlanFits(plan', pc', turn') /\ turn' \in TurnRow /\ pc' \in {"serve", "call"} /\ AnswerFits'
        /\ turn'.msg = turn.msg /\ turn'.step \in Nat /\ turn'.step <= n
        /\ pc' = "call" => turn'.req = id /\ turn'.step > 0
        /\ pc' = "serve" => Reports(plan', "completed", turn.msg) /\ Saves(plan')
        /\ \A m : ~Succeeds(plan', m)
    <3>1. CASE plan' = c /\ pc' = "serve" /\ turn' = turn
      <4>1. AnswerFits' BY <3>1, <1>0, <1>1 DEF AnswerFits
      <4> QED BY <3>1, <4>1, <1>2, <1>3, <1>4, <2>5
    <3>2. CASE plan' = <<o, e>> /\ pc' = "call" /\ turn' = [turn EXCEPT !.step = @ + 1, !.req = id, !.answer = None]
      <4> HIDE DEF id
      <4>1. turn' \in TurnRow /\ turn'.req = id /\ turn'.step = turn.step + 1 /\ turn'.answer = None /\ turn'.msg = turn.msg
        <5>1. id \in Maybe(Id) /\ None \in Maybe(Body) /\ turn.step + 1 \in Nat BY <2>3, <1>2 DEF Maybe
        <5> QED BY <5>1, <3>2, <1>2 DEF TurnRow
      <4>2. o \in Inner("call", turn')
        BY <4>1, <2>3 DEF Inner, Op, RequestOp, Fits, Ends, Success
      <4>3. e \in Inner("call", turn')
        BY <1>2, <2>3, EmitInside DEF EventType, TurnStatus, Maybe
      <4> HIDE DEF o, e
      <4>4. <<o, e>> \in Seq(Inner("call", turn')) BY <4>2, <4>3, Two
      <4>5. PlanFits(<<o, e>>, "call", turn') /\ \A m : ~Succeeds(<<o, e>>, m) BY <4>4, InnerFits
      <4>6. AnswerFits' BY <4>1 DEF AnswerFits
      <4> QED BY <3>2, <4>1, <4>5, <4>6, <1>2, <2>5
    <3> QED BY <2>1, <3>1, <3>2
  <2>8. AgentType' BY <2>2, <2>7, <1>0, <1>1 DEF AgentType
  <2>9. RunType' BY <1>0 DEF RunType, CtlKept
  <2>10. Planned' BY <2>6, <2>7, <1>0, <1>1, <1>2 DEF Planned
  <2>11. Owed'
    <3>1. \A m \in hist.open : m \in hist.lost \/ m = turn.msg BY <1>0, <1>1, EmptyPlan DEF Owed
    <3> QED BY <3>1, <2>7, <1>1 DEF Owed
  <2>12. Counted'
    <3>1. mem'.state.steps - mem'.requestNumber = mem.state.steps - mem.requestNumber BY <2>2, <1>2
    <3>2. disk' = disk BY <1>1
    <3>3. pc' = "call" => turn'.req = <<mem'.state.steps, mem'.requestNumber>> BY <2>2, <2>7
    <3> HIDE DEF id, n
    <3>4. mem'.state.steps - mem'.requestNumber \in Nat /\ mem'.state.steps - mem'.requestNumber <= disk'.steps
      BY <3>1, <3>2, <2>5
    <3>5. disk'.steps <= mem'.state.steps /\ mem'.state.steps <= disk'.steps + 1 BY <3>2, <2>2, <2>4, <1>2
    <3> QED BY <3>3, <3>4, <3>5, <2>2, <2>7 DEF Counted, Base
  <2>13. AskedStays
    <3> SUFFICES ASSUME NEW r \in Id, NEW b \in Body, Asked(r, b) PROVE AskedIn(r, b, pc', disk', mem', turn', hist')
      BY DEF AskedStays
    <3>1. r[1] \in Nat /\ r[2] \in Nat BY DEF Id
    <3>2. mem'.state.steps - mem'.requestNumber = mem.state.steps - mem.requestNumber BY <2>2, <1>2
    <3>3. r[2] <= mem.requestNumber => r[2] <= mem'.requestNumber /\ r[2] # mem'.requestNumber BY <3>1, <2>2, <1>2
    <3>4. pc' # "dead" /\ hist' = hist BY <1>1, <2>7
    <3> QED BY <3>2, <3>3, <3>4, <1>1 DEF Asked, AskedIn
  <2>14. Identified' BY <2>13, <1>0, <1>1, IdentifiedKept DEF CtlKept
  <2>15. Numbered' BY <1>0, <1>1, <2>2 DEF Numbered, SequencesNeverRepeat, CtlKept
  <2>16. InStep' BY <1>0, <1>1 DEF InStep, Recording, CtlKept
  <2>17. Replied' BY <2>7, <1>0, <1>1 DEF Replied, DeliveredIsAnswered, Answered, ReplyLine, Recording, CtlKept
  <2> QED BY <2>7, <2>8, <2>9, <2>10, <2>11, <2>12, <2>14, <2>15, <2>16, <2>17 DEF AgentRunInv
<1> QED BY <1>5, <1>6

\* A process starts: nothing of the controller but its own state changes.
LEMMA NewKeeps ==
    ASSUME AgentRunInv, New, pc = "dead", UNCHANGED <<status, replies, position, work>>, ctl'.batch = ctl.batch,
           RunType', InStep'
    PROVE  AgentRunInv'
<1>0. AgentType /\ RunType /\ Planned /\ Owed /\ Identified /\ Numbered /\ InStep /\ Replied
  BY DEF AgentRunInv
<1>1. /\ mem' = [state |-> disk, requestNumber |-> 0, next |-> last + 1] /\ plan' = Boot(disk.current)
      /\ pc' = "serve" /\ turn' = NoTurn
      /\ UNCHANGED <<inbox, requests, outbox, last, torn, disk, hist>>
  BY DEF New, OpenOutbox
<1>2. disk \in State /\ disk.current \in Maybe(Message) /\ disk.steps \in Nat /\ last \in Nat BY <1>0 DEF AgentType, State
<1>3. /\ PlanFits(plan', pc', turn') /\ plan' # <<>> /\ plan'[1] = Note
      /\ disk.current # None => Reports(plan', "completed", disk.current)
      /\ \A m : ~Succeeds(plan', m)
  BY <1>1, <1>2, BootPlan
<1>4. mem' \in [state : State, requestNumber : Nat, next : Nat] /\ mem'.state = disk /\ mem'.requestNumber = 0 /\ mem'.next = last + 1
  BY <1>1, <1>2
<1>5. AgentType' BY <1>0, <1>1, <1>4, NoTurnRow DEF AgentType
<1>6. Planned' BY <1>0, <1>1, <1>3 DEF Planned
<1>7. Owed'
  <2>1. \A m \in hist.open : m # None BY <1>0, Distinct DEF AgentType
  <2>2. \A m \in hist.open : m \in hist.lost \/ m = disk.current
    <3>1. plan = <<>> BY <1>0 DEF Planned
    <3> QED BY <3>1, <1>0, EmptyPlan DEF Owed
  <2> QED BY <2>1, <2>2, <1>1, <1>3 DEF Owed
<1>8. Counted'
  <2>1. turn'.step = 0 BY <1>1, NoTurnRow
  <2> QED BY <2>1, <1>1, <1>2, <1>4 DEF Counted, Base
<1>9. AskedStays
  <2> SUFFICES ASSUME NEW r \in Id, NEW b \in Body, Asked(r, b) PROVE AskedIn(r, b, "serve", disk, mem', turn', hist)
    BY <1>1 DEF AskedStays
  <2>1. mem'.state.steps - mem'.requestNumber = disk.steps BY <1>2, <1>4
  <2> QED BY <2>1 DEF Asked, AskedIn
<1>10. Identified' BY <1>0, <1>1, <1>9, IdentifiedKept
<1>11. AnswerFits' BY <1>1, NoTurnRow DEF AnswerFits
<1>12. Numbered'
  <2>1. last < mem'.next BY <1>2, <1>4
  <2> QED BY <2>1, <1>0, <1>1 DEF Numbered, SequencesNeverRepeat
<1>13. Replied' BY <1>0, <1>1, <1>3 DEF Replied, DeliveredIsAnswered, Answered, ReplyLine, Recording
<1> QED BY <1>5, <1>6, <1>7, <1>8, <1>10, <1>11, <1>12, <1>13 DEF AgentRunInv

LEMMA AgentStepKeeps ==
    ASSUME AgentRunInv, AgentSteps \/ Signalled \/ BaselineStep(TRUE) \/ (\E partial \in BOOLEAN : Crash(partial)), CtlKept
    PROVE  AgentRunInv'
<1>0. AgentType /\ RunType /\ Planned /\ Counted /\ Identified /\ AnswerFits BY DEF AgentRunInv
<1>1. CASE Handle BY <1>0, <1>1, HandleDecides, DecidesKeeps
<1>2. CASE Poll BY <1>0, <1>2, PollDecides, DecidesKeeps
<1>3. CASE ModelTimesOut BY <1>0, <1>3, TimeoutDecides, DecidesKeeps
<1>4. CASE Signalled BY <1>0, <1>4, SignalDecides, DecidesKeeps
<1>5. CASE Ask BY <1>5, AskKeeps
<1>6. CASE EmitStep BY <1>6, EmitKeeps
<1>7. CASE SaveStep BY <1>7, SaveKeeps
<1>8. CASE UnlinkStep BY <1>8, UnlinkKeeps
<1>9. CASE RequestStep BY <1>9, RequestKeeps
<1>10. CASE ToolStep \/ BaselineStep(TRUE) \/ BaselineStep(FALSE) BY <1>10, ToolKeeps
<1>11. CASE ExitStep BY <1>11, ExitKeeps
<1>12. CASE \E partial \in BOOLEAN : Crash(partial) BY <1>12, CrashKeeps
<1> QED BY <1>1, <1>2, <1>3, <1>4, <1>5, <1>6, <1>7, <1>8, <1>9, <1>10, <1>11, <1>12 DEF AgentSteps

-----------------------------------------------------------------------------
(* The controller. *)

\* The agent's own facts hold on while the agent rests.
LEMMA AgentRests ==
    ASSUME AgentRunInv, UNCHANGED agentVars, RunType', Identified', Numbered', InStep', Replied'
    PROVE  AgentRunInv'
<1>0. AgentType /\ Planned /\ Owed /\ Counted /\ AnswerFits BY DEF AgentRunInv
<1>1. UNCHANGED <<inbox, requests, outbox, last, torn, disk, mem, pc, plan, turn, hist>> BY DEF agentVars
<1>2. AgentType' BY <1>0, <1>1 DEF AgentType
<1>3. Planned' BY <1>0, <1>1 DEF Planned
<1>4. Owed' BY <1>0, <1>1 DEF Owed
<1>5. Counted' BY <1>0, <1>1 DEF Counted, Base
<1>6. AnswerFits' BY <1>0, <1>1 DEF AnswerFits
<1> QED BY <1>2, <1>3, <1>4, <1>5, <1>6 DEF AgentRunInv

LEMMA WorkRows ==
    ASSUME NEW o \in Work
    PROVE  /\ o.op = "upload" => o.item \in Item
           /\ o.op = "reply" => o.seq \in Int /\ o.msg \in Message
           /\ o.op = "deliver" => o.msg \in Message
           /\ o.op = "record" => o.seq \in Nat
           /\ o.op \in {"upload", "reply", "deliver", "record"}
BY DEF Work, UploadWork, ReplyWork, DeliverWork, RecordWork

LEMMA CallRows ==
    /\ \A seq \in Int, m \in Message : Reply(seq, m) \in Work /\ Reply(seq, m).op = "reply" /\ Reply(seq, m).msg = m
    /\ \A m \in Message : Deliver(m) \in Work /\ Deliver(m).op = "deliver" /\ Deliver(m).msg = m
    /\ \A seq \in Nat : Record(seq) \in Work /\ Record(seq).op = "record" /\ Record(seq).seq = seq
BY DEF Reply, Deliver, Record, Work, ReplyWork, DeliverWork, RecordWork

LEMMA UploadRow ==
    ASSUME NEW type \in ItemType, NEW msg \in Maybe(Message), NEW req \in Maybe(Id), NEW kind \in AnswerKind,
           NEW answer \in Maybe(Body), names \in Nat
    PROVE  LET u == Upload(type, msg, req, kind, answer) IN
           /\ u \in Work /\ u.op = "upload" /\ u.item \in Item /\ u.item.type = type /\ u.item.msg = msg
           /\ u.item.req = req /\ u.item.kind = kind /\ u.item.answer = answer
BY DEF Upload, Work, UploadWork, Item

LEMMA WorkDropped ==
    ASSUME AgentRunInv, work # <<>>, work' = Tail(work)
    PROVE  /\ work' \in Seq(Work) /\ Head(work) = work[1] /\ work[1] \in Work /\ 1 \in DOMAIN work
           /\ \A i \in DOMAIN work' : i + 1 \in DOMAIN work /\ work'[i] = work[i + 1] /\ i \in Nat
           /\ \A i \in DOMAIN work : i \in Nat /\ (i = 1 \/ (i - 1 \in DOMAIN work' /\ work'[i - 1] = work[i]))
           /\ work[1].op = "record" => work' = <<>>
           /\ work[1].op # "record" => (Recording' <=> Recording)
           /\ Len(work') = Len(work) - 1
<1>0. work \in Seq(Work) BY DEF AgentRunInv, RunType
<1>1. /\ Len(work) \in Nat \ {0} /\ work' \in Seq(Work) /\ Len(work') = Len(work) - 1
      /\ Head(work) = work[1] /\ work[1] \in Work /\ \A i \in 1 .. Len(work) - 1 : work'[i] = work[i + 1]
  BY <1>0, Dropped
<1>2. DOMAIN work = 1 .. Len(work) /\ DOMAIN work' = 1 .. Len(work) - 1 BY <1>0, <1>1, Domain
<1>3. \A i \in DOMAIN work' : i + 1 \in DOMAIN work /\ work'[i] = work[i + 1] /\ i \in Nat BY <1>1, <1>2
<1>4. \A i \in DOMAIN work : i \in Nat /\ (i = 1 \/ (i - 1 \in DOMAIN work' /\ work'[i - 1] = work[i]))
  <2> TAKE i \in DOMAIN work
  <2>1. i \in 1 .. Len(work) BY <1>2
  <2>2. i # 1 => i - 1 \in 1 .. Len(work) - 1 /\ work'[i - 1] = work[(i - 1) + 1] BY <2>1, <1>1
  <2> QED BY <2>1, <2>2, <1>1, <1>2
<1>5. 1 \in DOMAIN work BY <1>1, <1>2
<1>6. work[1].op = "record" => work' = <<>>
  <2>1. work[1].op = "record" => Len(work) = 1 BY <1>5 DEF AgentRunInv, InStep
  <2> QED BY <2>1, <1>1
<1>7. ASSUME work[1].op # "record" PROVE Recording' <=> Recording
  <2>1. Recording' => Recording BY <1>3 DEF Recording
  <2>2. Recording => Recording' BY <1>4, <1>7 DEF Recording
  <2> QED BY <2>1, <2>2
<1> QED BY <1>1, <1>3, <1>4, <1>5, <1>6, <1>7

\* A call is made: what is left of the work.
LEMMA CallMade ==
    ASSUME AgentRunInv, work # <<>>, work' = Tail(work), work[1].op # "record",
           UNCHANGED <<outbox, position, ctl>>
    PROVE  InStep'
<1>0. InStep BY DEF AgentRunInv
<1>1. /\ \A i \in DOMAIN work' : i + 1 \in DOMAIN work /\ work'[i] = work[i + 1] /\ i \in Nat
      /\ Recording' <=> Recording
      /\ Len(work') = Len(work) - 1
  BY WorkDropped
<1>2. Len(work) \in Nat BY DEF AgentRunInv, RunType
<1>3. ctl.pc # "down" BY <1>0 DEF InStep
<1>4. \A i \in DOMAIN work' : work'[i].op = "record" => i = Len(work') /\ work'[i].seq = ctl.sequence
  BY <1>0, <1>1, <1>2 DEF InStep
<1>5. \A i \in DOMAIN work' : work'[i].op = "upload" => ItemFits(work'[i].item) BY <1>0, <1>1 DEF InStep
<1> QED BY <1>0, <1>1, <1>3, <1>4, <1>5 DEF InStep, ItemFits

LEMMA IdentifiedDropped ==
    ASSUME AgentRunInv, work # <<>>, work' = Tail(work), UNCHANGED <<requests, disk, mem, pc, turn, hist, ctl>>,
           \A item \in inbox' : AskedItem(item)
    PROVE  Identified'
<1>0. Identified BY DEF AgentRunInv
<1>1. \A i \in DOMAIN work' : i + 1 \in DOMAIN work /\ work'[i] = work[i + 1] BY WorkDropped
<1>2. \A i \in DOMAIN work' : work'[i].op = "upload" => AskedItem(work'[i].item) BY <1>0, <1>1 DEF Identified
<1> QED BY <1>0, <1>2 DEF Identified, AskedItem, Asked

LEMMA SendKeeps ==
    ASSUME AgentRunInv, NEW m \in Message, Send(m)
    PROVE  AgentRunInv'
<1>0. RunType /\ Identified /\ Numbered /\ InStep /\ Replied BY DEF AgentRunInv
<1>1. UNCHANGED agentVars /\ status' = [status EXCEPT ![m] = "queued"] /\ UNCHANGED <<replies, position, ctl, work, names>>
  BY DEF Send, CtlOnly
<1>2. UNCHANGED <<inbox, requests, outbox, last, torn, disk, mem, pc, plan, turn, hist>> BY <1>1 DEF agentVars
<1>3. RunType' BY <1>0, <1>1 DEF RunType
<1>4. Identified' BY <1>0, <1>1, <1>2 DEF Identified, AskedItem, Asked
<1>5. Numbered' BY <1>0, <1>1, <1>2 DEF Numbered, SequencesNeverRepeat
<1>6. InStep' BY <1>0, <1>1, <1>2 DEF InStep, Recording
<1>7. \A n \in Message : status'[n] = "delivered" => status[n] = "delivered" BY <1>0, <1>1 DEF RunType
<1>8. Replied' BY <1>0, <1>1, <1>2, <1>7 DEF Replied, DeliveredIsAnswered, Answered, ReplyLine, Recording
<1> QED BY <1>1, <1>3, <1>4, <1>5, <1>6, <1>8, AgentRests

\* The inbox gains an item that fits.
LEMMA InboxGrows ==
    ASSUME AgentRunInv, NEW item \in Item, ItemFits(item), AskedItem(item),
           inbox' \subseteq inbox \cup {item},
           UNCHANGED <<requests, outbox, last, torn, disk, mem, pc, plan, turn, hist>>
    PROVE  /\ AgentType' /\ Planned' /\ Owed' /\ Counted' /\ AnswerFits'
           /\ \A i \in inbox' : AskedItem(i)
<1>0. AgentType /\ Planned /\ Owed /\ Counted /\ AnswerFits /\ Identified BY DEF AgentRunInv
<1>1. AgentType' BY <1>0 DEF AgentType
<1>2. Planned' BY <1>0 DEF Planned
<1>3. Owed' BY <1>0 DEF Owed
<1>4. Counted' BY <1>0 DEF Counted, Base
<1>5. AnswerFits' BY <1>0 DEF AnswerFits
<1>6. \A i \in inbox' : AskedItem(i) BY <1>0 DEF Identified
<1> QED BY <1>1, <1>2, <1>3, <1>4, <1>5, <1>6

LEMMA InstructKeeps ==
    ASSUME AgentRunInv, NEW type \in Instruction, Instruct(type)
    PROVE  AgentRunInv'
<1>0. RunType /\ Identified /\ Numbered /\ InStep /\ Replied BY DEF AgentRunInv
<1> DEFINE item == [name |-> names + 1, type |-> type, msg |-> None, req |-> None, kind |-> "", answer |-> None]
<1>1. /\ inbox' = inbox \cup {item} /\ names' = names + 1
      /\ UNCHANGED <<requests, outbox, last, torn, disk, mem, pc, plan, turn, hist>>
      /\ UNCHANGED <<status, replies, position, ctl, work>>
  BY DEF Instruct
<1>2. type \in {"cancel", "shutdown", "invalid"} BY RunAssumption
<1>3. item \in Item /\ ItemFits(item) /\ AskedItem(item)
  <2>1. names \in Nat /\ type \in ItemType BY <1>0, <1>2 DEF RunType, ItemType
  <2>2. item \in Item
    <3> DEFINE k == ""
    <3>1. None \in Maybe(Message) /\ None \in Maybe(Id) /\ None \in Maybe(Body) BY DEF Maybe
    <3>2. k \in AnswerKind BY DEF AnswerKind
    <3>3. item = [name |-> names + 1, type |-> type, msg |-> None, req |-> None, kind |-> k, answer |-> None]
      OBVIOUS
    <3> HIDE DEF k, item
    <3> QED BY <2>1, <3>1, <3>2, <3>3 DEF Item
  <2>3. item.type = type /\ item.msg = None /\ item.answer = None OBVIOUS
  <2> HIDE DEF item
  <2> QED BY <2>2, <2>3, <1>2 DEF ItemFits, AskedItem
<1> HIDE DEF item
<1>4. /\ AgentType' /\ Planned' /\ Owed' /\ Counted' /\ AnswerFits' /\ \A i \in inbox' : AskedItem(i)
  BY <1>1, <1>3, InboxGrows
<1>5. RunType' BY <1>0, <1>1 DEF RunType
<1>6. Identified' BY <1>0, <1>1, <1>4 DEF Identified, AskedItem, Asked
<1>7. Numbered' BY <1>0, <1>1 DEF Numbered, SequencesNeverRepeat
<1>8. InStep' BY <1>0, <1>1 DEF InStep, Recording
<1>9. Replied' BY <1>0, <1>1 DEF Replied, DeliveredIsAnswered, Answered, ReplyLine, Recording
<1> QED BY <1>4, <1>5, <1>6, <1>7, <1>8, <1>9 DEF AgentRunInv

LEMMA UploadKeeps ==
    ASSUME AgentRunInv, UploadCall \/ UploadAgain
    PROVE  AgentRunInv'
<1>0. RunType /\ Identified /\ Numbered /\ InStep /\ Replied BY DEF AgentRunInv
<1> DEFINE item == Head(work).item
<1>1. /\ work # <<>> /\ Head(work).op = "upload"
      /\ inbox' = {it \in inbox : it.name # item.name} \cup {item}
      /\ UNCHANGED <<requests, outbox, last, torn, disk, mem, pc, plan, turn, hist>>
      /\ UNCHANGED <<status, replies, position, ctl, names>> /\ (work' = work \/ work' = Tail(work))
  BY DEF UploadCall, UploadAgain, Call, Written, Same
<1>2. Head(work) = work[1] /\ work[1] \in Work /\ 1 \in DOMAIN work
  BY <1>0, <1>1, Dropped, Domain DEF RunType
<1>3. item \in Item /\ ItemFits(item) /\ AskedItem(item)
  BY <1>0, <1>1, <1>2, WorkRows DEF InStep, Identified
<1> HIDE DEF item
<1>4. /\ AgentType' /\ Planned' /\ Owed' /\ Counted' /\ AnswerFits' /\ \A i \in inbox' : AskedItem(i)
  <2>1. inbox' \subseteq inbox \cup {item} BY <1>1
  <2> QED BY <2>1, <1>1, <1>3, InboxGrows
<1>5. Numbered' BY <1>0, <1>1 DEF Numbered, SequencesNeverRepeat
<1>6. CASE work' = work
  <2>1. RunType' BY <1>0, <1>1, <1>6 DEF RunType
  <2>2. Identified' BY <1>0, <1>1, <1>4, <1>6 DEF Identified, AskedItem, Asked
  <2>3. InStep' BY <1>0, <1>1, <1>6 DEF InStep, Recording
  <2>4. Replied' BY <1>0, <1>1, <1>6 DEF Replied, DeliveredIsAnswered, Answered, ReplyLine, Recording
  <2> QED BY <2>1, <2>2, <2>3, <2>4, <1>4, <1>5 DEF AgentRunInv
<1>7. CASE work' = Tail(work)
  <2>1. /\ work' \in Seq(Work)
        /\ \A i \in DOMAIN work' : i + 1 \in DOMAIN work /\ work'[i] = work[i + 1] /\ i \in Nat
        /\ \A i \in DOMAIN work : i \in Nat /\ (i = 1 \/ (i - 1 \in DOMAIN work' /\ work'[i - 1] = work[i]))
        /\ Recording' <=> Recording
    BY <1>1, <1>2, <1>7, WorkDropped
  <2>2. RunType' BY <1>0, <1>1, <2>1 DEF RunType
  <2>3. InStep' BY <1>1, <1>2, <1>7, CallMade
  <2>4. Identified' BY <1>1, <1>4, <1>7, IdentifiedDropped
  <2>5. ASSUME NEW i \in DOMAIN work', work'[i].op = "deliver"
        PROVE  Answered(work'[i].msg) \/ \E j \in 1 .. i - 1 : work'[j].op = "reply" /\ work'[j].msg = work'[i].msg
    <3>1. Answered(work'[i].msg) \/ \E j \in 1 .. (i + 1) - 1 : work[j].op = "reply" /\ work[j].msg = work'[i].msg
      BY <2>1, <2>5, <1>0 DEF Replied
    <3>2. ASSUME NEW j \in 1 .. (i + 1) - 1, work[j].op = "reply" PROVE j - 1 \in 1 .. i - 1 /\ work'[j - 1] = work[j]
      <4>1. j # 1 BY <3>2, <1>1, <1>2
      <4>2. i \in 1 .. Len(work') /\ Len(work') \in Nat BY <2>1, Domain
      <4>3. j - 1 \in DOMAIN work' BY <4>1, <4>2, <2>1, Domain
      <4> QED BY <4>1, <4>2, <4>3, <2>1
    <3> QED BY <3>1, <3>2
  <2>6. ASSUME Recording, outbox[1].type = "reply"
        PROVE  Answered(outbox[1].msg) \/ \E j \in DOMAIN work' : work'[j].op = "reply" /\ work'[j].msg = outbox[1].msg
    <3>1. Answered(outbox[1].msg) \/ \E j \in DOMAIN work : work[j].op = "reply" /\ work[j].msg = outbox[1].msg
      BY <2>6, <1>0 DEF Replied
    <3>2. ASSUME NEW j \in DOMAIN work, work[j].op = "reply" PROVE j - 1 \in DOMAIN work' /\ work'[j - 1] = work[j]
      BY <3>2, <2>1, <1>1, <1>2
    <3> QED BY <3>1, <3>2
  <2>7. Replied' BY <2>1, <2>5, <2>6, <1>0, <1>1 DEF Replied, DeliveredIsAnswered, Answered, ReplyLine
  <2> QED BY <2>2, <2>3, <2>4, <2>7, <1>4, <1>5 DEF AgentRunInv
<1> QED BY <1>1, <1>6, <1>7

LEMMA DownRow == /\ Down \in Controllers /\ Down.pc = "down" /\ Down.batch = <<>>
BY DEF Down, Controllers, Maybe

\* A step of the controller alone that delivers and records nothing.
LEMMA CtlStep ==
    ASSUME AgentRunInv, UNCHANGED agentVars, UNCHANGED <<replies, position>>, RunType', InStep', Identified',
           \A m \in Message : status'[m] = "delivered" => status[m] = "delivered",
           \A i \in DOMAIN work' : work'[i].op = "deliver" =>
              Answered(work'[i].msg) \/ \E j \in 1 .. i - 1 : work'[j].op = "reply" /\ work'[j].msg = work'[i].msg,
           Recording' /\ outbox[1].type = "reply" =>
              Answered(outbox[1].msg) \/ \E j \in DOMAIN work' : work'[j].op = "reply" /\ work'[j].msg = outbox[1].msg
    PROVE  AgentRunInv'
<1>0. Numbered /\ Replied BY DEF AgentRunInv
<1>1. UNCHANGED <<inbox, requests, outbox, last, torn, disk, mem, pc, plan, turn, hist>> BY DEF agentVars
<1>2. Numbered' BY <1>0, <1>1 DEF Numbered, SequencesNeverRepeat
<1>3. Replied' BY <1>0, <1>1 DEF Replied, DeliveredIsAnswered, Answered, ReplyLine
<1> QED BY <1>2, <1>3, AgentRests

\* One that leaves the work empty, and the batch as it is.
LEMMA EmptyWork ==
    ASSUME AgentRunInv, UNCHANGED agentVars, UNCHANGED <<status, replies, position, names>>, work' = <<>>,
           ctl' \in Controllers, ctl'.batch = ctl.batch \/ ctl'.batch = <<>>,
           ctl'.pc = "read" => ctl'.batch # <<>>,
           ctl'.pc = "down" => ctl'.batch = <<>>,
           ctl'.pc # "down" => ctl'.sequence = position /\ (ctl'.batch = <<>> \/ (ctl.pc # "down" /\ work = <<>>))
    PROVE  AgentRunInv'
<1>0. RunType /\ InStep /\ Identified BY DEF AgentRunInv
<1>1. UNCHANGED <<inbox, requests, outbox, last, torn, disk, mem, pc, plan, turn, hist>> BY DEF agentVars
<1>2. work' \in Seq(Work) /\ DOMAIN work' = {} /\ ~Recording' BY DEF Recording
<1>3. RunType' BY <1>0, <1>2 DEF RunType
<1>4. outbox \in Seq(Line) /\ Len(outbox) \in Nat BY DEF AgentRunInv, AgentType
<1>5. InStep'
  <2>1. ctl'.batch = <<>> => Len(ctl'.batch) = 0 /\ DOMAIN ctl'.batch = {} OBVIOUS
  <2>2. work = <<>> => ~Recording BY DEF Recording
  <2>3. ctl.pc # "down" /\ work = <<>> => Len(ctl.batch) <= Len(outbox) /\ \A i \in DOMAIN ctl.batch : ctl.batch[i].e = outbox[i]
    BY <2>2, <1>0 DEF InStep
  <2>4. ctl'.pc # "down" => Len(ctl'.batch) <= Len(outbox) /\ \A i \in DOMAIN ctl'.batch : ctl'.batch[i].e = outbox[i]
    BY <2>1, <2>3, <1>4
  <2> QED BY <2>4, <1>1, <1>2 DEF InStep
<1>6. Identified'
  <2>1. \A i \in DOMAIN ctl'.batch : ctl'.batch = ctl.batch OBVIOUS
  <2> QED BY <2>1, <1>0, <1>1, <1>2 DEF Identified, AskedItem, Asked
<1>7. status' = status OBVIOUS
<1> QED BY <1>2, <1>3, <1>5, <1>6, <1>7, CtlStep

LEMMA StopsKeeps ==
    ASSUME AgentRunInv, ControllerFails \/ AccessFails \/ agent_run_controller_finalize
    PROVE  AgentRunInv'
<1>1. UNCHANGED agentVars /\ UNCHANGED <<status, replies, position, names>> /\ ctl' = Down
  BY DEF ControllerFails, AccessFails, agent_run_controller_finalize, CtlOnly
<1>2. work' = <<>>
  BY DEF ControllerFails, AccessFails, agent_run_controller_finalize, AgentRunInv, InStep
<1> QED BY <1>1, <1>2, DownRow, EmptyWork

LEMMA DrainedKeeps ==
    ASSUME AgentRunInv, Drained
    PROVE  AgentRunInv'
<1>1. /\ UNCHANGED agentVars /\ UNCHANGED <<status, replies, position, names>> /\ ctl' = [ctl EXCEPT !.pc = "final"]
      /\ work = <<>> /\ work' = <<>> /\ ctl.pc = "drain"
  BY DEF Drained, CtlOnly, Same
<1>2. ctl \in Controllers /\ ctl.sequence = position
  <2>1. ~Recording BY <1>1 DEF Recording
  <2> QED BY <2>1, <1>1 DEF AgentRunInv, RunType, InStep
<1>3. ctl' \in Controllers /\ ctl'.batch = ctl.batch /\ ctl'.pc = "final" /\ ctl'.sequence = position
  BY <1>1, <1>2 DEF Controllers
<1> QED BY <1>1, <1>3, EmptyWork

\* The harness is started, or runs already.
LEMMA TakeOverKeeps ==
    ASSUME AgentRunInv, TakeOver
    PROVE  AgentRunInv'
<1>0. RunType /\ InStep BY DEF AgentRunInv
<1>1. /\ ctl.pc = "down" /\ ctl' = [Down EXCEPT !.pc = "loop", !.sequence = position] /\ Start /\ work' = <<>>
      /\ UNCHANGED <<status, replies, position, names>>
  BY DEF TakeOver, Same
<1>2. work = <<>> /\ ctl.batch = <<>> BY <1>0, <1>1 DEF InStep
<1>3. ctl' \in Controllers /\ ctl'.batch = <<>> /\ ctl'.pc = "loop" /\ ctl'.sequence = position
  BY <1>0, <1>1, DownRow DEF Controllers, RunType
<1>4. CASE pc # "dead"
  <2>1. UNCHANGED agentVars BY <1>1, <1>4 DEF Start
  <2> QED BY <2>1, <1>1, <1>3, EmptyWork
<1>5. CASE pc = "dead"
  <2>1. New BY <1>1, <1>5 DEF Start
  <2>2. outbox' = outbox BY <2>1 DEF New
  <2>3. RunType' BY <1>0, <1>1, <1>2, <1>3 DEF RunType
  <2>4. ~Recording' /\ DOMAIN work' = {} BY <1>1 DEF Recording
  <2>5. Len(outbox) \in Nat BY DEF AgentRunInv, AgentType
  <2>6. Len(ctl'.batch) = 0 /\ DOMAIN ctl'.batch = {} BY <1>3
  <2>7. InStep' BY <2>2, <2>4, <2>5, <2>6, <1>1, <1>3 DEF InStep
  <2> QED BY <2>1, <2>3, <2>7, <1>1, <1>2, <1>3, <1>5, NewKeeps
<1> QED BY <1>4, <1>5

LEMMA WaitStatusKeeps ==
    ASSUME AgentRunInv, WaitStatus
    PROVE  AgentRunInv'
<1>0. RunType /\ InStep BY DEF AgentRunInv
<1>1. ctl.pc = "status" /\ work = <<>> /\ UNCHANGED <<status, replies, position, names, work>> /\ ~Recording
  BY DEF WaitStatus, Recording
<1>2. ctl \in Controllers /\ ctl.sequence = position BY <1>0, <1>1 DEF RunType, InStep
<1>3. CASE ctl' = Down /\ UNCHANGED agentVars BY <1>1, <1>3, DownRow, EmptyWork
<1>4. CASE ctl' = [ctl EXCEPT !.pc = "loop"] /\ UNCHANGED agentVars
  <2>1. ctl' \in Controllers /\ ctl'.batch = ctl.batch /\ ctl'.pc = "loop" /\ ctl'.sequence = position
    BY <1>2, <1>4 DEF Controllers
  <2> QED BY <2>1, <1>1, <1>4, EmptyWork
<1>5. CASE pc = "dead" /\ New /\ ctl' = [ctl EXCEPT !.pc = "loop", !.restarts = @ + 1]
  <2>1. ctl' \in Controllers /\ ctl'.batch = ctl.batch /\ ctl'.pc = "loop" /\ ctl'.sequence = position
    <3>1. ctl' = [ctl EXCEPT !.pc = "loop", !.restarts = @ + 1] /\ ctl.restarts \in Nat BY <1>2, <1>5 DEF Controllers
    <3>2. ctl.restarts + 1 \in Nat BY <3>1
    <3> QED BY <3>1, <3>2, <1>2 DEF Controllers
  <2>2. outbox' = outbox BY <1>5 DEF New
  <2>3. RunType' BY <2>1, <1>0, <1>1 DEF RunType
  <2>4. ~Recording' /\ DOMAIN work' = {} BY <1>1 DEF Recording
  <2>5. InStep' BY <2>1, <2>2, <2>4, <1>0, <1>1 DEF InStep
  <2> QED BY <2>1, <2>3, <2>5, <1>1, <1>5, NewKeeps
<1> QED BY <1>3, <1>4, <1>5 DEF WaitStatus, CtlOnly

\* An upload is all the work there is.
LEMMA OneUpload ==
    ASSUME AgentRunInv, UNCHANGED agentVars, UNCHANGED <<replies, position>>, work = <<>>, ctl.pc = "loop",
           NEW u \in Work, u.op = "upload", ItemFits(u.item), AskedItem(u.item), work' = <<u>>,
           ctl' \in Controllers, ctl'.pc = "wait", ctl'.batch = ctl.batch, ctl'.sequence = ctl.sequence,
           names' \in Nat, status' \in [Message -> {"unsent", "queued", "claimed", "delivered"}],
           \A m \in Message : status'[m] = "delivered" => status[m] = "delivered"
    PROVE  AgentRunInv'
<1>0. RunType /\ InStep /\ Identified BY DEF AgentRunInv
<1>1. UNCHANGED <<inbox, requests, outbox, last, torn, disk, mem, pc, plan, turn, hist>> BY DEF agentVars
<1>2. work' \in Seq(Work) /\ DOMAIN work' = {1} /\ work'[1] = u OBVIOUS
<1>3. ~Recording' BY <1>2 DEF Recording
<1>4. ~Recording BY DEF Recording
<1>5. RunType' BY <1>0, <1>2 DEF RunType
<1>6. InStep' BY <1>0, <1>1, <1>2, <1>3, <1>4 DEF InStep
<1>7. Identified' BY <1>0, <1>1, <1>2 DEF Identified, AskedItem, Asked
<1> QED BY <1>2, <1>3, <1>5, <1>6, <1>7, CtlStep

LEMMA ClaimKeeps ==
    ASSUME AgentRunInv, Claim
    PROVE  AgentRunInv'
<1>0. RunType BY DEF AgentRunInv
<1>1. /\ ctl.pc = "loop" /\ work = <<>> /\ UNCHANGED agentVars /\ UNCHANGED <<replies, position>> /\ names' = names + 1
  BY DEF Claim, CtlOnly
<1>2. PICK m \in Message :
         /\ status' = [status EXCEPT ![m] = "claimed"] /\ ctl' = [ctl EXCEPT !.current = m, !.pc = "wait"]
         /\ work' = <<Upload("message", m, None, "", None)>>
  BY DEF Claim
<1> DEFINE u == Upload("message", m, None, "", None)
<1>3. u \in Work /\ u.op = "upload" /\ u.item.type = "message" /\ u.item.msg = m
  <2> DEFINE k == ""
  <2>1. /\ "message" \in ItemType /\ m \in Maybe(Message) /\ None \in Maybe(Id) /\ None \in Maybe(Body) /\ names \in Nat
    BY <1>0 DEF ItemType, Maybe, RunType
  <2>2. k \in AnswerKind BY DEF AnswerKind
  <2>3. u = Upload("message", m, None, k, None) OBVIOUS
  <2> HIDE DEF k, u
  <2> QED BY <2>1, <2>2, <2>3, UploadRow
<1>4. work' = <<u>> BY <1>2
<1> HIDE DEF u
<1>5. ItemFits(u.item) /\ AskedItem(u.item) BY <1>3, Distinct DEF ItemFits, AskedItem
<1>6. ctl' \in Controllers /\ ctl'.pc = "wait" /\ ctl'.batch = ctl.batch /\ ctl'.sequence = ctl.sequence
  <2>1. ctl \in Controllers /\ m \in Maybe(Message) BY <1>0 DEF RunType, Maybe
  <2>2. ctl' = [ctl EXCEPT !.current = m, !.pc = "wait"] BY <1>2
  <2> QED BY <2>1, <2>2 DEF Controllers
<1>7. names' \in Nat BY <1>0, <1>1 DEF RunType
<1>8. /\ status' \in [Message -> {"unsent", "queued", "claimed", "delivered"}]
      /\ \A n \in Message : status'[n] = "delivered" => status[n] = "delivered"
  <2>1. status \in [Message -> {"unsent", "queued", "claimed", "delivered"}] /\ status' = [status EXCEPT ![m] = "claimed"]
    BY <1>0, <1>2 DEF RunType
  <2> QED BY <2>1
<1> QED BY <1>1, <1>3, <1>4, <1>5, <1>6, <1>7, <1>8, OneUpload

LEMMA IdleKeeps ==
    ASSUME AgentRunInv, Idle
    PROVE  AgentRunInv'
<1>0. RunType /\ InStep BY DEF AgentRunInv
<1>1. /\ ctl.pc = "loop" /\ work = <<>> /\ UNCHANGED agentVars /\ UNCHANGED <<status, replies, position>>
  BY DEF Idle, CtlOnly
<1>2. ctl \in Controllers /\ names \in Nat /\ status \in [Message -> {"unsent", "queued", "claimed", "delivered"}]
  BY <1>0 DEF RunType
<1>3. CASE /\ work' = <<Upload("finalize", None, None, "", None)>> /\ names' = names + 1
           /\ ctl' = [ctl EXCEPT !.finalizing = TRUE, !.pc = "wait"]
  <2> DEFINE u == Upload("finalize", None, None, "", None)
  <2>1. u \in Work /\ u.op = "upload" /\ u.item.type = "finalize" /\ u.item.msg = None
    <3> DEFINE k == ""
    <3>1. /\ "finalize" \in ItemType /\ None \in Maybe(Message) /\ None \in Maybe(Id) /\ None \in Maybe(Body)
      BY DEF ItemType, Maybe
    <3>2. k \in AnswerKind BY DEF AnswerKind
    <3>3. u = Upload("finalize", None, None, k, None) OBVIOUS
    <3> HIDE DEF k, u
    <3> QED BY <1>2, <3>1, <3>2, <3>3, UploadRow
  <2>2. work' = <<u>> BY <1>3
  <2> HIDE DEF u
  <2>3. ItemFits(u.item) /\ AskedItem(u.item) BY <2>1 DEF ItemFits, AskedItem
  <2>4. ctl' \in Controllers /\ ctl'.pc = "wait" /\ ctl'.batch = ctl.batch /\ ctl'.sequence = ctl.sequence
    <3>1. ctl' = [ctl EXCEPT !.finalizing = TRUE, !.pc = "wait"] BY <1>3
    <3> QED BY <3>1, <1>2 DEF Controllers
  <2>5. names' \in Nat
    <3>1. names' = names + 1 BY <1>3
    <3> QED BY <3>1, <1>2
  <2>6. /\ status' \in [Message -> {"unsent", "queued", "claimed", "delivered"}]
        /\ \A n \in Message : status'[n] = "delivered" => status[n] = "delivered"
    BY <1>1, <1>2
  <2> QED BY <1>1, <2>1, <2>2, <2>3, <2>4, <2>5, <2>6, OneUpload
<1>4. CASE ctl' = [ctl EXCEPT !.pc = "wait"] /\ UNCHANGED <<work, names>>
  <2>1. ~Recording BY <1>1 DEF Recording
  <2>2. ctl' \in Controllers /\ ctl'.batch = ctl.batch /\ ctl'.pc = "wait" /\ ctl'.sequence = position
    BY <2>1, <1>0, <1>1, <1>2, <1>4 DEF Controllers, InStep
  <2> QED BY <2>2, <1>1, <1>4, EmptyWork
<1> QED BY <1>3, <1>4 DEF Idle

Pair == [e : Line, body : Maybe(Body)]

LEMMA Outbox ==
    ASSUME AgentRunInv
    PROVE  /\ outbox \in Seq(Line) /\ DOMAIN outbox = 1 .. Len(outbox) /\ Len(outbox) \in Nat
           /\ \A i \in DOMAIN outbox : outbox[i] \in Line /\ outbox[i].seq \in Nat /\ outbox[i].req \in Maybe(Id)
           /\ \A i \in DOMAIN outbox : outbox[i].seq > position
           /\ \A i, j \in DOMAIN outbox : i < j => outbox[i].seq < outbox[j].seq
           /\ position \in Nat /\ last \in Nat
<1>1. outbox \in Seq(Line) /\ position \in Nat /\ last \in Nat BY DEF AgentRunInv, AgentType, RunType
<1>2. DOMAIN outbox = 1 .. Len(outbox) /\ Len(outbox) \in Nat /\ \A i \in DOMAIN outbox : outbox[i] \in Line BY <1>1, Domain
<1>3. \A i \in DOMAIN outbox : outbox[i].seq \in Nat /\ outbox[i].req \in Maybe(Id) BY <1>2 DEF Line
<1>4. SequencesNeverRepeat BY DEF AgentRunInv, Numbered
<1> QED BY <1>1, <1>2, <1>3, <1>4 DEF SequencesNeverRepeat

\* The first line is recorded: the rest remains.
LEMMA RecordTrims ==
    ASSUME AgentRunInv, outbox # <<>>, recordEvent(outbox[1].seq)
    PROVE  /\ position' = outbox[1].seq /\ 1 \in DOMAIN outbox
           /\ outbox' \in Seq(Line) /\ DOMAIN outbox' = 1 .. Len(outbox) - 1 /\ Len(outbox') = Len(outbox) - 1
           /\ \A i \in DOMAIN outbox' : i + 1 \in DOMAIN outbox /\ outbox'[i] = outbox[i + 1]
           /\ UNCHANGED <<inbox, requests, last, torn, disk, mem, pc, plan, turn, hist>>
<1>1. /\ outbox \in Seq(Line) /\ DOMAIN outbox = 1 .. Len(outbox) /\ Len(outbox) \in Nat
      /\ \A i \in DOMAIN outbox : outbox[i].seq \in Nat
      /\ \A i \in DOMAIN outbox : outbox[i].seq > position
      /\ \A i, j \in DOMAIN outbox : i < j => outbox[i].seq < outbox[j].seq
      /\ position \in Nat
  BY Outbox
<1>2. Len(outbox) >= 1 /\ 1 \in DOMAIN outbox
  <2>1. Len(outbox) # 0 BY <1>1
  <2> QED BY <2>1, <1>1
<1>3. position' = outbox[1].seq BY <1>1, <1>2 DEF recordEvent
<1>4. PICK k \in 0 .. Len(outbox) :
         /\ \A i \in DOMAIN outbox : outbox[i].seq <= outbox[1].seq <=> i <= k
         /\ outbox' = SubSeq(outbox, k + 1, Len(outbox))
  BY <1>3 DEF recordEvent, Read, Beyond
<1>5. k = 1
  <2>1. 1 <= k BY <1>1, <1>2, <1>4
  <2>2. ~(2 <= k)
    <3> SUFFICES ASSUME 2 <= k PROVE FALSE OBVIOUS
    <3>1. 2 \in DOMAIN outbox BY <1>1, <1>4
    <3>2. outbox[2].seq <= outbox[1].seq /\ outbox[1].seq < outbox[2].seq BY <3>1, <1>1, <1>2, <1>4
    <3> QED BY <3>1, <3>2, <1>1, <1>2
  <2> QED BY <2>1, <2>2, <1>1
<1>6. outbox' = SubSeq(outbox, 2, Len(outbox)) BY <1>4, <1>5
<1>7. /\ outbox' \in Seq(Line) /\ Len(outbox') = Len(outbox) - 1
      /\ \A i \in 1 .. Len(outbox) - 1 : outbox'[i] = outbox[i + 1]
  BY <1>1, <1>2, <1>6
<1>8. DOMAIN outbox' = 1 .. Len(outbox) - 1 BY <1>7, Domain
<1>9. \A i \in DOMAIN outbox' : i + 1 \in DOMAIN outbox BY <1>1, <1>8
<1> QED BY <1>2, <1>3, <1>7, <1>8, <1>9 DEF recordEvent

LEMMA TrimKeeps ==
    ASSUME AgentRunInv, outbox # <<>>, recordEvent(outbox[1].seq),
           outbox[1].type = "reply" => Answered(outbox[1].msg),
           UNCHANGED <<status, replies, names>>, work' = <<>>, ctl' \in Controllers,
           ctl'.sequence = outbox[1].seq, ctl'.pc # "down", ctl'.pc = "read" => ctl'.batch # <<>>,
           Len(ctl'.batch) < Len(outbox), \A i \in DOMAIN ctl'.batch : ctl'.batch[i].e = outbox[i + 1],
           \A i \in DOMAIN ctl'.batch : ctl'.batch[i].body # None =>
              ctl'.batch[i].e.req \in Id /\ Asked(ctl'.batch[i].e.req, ctl'.batch[i].body)
    PROVE  AgentRunInv'
<1>0. AgentType /\ RunType /\ Planned /\ Owed /\ Counted /\ Identified /\ AnswerFits /\ Numbered /\ InStep /\ Replied
  BY DEF AgentRunInv
<1>1. /\ position' = outbox[1].seq /\ 1 \in DOMAIN outbox
      /\ outbox' \in Seq(Line) /\ DOMAIN outbox' = 1 .. Len(outbox) - 1 /\ Len(outbox') = Len(outbox) - 1
      /\ \A i \in DOMAIN outbox' : i + 1 \in DOMAIN outbox /\ outbox'[i] = outbox[i + 1]
      /\ UNCHANGED <<inbox, requests, last, torn, disk, mem, pc, plan, turn, hist>>
  BY RecordTrims
<1>2. /\ outbox \in Seq(Line) /\ DOMAIN outbox = 1 .. Len(outbox) /\ Len(outbox) \in Nat
      /\ \A i \in DOMAIN outbox : outbox[i].seq \in Nat
      /\ \A i, j \in DOMAIN outbox : i < j => outbox[i].seq < outbox[j].seq
  BY Outbox
<1>3. work' \in Seq(Work) /\ DOMAIN work' = {} /\ ~Recording' BY DEF Recording
<1>4. AgentType' BY <1>0, <1>1 DEF AgentType
<1>5. RunType' BY <1>0, <1>1, <1>2, <1>3 DEF RunType
<1>6. Planned' BY <1>0, <1>1 DEF Planned
<1>7. Owed' BY <1>0, <1>1 DEF Owed
<1>8. Counted' BY <1>0, <1>1 DEF Counted, Base
<1>9. AnswerFits' BY <1>0, <1>1 DEF AnswerFits
<1>10. Identified' BY <1>0, <1>1, <1>3 DEF Identified, AskedItem, Asked
<1>11. Numbered'
  <2>1. \A i \in DOMAIN outbox' : outbox'[i].seq > position'
    <3> TAKE i \in DOMAIN outbox'
    <3>1. i + 1 \in DOMAIN outbox /\ 1 < i + 1 BY <1>1, <1>2
    <3> QED BY <3>1, <1>1, <1>2
  <2>2. \A i, j \in DOMAIN outbox' : i < j => outbox'[i].seq < outbox'[j].seq
    <3> TAKE i, j \in DOMAIN outbox'
    <3>1. i < j => i + 1 < j + 1 BY <1>1, <1>2
    <3> QED BY <3>1, <1>1, <1>2
  <2>3. position' <= last' /\ \A i \in DOMAIN outbox' : outbox'[i].seq <= last' BY <1>0, <1>1 DEF Numbered
  <2> QED BY <2>1, <2>2, <2>3, <1>0, <1>1 DEF Numbered, SequencesNeverRepeat
<1>12. InStep'
  <2>1. Len(ctl'.batch) \in Nat /\ DOMAIN ctl'.batch = 1 .. Len(ctl'.batch) BY Domain DEF Controllers
  <2>2. Len(ctl'.batch) <= Len(outbox') BY <2>1, <1>1, <1>2
  <2>3. \A i \in DOMAIN ctl'.batch : ctl'.batch[i].e = outbox'[i] BY <2>1, <1>1, <1>2
  <2> QED BY <2>2, <2>3, <1>1, <1>3 DEF InStep
<1>13. Replied'
  <2>1. \A i \in DOMAIN outbox' : outbox'[i].type \in {"reply", "completed"} => outbox'[i].msg \in Message
    BY <1>0, <1>1 DEF Replied
  <2>2. ASSUME NEW m, NEW i \in DOMAIN outbox, ReplyLine(i, m)
        PROVE  Answered(m) \/ (i - 1 \in DOMAIN outbox' /\ outbox'[i - 1].type = "reply" /\ outbox'[i - 1].msg = m)
    <3>1. CASE i = 1 BY <2>2, <3>1 DEF ReplyLine
    <3>2. CASE i # 1
      <4>1. i - 1 \in DOMAIN outbox' /\ i - 1 + 1 = i BY <3>2, <1>1, <1>2
      <4> QED BY <4>1, <2>2, <1>1 DEF ReplyLine
    <3> QED BY <3>1, <3>2
  <2>3. ASSUME NEW j \in DOMAIN outbox', outbox'[j].type = "completed", outbox'[j].status = "completed"
        PROVE  Answered(outbox'[j].msg) \/ \E i \in 1 .. j - 1 : outbox'[i].type = "reply" /\ outbox'[i].msg = outbox'[j].msg
    <3>1. j + 1 \in DOMAIN outbox /\ outbox'[j] = outbox[j + 1] /\ j \in Nat BY <1>1, <1>2
    <3>2. Answered(outbox'[j].msg) \/ \E i \in 1 .. (j + 1) - 1 : ReplyLine(i, outbox'[j].msg) BY <3>1, <2>3, <1>0 DEF Replied
    <3>3. ASSUME NEW i \in 1 .. (j + 1) - 1, ReplyLine(i, outbox'[j].msg)
          PROVE  Answered(outbox'[j].msg) \/ \E h \in 1 .. j - 1 : outbox'[h].type = "reply" /\ outbox'[h].msg = outbox'[j].msg
      <4>1. i \in DOMAIN outbox BY <3>1, <1>2
      <4>2. Answered(outbox'[j].msg) \/ (i - 1 \in DOMAIN outbox' /\ outbox'[i - 1].type = "reply" /\ outbox'[i - 1].msg = outbox'[j].msg)
        BY <4>1, <3>3, <2>2
      <4>3. i - 1 \in DOMAIN outbox' => i - 1 \in 1 .. j - 1 BY <3>1, <1>1, <1>2
      <4> QED BY <4>2, <4>3
    <3> QED BY <3>2, <3>3
  <2>4. ASSUME NEW m \in Message, Succeeds(plan, m)
        PROVE  Answered(m) \/ Reports(plan, "reply", m) \/ \E j \in DOMAIN outbox' : outbox'[j].type = "reply" /\ outbox'[j].msg = m
    <3>1. Answered(m) \/ Reports(plan, "reply", m) \/ \E j \in DOMAIN outbox : ReplyLine(j, m) BY <2>4, <1>0 DEF Replied
    <3> QED BY <3>1, <2>2
  <2> QED BY <2>1, <2>3, <2>4, <1>0, <1>1, <1>3 DEF Replied, DeliveredIsAnswered, Answered, ReplyLine
<1> QED BY <1>4, <1>5, <1>6, <1>7, <1>8, <1>9, <1>10, <1>11, <1>12, <1>13 DEF AgentRunInv

\* The event that a controller handles is the first line beyond its position.
LEMMA Reading ==
    ASSUME AgentRunInv, ctl.pc = "read", work = <<>>, Taken(Head(ctl.batch).e)
    PROVE  /\ outbox # <<>> /\ 1 \in DOMAIN outbox /\ Head(ctl.batch).e = outbox[1] /\ outbox[1] \in Line
           /\ Head(ctl.batch).body \in Maybe(Body)
           /\ Head(ctl.batch).body # None => outbox[1].req \in Id /\ Asked(outbox[1].req, Head(ctl.batch).body)
           /\ ctl' \in Controllers /\ ctl'.sequence = outbox[1].seq /\ ctl'.pc \in {"read", "loop", "drain"}
           /\ ctl'.pc = "read" => ctl'.batch # <<>>
           /\ Len(ctl'.batch) < Len(outbox) /\ \A i \in DOMAIN ctl'.batch : ctl'.batch[i].e = outbox[i + 1]
           /\ \A i \in DOMAIN ctl'.batch : ctl'.batch[i].body # None =>
                 ctl'.batch[i].e.req \in Id /\ Asked(ctl'.batch[i].e.req, ctl'.batch[i].body)
<1>0. RunType /\ InStep /\ Identified BY DEF AgentRunInv
<1>1. ctl \in Controllers /\ ctl.batch \in Seq(Pair) /\ ctl.batch # <<>> BY <1>0 DEF RunType, Controllers, InStep, Pair
<1>2. ~Recording BY DEF Recording
<1>3. Len(ctl.batch) <= Len(outbox) /\ \A i \in DOMAIN ctl.batch : ctl.batch[i].e = outbox[i] BY <1>0, <1>2 DEF InStep
<1>4. /\ Len(ctl.batch) \in Nat \ {0} /\ Tail(ctl.batch) \in Seq(Pair) /\ Len(Tail(ctl.batch)) = Len(ctl.batch) - 1
      /\ Head(ctl.batch) = ctl.batch[1] /\ ctl.batch[1] \in Pair
      /\ \A i \in 1 .. Len(ctl.batch) - 1 : Tail(ctl.batch)[i] = ctl.batch[i + 1]
  BY <1>1, Dropped
<1>5. DOMAIN ctl.batch = 1 .. Len(ctl.batch) /\ DOMAIN Tail(ctl.batch) = 1 .. Len(ctl.batch) - 1 BY <1>1, <1>4, Domain
<1>6. /\ outbox \in Seq(Line) /\ DOMAIN outbox = 1 .. Len(outbox) /\ Len(outbox) \in Nat BY Outbox
<1>7. 1 \in DOMAIN ctl.batch /\ 1 \in DOMAIN outbox /\ outbox # <<>> BY <1>3, <1>4, <1>5, <1>6
<1>8. Head(ctl.batch).e = outbox[1] /\ outbox[1] \in Line /\ Head(ctl.batch).body \in Maybe(Body) BY <1>3, <1>4, <1>7 DEF Pair
<1>9. Head(ctl.batch).body # None => outbox[1].req \in Id /\ Asked(outbox[1].req, Head(ctl.batch).body)
  BY <1>0, <1>4, <1>7, <1>8 DEF Identified
<1> DEFINE e == outbox[1]
           finalizes == ctl.finalized \/ e.type = "finalized"
<1>10. ctl' = [ctl EXCEPT !.batch = Tail(@), !.sequence = e.seq, !.finalized = finalizes,
                          !.pc = IF Len(ctl.batch) > 1 THEN @ ELSE IF finalizes THEN "drain" ELSE "loop",
                          !.current = IF e.type = "completed" /\ e.msg = @ THEN None ELSE @]
  BY <1>8 DEF Taken
<1>11. e.seq \in Nat BY <1>8 DEF Line
<1>12. /\ finalizes \in BOOLEAN
       /\ (IF Len(ctl.batch) > 1 THEN ctl.pc ELSE IF finalizes THEN "drain" ELSE "loop") \in {"read", "loop", "drain"}
       /\ (IF e.type = "completed" /\ e.msg = ctl.current THEN None ELSE ctl.current) \in Maybe(Message)
  BY <1>1 DEF Controllers, Maybe
<1> HIDE DEF e, finalizes
<1>13. /\ ctl' \in Controllers /\ ctl'.sequence = e.seq /\ ctl'.batch = Tail(ctl.batch)
       /\ ctl'.pc = IF Len(ctl.batch) > 1 THEN ctl.pc ELSE IF finalizes THEN "drain" ELSE "loop"
  BY <1>1, <1>4, <1>10, <1>11, <1>12 DEF Controllers, Pair
<1>14. ctl'.pc = "read" => ctl'.batch # <<>>
  <2>1. ctl'.pc = "read" => Len(ctl.batch) > 1
    <3>1. CASE Len(ctl.batch) > 1 BY <3>1
    <3>2. CASE ~(Len(ctl.batch) > 1)
      <4>1. ctl'.pc = IF finalizes THEN "drain" ELSE "loop" BY <3>2, <1>13
      <4>2. CASE finalizes = TRUE BY <4>1, <4>2
      <4>3. CASE finalizes = FALSE BY <4>1, <4>3
      <4> QED BY <4>2, <4>3, <1>12
    <3> QED BY <3>1, <3>2
  <2>2. ctl'.batch = Tail(ctl.batch) BY <1>13
  <2>3. Len(ctl.batch) > 1 => Len(ctl'.batch) # 0 BY <2>2, <1>4
  <2> QED BY <2>1, <2>3
<1>15. Len(ctl'.batch) < Len(outbox) BY <1>3, <1>4, <1>6, <1>13
<1>16. \A i \in DOMAIN ctl'.batch : i + 1 \in DOMAIN ctl.batch /\ ctl'.batch[i] = ctl.batch[i + 1] BY <1>4, <1>5, <1>13
<1>17. \A i \in DOMAIN ctl'.batch : ctl'.batch[i].e = outbox[i + 1] BY <1>3, <1>16
<1>18. \A i \in DOMAIN ctl'.batch : ctl'.batch[i].body # None =>
                 ctl'.batch[i].e.req \in Id /\ Asked(ctl'.batch[i].e.req, ctl'.batch[i].body)
  BY <1>0, <1>16 DEF Identified
<1>19. ctl'.pc \in {"read", "loop", "drain"} BY <1>12, <1>13
<1>20. ctl'.sequence = outbox[1].seq BY <1>13 DEF e
<1> QED BY <1>7, <1>8, <1>9, <1>13, <1>14, <1>15, <1>17, <1>18, <1>19, <1>20

LEMMA HandleOtherKeeps ==
    ASSUME AgentRunInv, HandleOther
    PROVE  AgentRunInv'
<1> DEFINE e == Head(ctl.batch).e
<1>1. /\ ctl.pc = "read" /\ work = <<>> /\ work' = <<>> /\ UNCHANGED <<status, replies, names>>
      /\ e.type \in {"note", "finalized", "request"} /\ Taken(e) /\ recordEvent(e.seq)
  BY DEF HandleOther
<1>2. /\ outbox # <<>> /\ e = outbox[1]
      /\ ctl' \in Controllers /\ ctl'.sequence = outbox[1].seq /\ ctl'.pc \in {"read", "loop", "drain"}
      /\ ctl'.pc = "read" => ctl'.batch # <<>>
      /\ Len(ctl'.batch) < Len(outbox) /\ \A i \in DOMAIN ctl'.batch : ctl'.batch[i].e = outbox[i + 1]
      /\ \A i \in DOMAIN ctl'.batch : ctl'.batch[i].body # None =>
            ctl'.batch[i].e.req \in Id /\ Asked(ctl'.batch[i].e.req, ctl'.batch[i].body)
  BY <1>1, Reading
<1>3. recordEvent(outbox[1].seq) /\ outbox[1].type # "reply" BY <1>1, <1>2
<1> HIDE DEF e
<1> QED BY <1>1, <1>2, <1>3, TrimKeeps

LEMMA RecordKeeps ==
    ASSUME AgentRunInv, RecordCall
    PROVE  AgentRunInv'
<1>0. RunType /\ InStep /\ Replied /\ Identified BY DEF AgentRunInv
<1>1. /\ work # <<>> /\ Head(work).op = "record" /\ work' = Tail(work) /\ recordEvent(Head(work).seq)
      /\ UNCHANGED <<status, replies, ctl, names>>
  BY DEF RecordCall, Call
<1>2. Head(work) = work[1] /\ 1 \in DOMAIN work /\ (work[1].op = "record" => work' = <<>>) BY <1>1, WorkDropped
<1>3. work[1].op = "record" /\ work' = <<>> /\ Recording BY <1>1, <1>2 DEF Recording
<1>4. work[1].seq = ctl.sequence /\ Len(work) = 1 BY <1>0, <1>2, <1>3 DEF InStep
<1>5. /\ outbox # <<>> /\ outbox[1].seq = ctl.sequence /\ Len(ctl.batch) < Len(outbox)
      /\ \A i \in DOMAIN ctl.batch : ctl.batch[i].e = outbox[i + 1]
  BY <1>0, <1>3 DEF InStep
<1>6. recordEvent(outbox[1].seq) BY <1>1, <1>2, <1>4, <1>5
<1>7. DOMAIN work = {1} BY <1>0, <1>4, Domain DEF RunType
<1>8. outbox[1].type = "reply" => Answered(outbox[1].msg) BY <1>0, <1>3, <1>7 DEF Replied
<1>9. /\ ctl \in Controllers /\ ctl.pc # "down" /\ (ctl.pc = "read" => ctl.batch # <<>>)
      /\ \A i \in DOMAIN ctl.batch : ctl.batch[i].body # None =>
            ctl.batch[i].e.req \in Id /\ Asked(ctl.batch[i].e.req, ctl.batch[i].body)
  BY <1>0, <1>1 DEF RunType, InStep, Identified
<1> QED BY <1>1, <1>3, <1>5, <1>6, <1>8, <1>9, TrimKeeps

\* A batch of what is beyond the recorded position is the whole outbox.
LEMMA WaitKeeps ==
    ASSUME AgentRunInv, Wait
    PROVE  AgentRunInv'
<1>0. AgentType /\ RunType /\ InStep /\ Identified BY DEF AgentRunInv
<1>1. /\ ctl.pc \in {"wait", "loop"} /\ work = <<>> /\ work' = <<>> /\ UNCHANGED agentVars
      /\ UNCHANGED <<status, replies, position, names>> /\ ~Recording
  BY DEF Wait, CtlOnly, Same, Recording
<1>2. /\ outbox \in Seq(Line) /\ DOMAIN outbox = 1 .. Len(outbox) /\ Len(outbox) \in Nat
      /\ \A i \in DOMAIN outbox : outbox[i] \in Line /\ outbox[i].seq \in Nat
      /\ \A i \in DOMAIN outbox : outbox[i].seq > position
      /\ position \in Nat
  BY Outbox
<1>3. ctl \in Controllers /\ ctl.sequence = position BY <1>0, <1>1 DEF RunType, InStep
<1>4. PICK k \in 0 .. Len(outbox) :
         /\ Read(ctl.sequence, k)
         /\ ctl' = [ctl EXCEPT !.pc = IF Beyond(k) = <<>> THEN "status" ELSE "read",
                               !.batch = [i \in 1 .. Len(Beyond(k)) |-> [e |-> Beyond(k)[i], body |-> inlineRequest(Beyond(k)[i])]]]
  BY DEF Wait
<1>5. k = 0
  <2> SUFFICES ASSUME k >= 1 PROVE FALSE BY <1>2
  <2>1. 1 \in DOMAIN outbox BY <1>2
  <2>2. outbox[1].seq <= position BY <2>1, <1>2, <1>3, <1>4 DEF Read
  <2> QED BY <2>1, <2>2, <1>2
<1>6. Beyond(k) = outbox
  <2>1. Beyond(k) = SubSeq(outbox, 1, Len(outbox)) BY <1>5 DEF Beyond
  <2>2. SubSeq(outbox, 1, Len(outbox)) = outbox BY <1>2
  <2> QED BY <2>1, <2>2
<1> DEFINE batch == [i \in 1 .. Len(outbox) |-> [e |-> outbox[i], body |-> inlineRequest(outbox[i])]]
<1>7. ctl' = [ctl EXCEPT !.pc = IF outbox = <<>> THEN "status" ELSE "read", !.batch = batch] BY <1>4, <1>6
<1>8. \A i \in 1 .. Len(outbox) : inlineRequest(outbox[i]) \in Maybe(Body)
  BY <1>0 DEF inlineRequest, AgentType, Maybe
<1>9. \A i \in 1 .. Len(outbox) : [e |-> outbox[i], body |-> inlineRequest(outbox[i])] \in Pair
  BY <1>2, <1>8 DEF Pair
<1>10. batch \in Seq(Pair) /\ Len(batch) = Len(outbox) /\ DOMAIN batch = 1 .. Len(outbox) BY <1>2, <1>9
<1>11. \A i \in 1 .. Len(outbox) : batch[i].e = outbox[i] /\ batch[i].body = inlineRequest(outbox[i]) OBVIOUS
<1> HIDE DEF batch
<1>12. /\ ctl' \in Controllers /\ ctl'.batch = batch /\ ctl'.sequence = position
       /\ ctl'.pc = IF outbox = <<>> THEN "status" ELSE "read"
  BY <1>3, <1>7, <1>10 DEF Controllers, Pair
<1>13. outbox # <<>> => batch # <<>> BY <1>2, <1>10
<1>14. ~Recording' /\ DOMAIN work' = {} BY <1>1 DEF Recording
<1>15. UNCHANGED <<inbox, requests, outbox, last, torn, disk, mem, pc, plan, turn, hist>> BY <1>1 DEF agentVars
<1>16. RunType' BY <1>0, <1>1, <1>12 DEF RunType
<1>17. InStep'
  <2>1. ctl'.pc \in {"status", "read"} /\ (ctl'.pc = "read" => ctl'.batch # <<>>) BY <1>12, <1>13
  <2>2. Len(ctl'.batch) <= Len(outbox') /\ \A i \in DOMAIN ctl'.batch : ctl'.batch[i].e = outbox'[i]
    BY <1>2, <1>10, <1>11, <1>12, <1>15
  <2>3. position' = position BY <1>1
  <2> QED BY <2>1, <2>2, <2>3, <1>12, <1>14 DEF InStep
<1>18. Identified'
  <2>1. \A i \in DOMAIN batch : batch[i].body # None => batch[i].e.req \in Id /\ Asked(batch[i].e.req, batch[i].body)
    <3> SUFFICES ASSUME NEW i \in DOMAIN batch, batch[i].body # None
                 PROVE  batch[i].e.req \in Id /\ Asked(batch[i].e.req, batch[i].body)
      OBVIOUS
    <3>1. batch[i].e = outbox[i] /\ batch[i].body = inlineRequest(outbox[i]) BY <1>10, <1>11
    <3>2. outbox[i].req \in DOMAIN requests /\ batch[i].body = requests[outbox[i].req] BY <3>1 DEF inlineRequest
    <3> QED BY <3>1, <3>2, <1>0 DEF Identified, AgentType
  <2> QED BY <2>1, <1>0, <1>12, <1>14, <1>15 DEF Identified, AskedItem, Asked
<1>19. status' = status BY <1>1
<1> QED BY <1>1, <1>14, <1>16, <1>17, <1>18, <1>19, CtlStep

\* An event is taken and its calls are planned, the last of which records it.
LEMMA TakenKeeps ==
    ASSUME AgentRunInv, ctl.pc = "read", work = <<>>, Taken(Head(ctl.batch).e), UNCHANGED agentVars,
           UNCHANGED <<status, replies, position>>, names' \in Nat,
           work' \in Seq(Work), work' # <<>>, work'[Len(work')] = Record(outbox[1].seq),
           \A i \in DOMAIN work' : i < Len(work') => work'[i].op # "record",
           \A i \in DOMAIN work' : work'[i].op = "upload" => ItemFits(work'[i].item) /\ AskedItem(work'[i].item),
           \A i \in DOMAIN work' : work'[i].op = "deliver" =>
              Answered(work'[i].msg) \/ \E j \in 1 .. i - 1 : work'[j].op = "reply" /\ work'[j].msg = work'[i].msg,
           outbox[1].type = "reply" => \E j \in DOMAIN work' : work'[j].op = "reply" /\ work'[j].msg = outbox[1].msg
    PROVE  AgentRunInv'
<1>0. RunType /\ InStep /\ Identified BY DEF AgentRunInv
<1>1. /\ outbox # <<>> /\ 1 \in DOMAIN outbox /\ outbox[1] \in Line
      /\ ctl' \in Controllers /\ ctl'.sequence = outbox[1].seq /\ ctl'.pc \in {"read", "loop", "drain"}
      /\ ctl'.pc = "read" => ctl'.batch # <<>>
      /\ Len(ctl'.batch) < Len(outbox) /\ \A i \in DOMAIN ctl'.batch : ctl'.batch[i].e = outbox[i + 1]
      /\ \A i \in DOMAIN ctl'.batch : ctl'.batch[i].body # None =>
            ctl'.batch[i].e.req \in Id /\ Asked(ctl'.batch[i].e.req, ctl'.batch[i].body)
  BY Reading
<1> DEFINE n == Len(work')
<1>2. DOMAIN work' = 1 .. n /\ n \in Nat \ {0}
  <2>1. DOMAIN work' = 1 .. n /\ n \in Nat BY Domain
  <2>2. n # 0 OBVIOUS
  <2> QED BY <2>1, <2>2
<1>3. outbox[1].seq \in Nat BY <1>1 DEF Line
<1>4. work'[n].op = "record" /\ work'[n].seq = outbox[1].seq BY <1>3, CallRows
<1> HIDE DEF n
<1>5. Recording' BY <1>2, <1>4 DEF Recording
<1>6. UNCHANGED <<inbox, requests, outbox, last, torn, disk, mem, pc, plan, turn, hist>> BY DEF agentVars
<1>7. RunType' BY <1>0, <1>1 DEF RunType
<1>8. \A i \in DOMAIN work' : work'[i].op = "record" => i = Len(work') /\ work'[i].seq = ctl'.sequence
  <2> TAKE i \in DOMAIN work'
  <2>1. i # n => i < n BY <1>2
  <2> QED BY <2>1, <1>1, <1>4 DEF n
<1>9. InStep' BY <1>1, <1>2, <1>5, <1>6, <1>8 DEF InStep
<1>10. Identified' BY <1>0, <1>1, <1>2, <1>6 DEF Identified, AskedItem, Asked
<1>11. \A m \in Message : status'[m] = "delivered" => status[m] = "delivered" OBVIOUS
<1>12. \A i \in DOMAIN work' : work'[i].op = "deliver" =>
              Answered(work'[i].msg) \/ \E j \in 1 .. i - 1 : work'[j].op = "reply" /\ work'[j].msg = work'[i].msg
  BY <1>2
<1>13. outbox[1].type = "reply" => \E j \in DOMAIN work' : work'[j].op = "reply" /\ work'[j].msg = outbox[1].msg BY <1>2
<1> QED BY <1>7, <1>9, <1>10, <1>11, <1>12, <1>13, CtlStep

\* A request is answered from the body that was read with it.
LEMMA HandleRequestKeeps ==
    ASSUME AgentRunInv, HandleRequest
    PROVE  AgentRunInv'
<1> DEFINE e == Head(ctl.batch).e
           body == Head(ctl.batch).body
<1>0. RunType /\ InStep BY DEF AgentRunInv
<1>1. /\ ctl.pc = "read" /\ work = <<>> /\ e.type = "request" /\ body # None /\ Taken(e) /\ names' = names + 1
      /\ UNCHANGED agentVars /\ UNCHANGED <<status, replies, position>>
  BY DEF HandleRequest, CtlOnly
<1>2. PICK kind \in {"text", "tools", "error"} :
         work' = <<Upload("model.response", None, e.req, kind, body), Record(e.seq)>>
  BY DEF HandleRequest
<1>3. e = outbox[1] /\ outbox[1] \in Line /\ body \in Maybe(Body) /\ outbox[1].req \in Id /\ Asked(outbox[1].req, body)
  BY <1>1, Reading
<1> DEFINE u == Upload("model.response", None, outbox[1].req, kind, body)
           r == Record(outbox[1].seq)
<1>4. work' = <<u, r>> BY <1>2, <1>3
<1>5. names \in Nat /\ names' \in Nat BY <1>0, <1>1 DEF RunType
<1>6. /\ u \in Work /\ u.op = "upload" /\ u.item.type = "model.response" /\ u.item.msg = None
      /\ u.item.req = outbox[1].req /\ u.item.kind = kind /\ u.item.answer = body
  <2>1. "model.response" \in ItemType /\ None \in Maybe(Message) /\ outbox[1].req \in Maybe(Id) /\ kind \in AnswerKind
    BY <1>3 DEF ItemType, Maybe, AnswerKind
  <2> HIDE DEF u, body
  <2> QED BY <2>1, <1>3, <1>5, UploadRow DEF u
<1>7. ItemFits(u.item) /\ AskedItem(u.item)
  <2> HIDE DEF u, body
  <2> QED BY <1>3, <1>6 DEF ItemFits, AskedItem
<1>8. outbox[1].seq \in Nat BY <1>3 DEF Line
<1>9. r \in Work /\ r.op = "record" BY <1>8, CallRows
<1>10. outbox[1].type # "reply" BY <1>1, <1>3
<1>11. Taken(Head(ctl.batch).e) BY <1>1
<1>12. r = Record(outbox[1].seq) OBVIOUS
<1> HIDE DEF u, r, e, body
<1>13. work' \in Seq(Work) /\ work' # <<>> /\ Len(work') = 2 /\ DOMAIN work' = 1 .. 2 /\ work'[1] = u /\ work'[2] = r BY <1>4, <1>6, <1>9, Two
<1>18. work'[Len(work')] = Record(outbox[1].seq) BY <1>12, <1>13
<1>14. \A i \in 1 .. 2 : i = 1 \/ i = 2 OBVIOUS
<1>15. \A i \in DOMAIN work' : i < Len(work') => work'[i].op # "record" BY <1>6, <1>13, <1>14
<1>16. \A i \in DOMAIN work' : work'[i].op = "upload" => ItemFits(work'[i].item) /\ AskedItem(work'[i].item)
  BY <1>7, <1>9, <1>13, <1>14
<1>17. \A i \in DOMAIN work' : work'[i].op # "deliver" BY <1>6, <1>9, <1>13, <1>14
<1> QED BY <1>1, <1>5, <1>10, <1>11, <1>12, <1>13, <1>15, <1>16, <1>17, <1>18, TakenKeeps

LEMMA Equal ==
    ASSUME NEW S, NEW s \in Seq(S), NEW u \in Seq(S), Len(s) = Len(u), \A i \in 1 .. Len(s) : s[i] = u[i]
    PROVE  s = u
OBVIOUS

LEMMA Joins ==
    ASSUME NEW S, NEW a \in S, NEW b \in S, NEW c \in S
    PROVE  /\ <<a>> \o <<b>> \o <<c>> = <<a, b, c>>
           /\ <<a>> \o <<>> \o <<c>> = <<a, c>>
           /\ <<>> \o <<b>> \o <<c>> = <<b, c>>
           /\ <<>> \o <<>> \o <<c>> = <<c>>
<1>1. ASSUME NEW x \in S, NEW y \in S PROVE <<x>> \o <<y>> = <<x, y>>
  <2> DEFINE s == <<x>>
             u == <<y>>
             w == <<x, y>>
  <2>1. s \in Seq(S) /\ u \in Seq(S) /\ w \in Seq(S) /\ Len(s) = 1 /\ Len(u) = 1 /\ Len(w) = 2
        /\ s[1] = x /\ u[1] = y /\ w[1] = x /\ w[2] = y
    OBVIOUS
  <2> HIDE DEF s, u, w
  <2>2. s \o u \in Seq(S) /\ Len(s \o u) = 2 /\ (s \o u)[1] = x /\ (s \o u)[2] = y
    <3>6. s \in Seq(S) /\ u \in Seq(S) BY <2>1
    <3>7. s \o u \in Seq(S) /\ Len(s \o u) = Len(s) + Len(u) BY <3>6, Joined, Zenon
    <3>1. s \o u \in Seq(S) /\ Len(s \o u) = 2 BY <2>1, <3>7
    <3>5. /\ \A i \in 1 .. Len(s) : (s \o u)[i] = s[i]
          /\ \A i \in 1 .. Len(u) : (s \o u)[i + Len(s)] = u[i]
      BY <3>6
    <3>2. \A i \in 1 .. 1 : (s \o u)[i] = s[i] BY <2>1, <3>5
    <3>3. \A i \in 1 .. 1 : (s \o u)[i + 1] = u[i] BY <2>1, <3>5
    <3>4. 1 \in 1 .. 1 /\ 1 + 1 = 2 OBVIOUS
    <3> QED BY <2>1, <3>1, <3>2, <3>3, <3>4
  <2>3. \A i \in 1 .. 2 : i = 1 \/ i = 2 OBVIOUS
  <2>4. s \o u = w BY <2>1, <2>2, <2>3, Equal
  <2> QED BY <2>4 DEF s, u, w
<1>2. <<a, b>> \o <<c>> = <<a, b, c>>
  <2> DEFINE s == <<a, b>>
             u == <<c>>
             w == <<a, b, c>>
  <2>1. s \in Seq(S) /\ u \in Seq(S) /\ w \in Seq(S) /\ Len(s) = 2 /\ Len(u) = 1 /\ Len(w) = 3
        /\ s[1] = a /\ s[2] = b /\ u[1] = c /\ w[1] = a /\ w[2] = b /\ w[3] = c
    OBVIOUS
  <2> HIDE DEF s, u, w
  <2>2. s \o u \in Seq(S) /\ Len(s \o u) = 3 /\ (s \o u)[1] = a /\ (s \o u)[2] = b /\ (s \o u)[3] = c
    <3>6. s \in Seq(S) /\ u \in Seq(S) BY <2>1
    <3>7. s \o u \in Seq(S) /\ Len(s \o u) = Len(s) + Len(u) BY <3>6, Joined, Zenon
    <3>1. s \o u \in Seq(S) /\ Len(s \o u) = 3 BY <2>1, <3>7
    <3>5. /\ \A i \in 1 .. Len(s) : (s \o u)[i] = s[i]
          /\ \A i \in 1 .. Len(u) : (s \o u)[i + Len(s)] = u[i]
      BY <3>6
    <3>2. \A i \in 1 .. 2 : (s \o u)[i] = s[i] BY <2>1, <3>5
    <3>3. \A i \in 1 .. 1 : (s \o u)[i + 2] = u[i] BY <2>1, <3>5
    <3>4. 1 \in 1 .. 2 /\ 2 \in 1 .. 2 /\ 1 \in 1 .. 1 /\ 1 + 2 = 3 OBVIOUS
    <3> QED BY <2>1, <3>1, <3>2, <3>3, <3>4
  <2>3. \A i \in 1 .. 3 : i = 1 \/ i = 2 \/ i = 3 OBVIOUS
  <2>4. s \o u = w BY <2>1, <2>2, <2>3, Equal
  <2> QED BY <2>4 DEF s, u, w
<1>3. \A s \in Seq(S) : s \o <<>> = s /\ <<>> \o s = s OBVIOUS
<1>4. <<a>> \in Seq(S) /\ <<b>> \in Seq(S) /\ <<c>> \in Seq(S) /\ <<>> \in Seq(S) OBVIOUS
<1>5. <<a>> \o <<>> = <<a>> /\ <<>> \o <<b>> = <<b>> /\ <<>> \o <<>> = <<>> /\ <<>> \o <<c>> = <<c>>
  BY <1>3, <1>4, Zenon
<1> QED BY <1>1, <1>2, <1>5

LEMMA HandleTurnKeeps ==
    ASSUME AgentRunInv, HandleTurn
    PROVE  AgentRunInv'
<1> DEFINE e == outbox[1]
           reply == Reply(e.seq, e.msg)
           deliver == Deliver(e.msg)
           record == Record(e.seq)
<1>0. RunType /\ InStep /\ Replied BY DEF AgentRunInv
<1>1. /\ ctl.pc = "read" /\ work = <<>> /\ Taken(Head(ctl.batch).e) /\ Head(ctl.batch).e.type \in {"reply", "completed"}
      /\ UNCHANGED agentVars /\ UNCHANGED <<status, replies, position, names>>
      /\ work' = IF Head(ctl.batch).e.type = "reply" THEN OnReply(Head(ctl.batch).e) ELSE OnCompleted(Head(ctl.batch).e)
  BY DEF HandleTurn, CtlOnly, Same
<1>2. Head(ctl.batch).e = e /\ e \in Line /\ 1 \in DOMAIN outbox BY <1>1, Reading
<1>3. e.type \in {"reply", "completed"} /\ work' = IF e.type = "reply" THEN OnReply(e) ELSE OnCompleted(e)
  BY <1>1, <1>2
<1>4. e.seq \in Nat /\ e.msg \in Message BY <1>0, <1>2, <1>3 DEF Line, Replied
<1>5. names' \in Nat BY <1>0, <1>1 DEF RunType
<1>6. /\ reply \in Work /\ reply.op = "reply" /\ reply.msg = e.msg
      /\ deliver \in Work /\ deliver.op = "deliver" /\ deliver.msg = e.msg
      /\ record \in Work /\ record.op = "record"
  BY <1>4, CallRows
<1>7. /\ e.type = "reply" => work' = <<reply, record>>
      /\ e.type = "completed" => \/ work' = <<reply>> \o <<deliver>> \o <<record>>
                                 \/ work' = <<reply>> \o <<>> \o <<record>>
                                 \/ work' = <<>> \o <<deliver>> \o <<record>> /\ e.status = "completed"
                                 \/ work' = <<>> \o <<>> \o <<record>>
  BY <1>3 DEF OnReply, OnCompleted
<1>8. e.type = "completed" /\ e.status = "completed" => Answered(e.msg)
  <2>1. ~\E i \in 1 .. 1 - 1 : ReplyLine(i, e.msg) OBVIOUS
  <2> QED BY <2>1, <1>0, <1>2 DEF Replied
<1>9. record = Record(outbox[1].seq) /\ (outbox[1].type = "reply" <=> e.type = "reply") /\ outbox[1].msg = e.msg OBVIOUS
<1> HIDE DEF e, reply, deliver, record
<1>10. CASE work' = <<reply, record>>
  <2>1. work' \in Seq(Work) /\ work' # <<>> /\ Len(work') = 2 /\ DOMAIN work' = 1 .. 2 /\ work'[1] = reply /\ work'[2] = record BY <1>6, <1>10, Two
  <2>7. work'[Len(work')] = Record(outbox[1].seq) BY <1>9, <2>1
  <2>2. \A i \in 1 .. 2 : i = 1 \/ i = 2 OBVIOUS
  <2>3. \A i \in DOMAIN work' : i < Len(work') => work'[i].op # "record" BY <1>6, <2>1, <2>2
  <2>4. \A i \in DOMAIN work' : work'[i].op # "upload" /\ work'[i].op # "deliver" BY <1>6, <2>1, <2>2
  <2>5. \E j \in DOMAIN work' : work'[j].op = "reply" /\ work'[j].msg = outbox[1].msg BY <1>6, <1>9, <2>1
  <2> QED BY <1>1, <1>5, <1>9, <2>1, <2>7, <2>3, <2>4, <2>5, TakenKeeps
<1>11. CASE e.type = "completed" /\ work' = <<reply, deliver, record>>
  <2>1. work' \in Seq(Work) /\ work' # <<>> /\ Len(work') = 3 /\ DOMAIN work' = 1 .. 3 /\ work'[1] = reply /\ work'[2] = deliver /\ work'[3] = record BY <1>6, <1>11
  <2>7. work'[Len(work')] = Record(outbox[1].seq) BY <1>9, <2>1
  <2>2. \A i \in 1 .. 3 : i = 1 \/ i = 2 \/ i = 3 OBVIOUS
  <2>3. \A i \in DOMAIN work' : i < Len(work') => work'[i].op # "record" BY <1>6, <2>1, <2>2
  <2>4. \A i \in DOMAIN work' : work'[i].op # "upload" BY <1>6, <2>1, <2>2
  <2>5. \A i \in DOMAIN work' : work'[i].op = "deliver" =>
           \E j \in 1 .. i - 1 : work'[j].op = "reply" /\ work'[j].msg = work'[i].msg
    <3> SUFFICES ASSUME NEW i \in DOMAIN work', work'[i].op = "deliver"
                 PROVE  \E j \in 1 .. i - 1 : work'[j].op = "reply" /\ work'[j].msg = work'[i].msg
      OBVIOUS
    <3>1. i = 2 BY <1>6, <2>1, <2>2
    <3>2. 1 \in 1 .. i - 1 BY <3>1
    <3> QED BY <3>1, <3>2, <1>6, <2>1
  <2>6. outbox[1].type # "reply" BY <1>9, <1>11
  <2> QED BY <1>1, <1>5, <1>9, <2>1, <2>7, <2>3, <2>4, <2>5, <2>6, TakenKeeps
<1>12. CASE e.type = "completed" /\ work' = <<deliver, record>> /\ e.status = "completed"
  <2>1. work' \in Seq(Work) /\ work' # <<>> /\ Len(work') = 2 /\ DOMAIN work' = 1 .. 2 /\ work'[1] = deliver /\ work'[2] = record BY <1>6, <1>12, Two
  <2>7. work'[Len(work')] = Record(outbox[1].seq) BY <1>9, <2>1
  <2>2. \A i \in 1 .. 2 : i = 1 \/ i = 2 OBVIOUS
  <2>3. \A i \in DOMAIN work' : i < Len(work') => work'[i].op # "record" BY <1>6, <2>1, <2>2
  <2>4. \A i \in DOMAIN work' : work'[i].op # "upload" BY <1>6, <2>1, <2>2
  <2>5. \A i \in DOMAIN work' : work'[i].op = "deliver" => Answered(work'[i].msg) BY <1>6, <1>8, <1>12, <2>1, <2>2
  <2>6. outbox[1].type # "reply" BY <1>9, <1>12
  <2> QED BY <1>1, <1>5, <1>9, <2>1, <2>7, <2>3, <2>4, <2>5, <2>6, TakenKeeps
<1>13. CASE e.type = "completed" /\ work' = <<record>>
  <2>1. work' \in Seq(Work) /\ work' # <<>> /\ Len(work') = 1 /\ DOMAIN work' = 1 .. 1 /\ work'[1] = record BY <1>6, <1>13, One
  <2>7. work'[Len(work')] = Record(outbox[1].seq) BY <1>9, <2>1
  <2>2. \A i \in 1 .. 1 : i = 1 OBVIOUS
  <2>3. \A i \in DOMAIN work' : i < Len(work') => work'[i].op # "record" BY <2>1, <2>2
  <2>4. \A i \in DOMAIN work' : work'[i].op # "upload" /\ work'[i].op # "deliver" BY <1>6, <2>1, <2>2
  <2>5. outbox[1].type # "reply" BY <1>9, <1>13
  <2> QED BY <1>1, <1>5, <1>9, <2>1, <2>7, <2>3, <2>4, <2>5, TakenKeeps
<1>14. /\ <<reply>> \o <<deliver>> \o <<record>> = <<reply, deliver, record>>
       /\ <<reply>> \o <<>> \o <<record>> = <<reply, record>>
       /\ <<>> \o <<deliver>> \o <<record>> = <<deliver, record>>
       /\ <<>> \o <<>> \o <<record>> = <<record>>
  BY <1>6, Joins
<1>15. \/ work' = <<reply, record>> \/ (e.type = "completed" /\ work' = <<reply, deliver, record>>)
       \/ (e.type = "completed" /\ work' = <<deliver, record>> /\ e.status = "completed")
       \/ (e.type = "completed" /\ work' = <<record>>)
  BY <1>3, <1>7, <1>14
<1> QED BY <1>10, <1>11, <1>12, <1>13, <1>15

\* What the rest of the work and the recorded line are owed, once a call is made.
LEMMA RepliedDropped ==
    ASSUME AgentRunInv, work # <<>>, work' = Tail(work), work[1].op # "record",
           UNCHANGED <<outbox, plan>>, DeliveredIsAnswered', replies \subseteq replies',
           work[1].op = "reply" => \E r \in replies' : r.msg = work[1].msg
    PROVE  Replied'
<1>0. Replied /\ RunType BY DEF AgentRunInv
<1>1. /\ work' \in Seq(Work)
      /\ \A i \in DOMAIN work' : i + 1 \in DOMAIN work /\ work'[i] = work[i + 1] /\ i \in Nat
      /\ \A i \in DOMAIN work : i \in Nat /\ (i = 1 \/ (i - 1 \in DOMAIN work' /\ work'[i - 1] = work[i]))
      /\ Recording' <=> Recording
  BY WorkDropped
<1> DEFINE A(m) == \E r \in replies' : r.msg = m
<1>2. \A m : Answered(m) => A(m) BY DEF Answered
<1>3. ASSUME NEW j \in DOMAIN work, work[j].op = "reply"
      PROVE  A(work[j].msg) \/ (j - 1 \in DOMAIN work' /\ work'[j - 1] = work[j])
  <2>1. CASE j = 1 BY <1>3, <2>1
  <2>2. CASE j # 1 BY <1>1, <2>2
  <2> QED BY <2>1, <2>2
<1>4. ASSUME NEW i \in DOMAIN work', work'[i].op = "deliver"
      PROVE  A(work'[i].msg) \/ \E j \in 1 .. i - 1 : work'[j].op = "reply" /\ work'[j].msg = work'[i].msg
  <2>1. Answered(work'[i].msg) \/ \E j \in 1 .. (i + 1) - 1 : work[j].op = "reply" /\ work[j].msg = work'[i].msg
    BY <1>1, <1>4, <1>0 DEF Replied
  <2>2. ASSUME NEW j \in 1 .. (i + 1) - 1, work[j].op = "reply", work[j].msg = work'[i].msg
        PROVE  A(work'[i].msg) \/ \E h \in 1 .. i - 1 : work'[h].op = "reply" /\ work'[h].msg = work'[i].msg
    <3>1. i \in 1 .. Len(work') /\ Len(work') \in Nat /\ DOMAIN work = 1 .. Len(work) BY <1>0, <1>1, Domain DEF RunType
    <3>2. i + 1 \in DOMAIN work BY <1>1
    <3>3. j \in DOMAIN work BY <3>1, <3>2
    <3>4. A(work'[i].msg) \/ (j - 1 \in DOMAIN work' /\ work'[j - 1] = work[j]) BY <3>3, <2>2, <1>3
    <3>5. j - 1 \in DOMAIN work' => j - 1 \in 1 .. i - 1 BY <3>1, <1>1, Domain
    <3> QED BY <3>4, <3>5, <2>2
  <2> QED BY <2>1, <2>2, <1>2
<1>5. ASSUME Recording, outbox[1].type = "reply"
      PROVE  A(outbox[1].msg) \/ \E j \in DOMAIN work' : work'[j].op = "reply" /\ work'[j].msg = outbox[1].msg
  <2>1. Answered(outbox[1].msg) \/ \E j \in DOMAIN work : work[j].op = "reply" /\ work[j].msg = outbox[1].msg
    BY <1>5, <1>0 DEF Replied
  <2> QED BY <2>1, <1>2, <1>3
<1>6. \A j \in DOMAIN outbox' : outbox'[j].type = "completed" /\ outbox'[j].status = "completed" =>
          \/ A(outbox[j].msg)
          \/ \E i \in 1 .. j - 1 : ReplyLine(i, outbox[j].msg)
  BY <1>0, <1>2 DEF Replied, ReplyLine
<1>7. \A m \in Message : Succeeds(plan', m) =>
          A(m) \/ Reports(plan', "reply", m) \/ \E j \in DOMAIN outbox' : ReplyLine(j, m)
  BY <1>0, <1>2 DEF Replied, ReplyLine
<1>8. \A i \in DOMAIN outbox' : outbox'[i].type \in {"reply", "completed"} => outbox'[i].msg \in Message
  BY <1>0 DEF Replied
<1> QED BY <1>1, <1>4, <1>5, <1>6, <1>7, <1>8 DEF Replied, Answered, ReplyLine

LEMMA ReplyCallKeeps ==
    ASSUME AgentRunInv, ReplyCall
    PROVE  AgentRunInv'
<1>0. RunType /\ Identified /\ Numbered /\ InStep /\ Replied BY DEF AgentRunInv
<1>1. /\ work # <<>> /\ Head(work).op = "reply" /\ work' = Tail(work)
      /\ replies' = replies \cup {[seq |-> Head(work).seq, msg |-> Head(work).msg]}
      /\ UNCHANGED agentVars /\ UNCHANGED <<status, position, ctl, names>>
  BY DEF ReplyCall, Call, CtlOnly
<1>2. Head(work) = work[1] /\ work[1] \in Work /\ work' \in Seq(Work) BY <1>1, WorkDropped
<1>3. UNCHANGED <<inbox, requests, outbox, last, torn, disk, mem, pc, plan, turn, hist>> BY <1>1 DEF agentVars
<1>4. work[1].op = "reply" /\ work[1].seq \in Int /\ work[1].msg \in Message BY <1>1, <1>2, WorkRows
<1>5. RunType'
  <2>1. [seq |-> Head(work).seq, msg |-> Head(work).msg] \in [seq : Int, msg : Message] BY <1>2, <1>4
  <2> QED BY <2>1, <1>0, <1>1, <1>2 DEF RunType
<1>6. InStep' BY <1>1, <1>3, <1>4, CallMade
<1>7. \A item \in inbox' : AskedItem(item) BY <1>0, <1>3 DEF Identified
<1>8. Identified' BY <1>1, <1>3, <1>7, IdentifiedDropped
<1>9. Numbered' BY <1>0, <1>1, <1>3 DEF Numbered, SequencesNeverRepeat
<1>10. DeliveredIsAnswered' BY <1>0, <1>1 DEF Replied, DeliveredIsAnswered
<1>11. replies \subseteq replies' /\ \E r \in replies' : r.msg = work[1].msg
  <2> DEFINE r == [seq |-> work[1].seq, msg |-> work[1].msg]
  <2>1. r \in replies' /\ replies \subseteq replies' BY <1>1, <1>2
  <2>2. r.msg = work[1].msg OBVIOUS
  <2> QED BY <2>1, <2>2
<1>12. Replied' BY <1>1, <1>3, <1>4, <1>10, <1>11, RepliedDropped
<1> QED BY <1>1, <1>5, <1>6, <1>8, <1>9, <1>12, AgentRests

LEMMA DeliverCallKeeps ==
    ASSUME AgentRunInv, DeliverCall
    PROVE  AgentRunInv'
<1>0. RunType /\ Identified /\ Numbered /\ InStep /\ Replied BY DEF AgentRunInv
<1>1. /\ work # <<>> /\ Head(work).op = "deliver" /\ work' = Tail(work)
      /\ status' = [status EXCEPT ![Head(work).msg] = "delivered"]
      /\ UNCHANGED agentVars /\ UNCHANGED <<replies, position, ctl, names>>
  BY DEF DeliverCall, Call, CtlOnly
<1>2. Head(work) = work[1] /\ work[1] \in Work /\ work' \in Seq(Work) /\ 1 \in DOMAIN work BY <1>1, WorkDropped
<1>3. UNCHANGED <<inbox, requests, outbox, last, torn, disk, mem, pc, plan, turn, hist>> BY <1>1 DEF agentVars
<1>4. work[1].op = "deliver" /\ work[1].msg \in Message BY <1>1, <1>2, WorkRows
<1>5. RunType' BY <1>0, <1>1, <1>2, <1>4 DEF RunType
<1>6. InStep' BY <1>1, <1>3, <1>4, CallMade
<1>7. \A item \in inbox' : AskedItem(item) BY <1>0, <1>3 DEF Identified
<1>8. Identified' BY <1>1, <1>3, <1>7, IdentifiedDropped
<1>9. Numbered' BY <1>0, <1>1, <1>3 DEF Numbered, SequencesNeverRepeat
<1>10. Answered(work[1].msg)
  <2>1. ~\E j \in 1 .. 1 - 1 : work[j].op = "reply" /\ work[j].msg = work[1].msg OBVIOUS
  <2> QED BY <2>1, <1>0, <1>2, <1>4 DEF Replied
<1>11. DeliveredIsAnswered'
  <2>1. status' = [status EXCEPT ![work[1].msg] = "delivered"] /\ replies' = replies BY <1>1, <1>2
  <2>2. \A m \in Message : status'[m] = "delivered" => m = work[1].msg \/ status[m] = "delivered"
    BY <2>1, <1>0 DEF RunType
  <2> QED BY <2>1, <2>2, <1>0, <1>10 DEF Replied, DeliveredIsAnswered, Answered
<1>12. Replied' BY <1>1, <1>3, <1>4, <1>11, RepliedDropped
<1> QED BY <1>1, <1>5, <1>6, <1>8, <1>9, <1>12, AgentRests

\* A message that came too late is answered by the controller itself.
LEMMA DrainStepKeeps ==
    ASSUME AgentRunInv, DrainStep
    PROVE  AgentRunInv'
<1>0. RunType /\ InStep /\ Identified BY DEF AgentRunInv
<1>1. /\ ctl.pc = "drain" /\ work = <<>> /\ UNCHANGED agentVars /\ UNCHANGED <<replies, position, ctl, names>>
  BY DEF DrainStep, CtlOnly
<1>2. PICK m \in Message : status' = [status EXCEPT ![m] = "claimed"] /\ work' = <<Reply(0 - m, m), Deliver(m)>>
  BY DEF DrainStep, Drain
<1> DEFINE r == Reply(0 - m, m)
           d == Deliver(m)
<1>3. 0 - m \in Int BY AgentAssumption
<1>4. r \in Work /\ r.op = "reply" /\ r.msg = m /\ d \in Work /\ d.op = "deliver" /\ d.msg = m
  BY <1>3, CallRows
<1>5. work' = <<r, d>> BY <1>2
<1> HIDE DEF r, d
<1>6. work' \in Seq(Work) /\ DOMAIN work' = 1 .. 2 /\ work'[1] = r /\ work'[2] = d BY <1>4, <1>5, Two
<1>7. \A i \in 1 .. 2 : i = 1 \/ i = 2 OBVIOUS
<1>8. \A i \in DOMAIN work' : work'[i].op \in {"reply", "deliver"} BY <1>4, <1>6, <1>7
<1>9. ~Recording /\ ~Recording' BY <1>1, <1>8 DEF Recording
<1>10. UNCHANGED <<inbox, requests, outbox, last, torn, disk, mem, pc, plan, turn, hist>> BY <1>1 DEF agentVars
<1>11. status' \in [Message -> {"unsent", "queued", "claimed", "delivered"}]
       /\ \A n \in Message : status'[n] = "delivered" => status[n] = "delivered"
  BY <1>0, <1>2 DEF RunType
<1>12. RunType' BY <1>0, <1>1, <1>6, <1>11 DEF RunType
<1>13. InStep'
  <2>1. \A i \in DOMAIN work' : work'[i].op # "record" /\ work'[i].op # "upload" BY <1>8
  <2> QED BY <2>1, <1>0, <1>1, <1>9, <1>10 DEF InStep
<1>14. Identified'
  <2>1. \A i \in DOMAIN work' : work'[i].op # "upload" BY <1>8
  <2> QED BY <2>1, <1>0, <1>1, <1>10 DEF Identified, AskedItem, Asked
<1>15. ASSUME NEW i \in DOMAIN work', work'[i].op = "deliver"
       PROVE  \E j \in 1 .. i - 1 : work'[j].op = "reply" /\ work'[j].msg = work'[i].msg
  <2>1. i = 2 BY <1>4, <1>6, <1>7, <1>15
  <2>2. 1 \in 1 .. i - 1 BY <2>1
  <2> QED BY <2>1, <2>2, <1>4, <1>6
<1> QED BY <1>1, <1>9, <1>11, <1>12, <1>13, <1>14, <1>15, CtlStep

LEMMA InitRuns == Init => AgentRunInv
<1> SUFFICES ASSUME Init PROVE AgentRunInv OBVIOUS
<1>1. /\ inbox = {} /\ DOMAIN requests = {} /\ outbox = <<>> /\ last = 0 /\ torn = FALSE
      /\ mem = [state |-> disk, requestNumber |-> 0, next |-> 0]
      /\ pc = "dead" /\ plan = <<>> /\ turn = NoTurn
      /\ hist = [open |-> {}, lost |-> {}, unsaved |-> {}]
      /\ disk = [done |-> {}, steps |-> 0, current |-> None, finalized |-> FALSE]
  BY DEF Init, AgentInit
<1>2. /\ status = [m \in Message |-> "unsent"] /\ replies = {} /\ position = 0 /\ ctl = Down /\ work = <<>> /\ names = 0
  BY DEF Init
<1>3. disk \in State BY <1>1 DEF State, Maybe
<1>4. AgentType
  <2>1. mem \in [state : State, requestNumber : Nat, next : Nat] BY <1>1, <1>3
  <2>2. hist \in [open : SUBSET Message, lost : SUBSET Message, unsaved : SUBSET Id] BY <1>1
  <2>3. turn \in TurnRow BY <1>1, NoTurnRow
  <2>4. torn \in BOOLEAN BY <1>1
  <2>5. inbox \subseteq Item /\ outbox \in Seq(Line) /\ DOMAIN requests \subseteq Id /\ \A r \in DOMAIN requests : requests[r] \in Body
    BY <1>1
  <2>6. last \in Nat /\ pc \in {"dead", "serve", "ask", "call"} BY <1>1
  <2> QED BY <2>1, <2>2, <2>3, <2>4, <2>5, <2>6, <1>3 DEF AgentType
<1>5. RunType
  <2>1. replies \subseteq [seq : Int, msg : Message] /\ work \in Seq(Work) BY <1>2
  <2>2. status \in [Message -> {"unsent", "queued", "claimed", "delivered"}] BY <1>2
  <2> QED BY <2>1, <2>2, <1>2, DownRow DEF RunType
<1>6. Planned BY <1>1, EmptyPlan DEF Planned
<1>7. Owed BY <1>1 DEF Owed
<1>8. Counted BY <1>1 DEF Counted
<1>9. DOMAIN work = {} /\ DOMAIN ctl.batch = {} /\ DOMAIN outbox = {} /\ ctl.pc = "down" /\ ctl.batch = <<>>
  BY <1>1, <1>2, DownRow
<1>10. Identified BY <1>1, <1>9 DEF Identified
<1>11. AnswerFits BY <1>1, NoTurnRow DEF AnswerFits
<1>12. Numbered BY <1>1, <1>2, <1>9 DEF Numbered, SequencesNeverRepeat
<1>13. InStep BY <1>2, <1>9 DEF InStep, Recording
<1>14. Replied
  <2>1. DeliveredIsAnswered BY <1>2 DEF DeliveredIsAnswered
  <2>2. \A m \in Message : ~Succeeds(plan, m) BY <1>1, EmptyPlan
  <2> QED BY <2>1, <2>2, <1>9 DEF Replied, Recording
<1> QED BY <1>4, <1>5, <1>6, <1>7, <1>8, <1>10, <1>11, <1>12, <1>13, <1>14 DEF AgentRunInv

LEMMA StepRuns == AgentRunInv /\ [Next]_vars => AgentRunInv'
<1> SUFFICES ASSUME AgentRunInv, [Next]_vars PROVE AgentRunInv' OBVIOUS
<1>1. CASE \E m \in Message : Send(m) BY <1>1, SendKeeps
<1>2. CASE \E type \in Instruction : Instruct(type) BY <1>2, InstructKeeps
<1>3. CASE TakeOver BY <1>3, TakeOverKeeps
<1>4. CASE Claim BY <1>4, ClaimKeeps
<1>5. CASE Idle BY <1>5, IdleKeeps
<1>6. CASE Wait BY <1>6, WaitKeeps
<1>7. CASE WaitStatus BY <1>7, WaitStatusKeeps
<1>8. CASE HandleRequest BY <1>8, HandleRequestKeeps
<1>9. CASE HandleTurn BY <1>9, HandleTurnKeeps
<1>10. CASE HandleOther BY <1>10, HandleOtherKeeps
<1>11. CASE UploadCall \/ UploadAgain BY <1>11, UploadKeeps
<1>12. CASE ReplyCall BY <1>12, ReplyCallKeeps
<1>13. CASE DeliverCall BY <1>13, DeliverCallKeeps
<1>14. CASE RecordCall BY <1>14, RecordKeeps
<1>15. CASE DrainStep BY <1>15, DrainStepKeeps
<1>16. CASE Drained BY <1>16, DrainedKeeps
<1>17. CASE agent_run_controller_finalize \/ AccessFails \/ ControllerFails BY <1>17, StopsKeeps
<1>18. CASE AgentFault
  <2>1. CtlKept BY <1>18 DEF AgentFault, CtlKept
  <2>2. (\E partial \in BOOLEAN : Crash(partial)) \/ Signalled \/ BaselineStep(TRUE) BY <1>18 DEF AgentFault
  <2> QED BY <2>1, <2>2, AgentStepKeeps
<1>19. CASE AgentStep
  <2>1. CtlKept /\ AgentSteps BY <1>19 DEF AgentStep, CtlKept, ctlVars
  <2> QED BY <2>1, AgentStepKeeps
<1>20. CASE UNCHANGED vars
  <2>0. RunType /\ InStep /\ Identified /\ Numbered /\ Replied BY DEF AgentRunInv
  <2>1. UNCHANGED agentVars /\ UNCHANGED <<status, replies, position, ctl, work, names>> BY <1>20 DEF vars, ctlVars
  <2>2. UNCHANGED <<inbox, requests, outbox, last, torn, disk, mem, pc, plan, turn, hist>> BY <2>1 DEF agentVars
  <2>3. RunType' BY <2>0, <2>1 DEF RunType
  <2>4. InStep' BY <2>0, <2>1, <2>2 DEF InStep, Recording
  <2>5. Identified' BY <2>0, <2>1, <2>2 DEF Identified, AskedItem, Asked
  <2>6. Numbered' BY <2>0, <2>1, <2>2 DEF Numbered, SequencesNeverRepeat
  <2>7. Replied' BY <2>0, <2>1, <2>2 DEF Replied, DeliveredIsAnswered, Answered, ReplyLine, Recording
  <2> QED BY <2>1, <2>3, <2>4, <2>5, <2>6, <2>7, AgentRests
<1> QED BY <1>1, <1>2, <1>3, <1>4, <1>5, <1>6, <1>7, <1>8, <1>9, <1>10, <1>11, <1>12, <1>13, <1>14, <1>15,
           <1>16, <1>17, <1>18, <1>19, <1>20 DEF Next

\* In every state of a Run the agent's plan, its request IDs, its outbox and the
\* controller's calls fit together: the inductive invariant of the module.
THEOREM AgentRunInvariant == Spec => []AgentRunInv
BY InitRuns, StepRuns, PTL DEF Spec

\* A turn that an agent took is reported, or was lost by a crash, by the time
\* the agent looks at its inbox again (agent.go Run, CurrentMessage).
THEOREM TurnsAreReported == Spec => []OnlyCrashesLoseTurns
<1>1. AgentRunInv => OnlyCrashesLoseTurns
  <2> SUFFICES ASSUME AgentRunInv, pc = "serve", plan = <<>>, NEW m \in hist.open PROVE m \in hist.lost
    BY DEF OnlyCrashesLoseTurns
  <2>1. Owed BY DEF AgentRunInv
  <2>2. ~Reports(plan, "completed", m) BY EmptyPlan
  <2> QED BY <2>1, <2>2 DEF Owed
<1> QED BY <1>1, AgentRunInvariant, PTL

\* The answer in use is to the request of the turn and step in progress, or to
\* one that an unsaved step before a crash had named alike (agent.go callModel).
THEOREM AnswersFit == Spec => []AnswerFits
<1>1. AgentRunInv => AnswerFits BY DEF AgentRunInv
<1> QED BY <1>1, AgentRunInvariant, PTL

\* A delivered message has a recorded reply (agent-run-executor.ts).
THEOREM DeliveredHasReply == Spec => []DeliveredIsAnswered
<1>1. AgentRunInv => DeliveredIsAnswered BY DEF AgentRunInv, Replied
<1> QED BY <1>1, AgentRunInvariant, PTL

\* The outbox is in order and beyond the recorded position (outbox.go).
THEOREM SequencesStayUnique == Spec => []SequencesNeverRepeat
<1>1. AgentRunInv => SequencesNeverRepeat BY DEF AgentRunInv, Numbered
<1> QED BY <1>1, AgentRunInvariant, PTL

-----------------------------------------------------------------------------
(* The harness worker. *)

Word == {"none", "patch", "summary", "succeeded", "failed", "bad", "result"}

Before == {"start", "running", "grace", "killed"}
Cleaning == {"group", "scan", "verify"}
Told == {"respond", "write", "leave", "done"}
After == {"finalize", "flush", "classify", "postflight", "collect"} \cup Told

ProcessRow == [exited : BOOLEAN, code : Nat, canceled : BOOLEAN, timedOut : BOOLEAN, clean : BOOLEAN,
               treeKilled : BOOLEAN, confirmed : BOOLEAN, run : BOOLEAN]
ResultRow == [status : {"none", "failed", "error", "recovery_required", "timed_out", "cancelled", "succeeded"},
              artifacts : [Role -> Nat]]

WorkerType ==
    /\ copier \in {"off", "reading", "sending", "ended"} /\ pending \in BOOLEAN
    /\ recorded \in [Role -> Nat] /\ files \in [Role -> Nat] /\ terminal \in {"none", "succeeded", "failed"}
    /\ failed \in BOOLEAN /\ closed \in BOOLEAN /\ outputErr \in BOOLEAN /\ scope \in BOOLEAN /\ finalized \in BOOLEAN
    /\ queue \in Seq(Word) /\ output \in Seq(Word) /\ holding \in Word
    /\ delivery \in {"off", "running", "done"}
    /\ leader \in {"none", "alive", "exit0", "exit1"} /\ other \in {"none", "child", "writer", "daemon"}
    /\ quiet \in Nat /\ fooled \in Nat
    /\ at \in Before \cup Cleaning \cup After
    /\ process \in ProcessRow /\ result \in ResultRow

\* The process and what is known of it.
Reaped ==
    /\ at = "start" => process = NoProcess
    /\ ~process.run => leader = "none" /\ other = "none" /\ at \in {"start"} \cup After
    /\ process.exited => /\ leader \in {"exit0", "exit1"} /\ copier = "ended"
                         /\ process.code = 0 <=> leader = "exit0"
    /\ at \in {"killed"} \cup Cleaning \cup After => leader # "alive"
    /\ at \in Cleaning \cup After /\ process.run => process.exited \/ ~process.confirmed
    /\ process.clean => process.confirmed /\ process.run /\ at \in After

\* The rounds that found nothing missed what is alive.
Watched ==
    /\ at \in Before => quiet = 0 /\ fooled = 0
    /\ at = "group" /\ other = "child" => quiet = 0 /\ fooled = 0
    /\ at \in {"scan", "verify"} => other # "child"
    /\ at \in Cleaning /\ other # "none" => fooled = quiet
    /\ process.clean /\ other # "none" => fooled >= 2

\* The delivery ends with the queue or with an error.
Delivering ==
    /\ closed => at \in After \ {"finalize"}
    /\ delivery = "done" => closed \/ outputErr
    /\ delivery = "done" /\ ~outputErr => queue = <<>>
    /\ recorded["summary"] # 0 => recorded["patch"] # 0
    /\ at = "start" => copier = "off" /\ delivery = "off"

\* The number of records accepted, and the place of each.
Accepted ==
    (IF recorded["patch"] # 0 THEN 1 ELSE 0) + (IF recorded["summary"] # 0 THEN 1 ELSE 0)
        + (IF terminal # "none" THEN 1 ELSE 0)

Stands(t, i) ==
    \/ t = "patch" /\ i = 1 /\ recorded["patch"] # 0
    \/ t = "summary" /\ i = 2 /\ recorded["summary"] # 0
    \/ t = terminal /\ terminal # "none" /\ i = Accepted

\* Nothing was refused or lost, and nothing but records was written.
Lossless == ~failed /\ ~outputErr /\ (closed => process.exited) /\ at \notin {"leave", "done"}

Delivered ==
    Lossless =>
      /\ \A i \in DOMAIN output : Stands(output[i], i)
      /\ \A i \in DOMAIN queue : Stands(queue[i], Len(output) + i)
      /\ copier = "sending" => Stands(holding, Len(output) + Len(queue) + 1)
      /\ Accepted = Len(output) + Len(queue) + (IF copier = "sending" THEN 1 ELSE 0)

\* What Finalize vouches for.
Vouched ==
    /\ finalized => at \in {"classify", "postflight", "collect"} \cup Told /\ closed /\ delivery = "done"
    /\ finalized /\ process.exited =>
         /\ ~outputErr /\ ~failed
         /\ process.code = 0 => terminal = "succeeded" /\ \A r \in Role : recorded[r] # 0

\* What stands behind a result.
Justified ==
    /\ result.status = "succeeded" =>
         /\ finalized /\ process.clean /\ ~process.canceled /\ process.code = 0
         /\ at \in {"postflight", "collect"} \cup Told
         /\ at \in Told => result.artifacts = recorded
         /\ at \in {"leave", "done"} => output \in {Story, Append(Story, "result")}
    /\ result.artifacts # NoFiles => at \in Told
    /\ at \in {"postflight", "collect"} \/ result.artifacts # NoFiles => ~cleanupUnproven
    /\ result.artifacts # NoFiles => result.artifacts = files \/ fooled >= 2

WorkerInv ==
    WorkerType /\ Reaped /\ Watched /\ Delivering /\ Delivered /\ Vouched /\ Justified

LEMMA Parts ==
    ASSUME WorkerInv
    PROVE  WorkerType /\ Reaped /\ Watched /\ Delivering /\ Delivered /\ Vouched /\ Justified
BY DEF WorkerInv

LEMMA AdapterFrame ==
    ASSUME UNCHANGED adapterVars
    PROVE  UNCHANGED <<written, copier, holding, pending, recorded, terminal, failed, queue, closed, delivery, outputErr,
                       output, abort, ctx, files>>
BY DEF adapterVars, normalizerVars, deliveryVars

LEMMA KeptFrame ==
    ASSUME Kept
    PROVE  /\ UNCHANGED <<written, copier, holding, pending, recorded, terminal, failed, queue, closed, delivery, outputErr,
                          output, abort, ctx, files>>
           /\ UNCHANGED <<leader, other, hops, scan, quiet, fooled, round>>
BY AdapterFrame DEF Kept, treeVars, cleanupVars

Settled == UNCHANGED <<copier, holding, recorded, terminal, failed, queue, closed, delivery, outputErr, output>>

\* The records are where they were while neither the normalizer nor the delivery moves.
LEMMA DeliveredRests ==
    ASSUME Delivered, Settled, Lossless' => Lossless
    PROVE  Delivered'
BY DEF Delivered, Settled, Stands, Accepted

LEMMA ProcessFields ==
    ASSUME NEW p \in ProcessRow
    PROVE  /\ p.exited \in BOOLEAN /\ p.code \in Nat /\ p.canceled \in BOOLEAN /\ p.timedOut \in BOOLEAN
           /\ p.clean \in BOOLEAN /\ p.treeKilled \in BOOLEAN /\ p.confirmed \in BOOLEAN /\ p.run \in BOOLEAN
BY DEF ProcessRow

LEMMA NoRows ==
    /\ NoProcess \in ProcessRow /\ ~NoProcess.exited /\ ~NoProcess.clean /\ ~NoProcess.run /\ NoProcess.confirmed
    /\ NoResult \in ResultRow /\ NoResult.status = "none" /\ NoResult.artifacts = NoFiles
    /\ NoFiles \in [Role -> Nat]
BY DEF NoProcess, ProcessRow, NoResult, ResultRow, NoFiles, Role

LEMMA StatusRow ==
    ASSUME NEW s \in {"none", "failed", "error", "recovery_required", "timed_out", "cancelled", "succeeded"}, Status(s)
    PROVE  result' \in ResultRow /\ result'.status = s /\ result'.artifacts = NoFiles
BY NoRows DEF Status, ResultRow

LEMMA Exited ==
    ASSUME WorkerInv, Waited, process' = setExitResult(process)
    PROVE  /\ process' \in ProcessRow /\ process'.exited = TRUE /\ leader \in {"exit0", "exit1"} /\ copier = "ended"
           /\ process'.code = 0 <=> leader = "exit0"
           /\ process'.clean = process.clean /\ process'.run = process.run /\ process'.confirmed = process.confirmed
           /\ process'.canceled = process.canceled
<1>1. process \in ProcessRow /\ leader \in {"none", "alive", "exit0", "exit1"} BY DEF WorkerInv, WorkerType
<1>2. leader \in {"exit0", "exit1"} /\ copier = "ended" BY <1>1 DEF Waited
<1> DEFINE c == IF leader = "exit0" THEN 0 ELSE 1
<1>3. c \in Nat /\ (c = 0 <=> leader = "exit0")
  <2>1. CASE leader = "exit0" BY <2>1
  <2>2. CASE leader # "exit0" BY <2>2
  <2> QED BY <2>1, <2>2
<1>4. process' = [process EXCEPT !.exited = TRUE, !.code = c] BY DEF setExitResult
<1> HIDE DEF c
<1>5. process' \in ProcessRow /\ process'.exited = TRUE /\ process'.code = c BY <1>1, <1>3, <1>4 DEF ProcessRow
<1>6. /\ process'.clean = process.clean /\ process'.run = process.run /\ process'.confirmed = process.confirmed
      /\ process'.canceled = process.canceled
  BY <1>1, <1>4 DEF ProcessRow
<1> QED BY <1>2, <1>3, <1>5, <1>6

\* The process has ended: its tree is cleaned up.
LEMMA EndedKeeps ==
    ASSUME WorkerInv, at \in {"running", "grace", "killed"}, Waited, process' = setExitResult(process), StartCleanup
    PROVE  WorkerInv'
<1>0. WorkerType /\ Reaped /\ Watched /\ Delivering /\ Delivered /\ Vouched /\ Justified BY Parts
<1>1. at' = "group" /\ UNCHANGED <<given, scope, finalized, result>> BY DEF StartCleanup, Go
<1>2. /\ UNCHANGED <<written, copier, holding, pending, recorded, terminal, failed, queue, closed, delivery, outputErr,
                     output, abort, ctx, files>>
      /\ UNCHANGED <<leader, other, hops, scan, quiet, fooled, round>>
  BY KeptFrame DEF StartCleanup
<1>3. /\ process' \in ProcessRow /\ process'.exited = TRUE /\ leader \in {"exit0", "exit1"} /\ copier = "ended"
      /\ process'.code = 0 <=> leader = "exit0"
      /\ process'.clean = process.clean /\ process'.run = process.run /\ process'.confirmed = process.confirmed
  BY Exited
<1>4. process.run /\ ~process.clean /\ ~closed /\ ~finalized /\ quiet = 0 /\ fooled = 0
  BY <1>0 DEF Reaped, Before, Cleaning, After, Told, Delivering, Vouched, Watched
<1>5. WorkerType' BY <1>0, <1>1, <1>2, <1>3 DEF WorkerType, Cleaning
<1>6. Reaped' BY <1>1, <1>2, <1>3, <1>4 DEF Reaped, Cleaning, After, Told
<1>7. Watched' BY <1>1, <1>2, <1>3, <1>4 DEF Watched, Before, Cleaning
<1>8. Delivering' BY <1>0, <1>1, <1>2, <1>4 DEF Delivering
<1>9. Delivered'
  <2>1. Settled BY <1>2 DEF Settled
  <2>2. Lossless' => Lossless BY <1>2, <1>4 DEF Lossless
  <2> QED BY <2>1, <2>2, <1>0, DeliveredRests
<1>10. Vouched' BY <1>1, <1>4 DEF Vouched
<1>11. Justified' BY <1>0, <1>1, <1>2, <1>4 DEF Justified, Told, cleanupUnproven
<1> QED BY <1>5, <1>6, <1>7, <1>8, <1>9, <1>10, <1>11 DEF WorkerInv

LEMMA RunEndsKeeps == ASSUME WorkerInv, RunEnds \/ GraceEnds PROVE WorkerInv'
BY EndedKeeps DEF RunEnds, GraceEnds

LEMMA RefuseKeeps == ASSUME WorkerInv, Refuse PROVE WorkerInv'
<1>0. WorkerType /\ Reaped /\ Watched /\ Delivering /\ Delivered /\ Vouched /\ Justified BY Parts
<1>1. at = "start" /\ at' = "respond" /\ UNCHANGED <<given, scope, process, finalized>> BY DEF Refuse, Go
<1>2. /\ UNCHANGED <<written, copier, holding, pending, recorded, terminal, failed, queue, closed, delivery, outputErr,
                     output, abort, ctx, files>>
      /\ UNCHANGED <<leader, other, hops, scan, quiet, fooled, round>>
  BY KeptFrame DEF Refuse
<1>3. result' \in ResultRow /\ result'.status \in {"failed", "error"} /\ result'.artifacts = NoFiles
  <2>1. Status("failed") \/ Status("error") BY DEF Refuse
  <2> QED BY <2>1, StatusRow
<1>4. ~process.run /\ ~process.clean /\ ~process.exited BY <1>0, <1>1, NoRows DEF Reaped
<1>5. WorkerType' BY <1>0, <1>1, <1>2, <1>3 DEF WorkerType, After, Told
<1>6. Reaped' BY <1>0, <1>1, <1>2, <1>4 DEF Reaped, Cleaning, After, Told
<1>7. Watched' BY <1>1, <1>2, <1>4 DEF Watched, Before, Cleaning
<1>8. Delivering' BY <1>0, <1>1, <1>2, <1>4 DEF Delivering, After, Told
<1>9. Delivered'
  <2>1. Settled BY <1>2 DEF Settled
  <2>2. Lossless' => Lossless BY <1>1, <1>2, <1>4 DEF Lossless
  <2> QED BY <2>1, <2>2, <1>0, DeliveredRests
<1>10. Vouched' BY <1>0, <1>1, <1>2 DEF Vouched, Told
<1>11. Justified' BY <1>1, <1>3, <1>4 DEF Justified, Told, cleanupUnproven
<1> QED BY <1>5, <1>6, <1>7, <1>8, <1>9, <1>10, <1>11 DEF WorkerInv

LEMMA TerminateKeeps == ASSUME WorkerInv, terminateProcessTree PROVE WorkerInv'
<1>0. WorkerType /\ Reaped /\ Watched /\ Delivering /\ Delivered /\ Vouched /\ Justified BY Parts
<1>1. at = "running" /\ at' = "grace" /\ UNCHANGED <<given, scope, finalized, result>> BY DEF terminateProcessTree, Go
<1>2. /\ UNCHANGED <<written, copier, holding, pending, recorded, terminal, failed, queue, closed, delivery, outputErr,
                     output, abort, ctx, files>>
      /\ UNCHANGED <<leader, other, hops, scan, quiet, fooled, round>>
  BY KeptFrame DEF terminateProcessTree
<1>3. /\ process' \in ProcessRow /\ process'.exited = process.exited /\ process'.code = process.code
      /\ process'.clean = process.clean /\ process'.run = process.run /\ process'.confirmed = process.confirmed
  <2>1. PICK t \in BOOLEAN : process' = [process EXCEPT !.canceled = TRUE, !.timedOut = t] BY DEF terminateProcessTree
  <2> QED BY <2>1, <1>0 DEF WorkerType, ProcessRow
<1>4. process.run /\ ~process.clean /\ ~closed /\ ~finalized /\ result.status # "succeeded"
  BY <1>0, <1>1 DEF Reaped, After, Told, Delivering, Vouched, Justified
<1>5. WorkerType' BY <1>0, <1>1, <1>2, <1>3 DEF WorkerType, Before
<1>6. Reaped' BY <1>0, <1>1, <1>2, <1>3, <1>4 DEF Reaped, Cleaning, After, Told
<1>7. Watched' BY <1>0, <1>1, <1>2, <1>3, <1>4 DEF Watched, Before, Cleaning
<1>8. Delivering' BY <1>0, <1>1, <1>2, <1>4 DEF Delivering
<1>9. Delivered'
  <2>1. Settled BY <1>2 DEF Settled
  <2>2. Lossless' => Lossless BY <1>1, <1>2, <1>4 DEF Lossless
  <2> QED BY <2>1, <2>2, <1>0, DeliveredRests
<1>10. Vouched' BY <1>1, <1>4 DEF Vouched
<1>11. Justified' BY <1>0, <1>1, <1>2, <1>4 DEF Justified, Told, cleanupUnproven
<1> QED BY <1>5, <1>6, <1>7, <1>8, <1>9, <1>10, <1>11 DEF WorkerInv

\* The process may not be confirmed to have ended.
LEMMA ReceiveWaitKeeps == ASSUME WorkerInv, receiveWait PROVE WorkerInv'
<1>0. WorkerType /\ Reaped /\ Watched /\ Delivering /\ Delivered /\ Vouched /\ Justified BY Parts
<1>1. at = "killed" /\ StartCleanup BY DEF receiveWait
<1>2. CASE Waited BY <1>1, <1>2, EndedKeeps DEF receiveWait
<1>3. CASE ~Waited
  <2>1. at' = "group" /\ UNCHANGED <<given, scope, finalized, result>> BY <1>1 DEF StartCleanup, Go
  <2>2. /\ UNCHANGED <<written, copier, holding, pending, recorded, terminal, failed, queue, closed, delivery, outputErr,
                       output, abort, ctx, files>>
        /\ UNCHANGED <<leader, other, hops, scan, quiet, fooled, round>>
    BY <1>1, KeptFrame DEF StartCleanup
  <2>3. /\ process' \in ProcessRow /\ process'.exited = process.exited /\ process'.code = process.code
        /\ process'.clean = process.clean /\ process'.run = process.run /\ process'.confirmed = FALSE
    <3>1. process' = [process EXCEPT !.confirmed = FALSE] BY <1>3 DEF receiveWait
    <3>2. process \in ProcessRow BY <1>0 DEF WorkerType
    <3>3. process' \in ProcessRow BY <3>1, <3>2 DEF ProcessRow
    <3>4. process'.exited = process.exited /\ process'.code = process.code /\ process'.clean = process.clean /\ process'.run = process.run
      BY <3>1, <3>2 DEF ProcessRow
    <3>5. process'.confirmed = FALSE BY <3>1, <3>2 DEF ProcessRow
    <3> QED BY <3>3, <3>4, <3>5
  <2>4. process.run /\ ~process.clean /\ ~closed /\ ~finalized /\ result.status # "succeeded" /\ quiet = 0 /\ fooled = 0
    BY <1>0, <1>1 DEF Reaped, Before, After, Told, Delivering, Vouched, Justified, Watched
  <2>5. WorkerType' BY <1>0, <2>1, <2>2, <2>3 DEF WorkerType, Cleaning
  <2>6. Reaped' BY <1>0, <1>1, <2>1, <2>2, <2>3, <2>4 DEF Reaped, Cleaning, After, Told
  <2>7. Watched' BY <1>0, <2>1, <2>2, <2>3, <2>4 DEF Watched, Before, Cleaning
  <2>8. Delivering' BY <1>0, <2>1, <2>2, <2>4 DEF Delivering
  <2>9. Delivered'
    <3>1. Settled BY <2>2 DEF Settled
    <3>2. Lossless' => Lossless BY <1>1, <2>2, <2>4 DEF Lossless
    <3> QED BY <3>1, <3>2, <1>0, DeliveredRests
  <2>10. Vouched' BY <2>1, <2>4 DEF Vouched
  <2>11. Justified' BY <1>0, <2>1, <2>2, <2>4 DEF Justified, Told, cleanupUnproven
  <2> QED BY <2>5, <2>6, <2>7, <2>8, <2>9, <2>10, <2>11 DEF WorkerInv
<1> QED BY <1>2, <1>3

\* Finalize vouches for what it has seen.
LEMMA FlushKeeps == ASSUME WorkerInv, Flush PROVE WorkerInv'
<1>0. WorkerType /\ Reaped /\ Watched /\ Delivering /\ Delivered /\ Vouched /\ Justified BY Parts
<1>1. at = "flush" /\ at' = "classify" /\ UNCHANGED <<given, scope, process, result>> BY DEF Flush, Go
<1>2. /\ UNCHANGED <<written, copier, holding, pending, recorded, terminal, failed, queue, closed, delivery, outputErr,
                     output, abort, ctx, files>>
      /\ UNCHANGED <<leader, other, hops, scan, quiet, fooled, round>>
  BY KeptFrame DEF Flush
<1>3. PICK flushed \in {delivery = "done", FALSE} : finalized' = Finalize(flushed, process) BY DEF Flush
<1>4. finalized' \in BOOLEAN BY <1>3 DEF Finalize
<1>5. finalized' => /\ delivery = "done" /\ ~outputErr /\ ~failed
                    /\ process.exited /\ process.code = 0 => terminal = "succeeded"
                    /\ terminal = "succeeded" => \A r \in Role : recorded[r] # 0
  BY <1>3 DEF Finalize, finalize, requireSuccessfulArtifacts
<1>6. finalized' => closed BY <1>0, <1>5 DEF Delivering
<1>7. ~finalized /\ result.artifacts = NoFiles /\ result.status # "succeeded" BY <1>0, <1>1 DEF Vouched, Justified, Told
<1>8. WorkerType' BY <1>0, <1>1, <1>2, <1>4 DEF WorkerType, After
<1>9. Reaped' BY <1>0, <1>1, <1>2 DEF Reaped, Cleaning, After, Told
<1>10. Watched' BY <1>0, <1>1, <1>2 DEF Watched, Before, Cleaning
<1>11. Delivering' BY <1>0, <1>1, <1>2 DEF Delivering, After
<1>12. Delivered'
  <2>1. Settled BY <1>2 DEF Settled
  <2>2. Lossless' => Lossless BY <1>1, <1>2 DEF Lossless
  <2> QED BY <2>1, <2>2, <1>0, DeliveredRests
<1>13. Vouched' BY <1>1, <1>2, <1>5, <1>6 DEF Vouched
<1>14. Justified' BY <1>1, <1>2, <1>7 DEF Justified, Told
<1> QED BY <1>8, <1>9, <1>10, <1>11, <1>12, <1>13, <1>14 DEF WorkerInv

\* A step of Run that leaves the process, its tree and its records as they are.
LEMMA LateKeeps ==
    ASSUME WorkerInv, at \in {"classify", "postflight", "collect", "respond", "leave"}, at' \in After \ {"finalize", "flush"},
           UNCHANGED <<given, scope, process, finalized>>, Kept, result' \in ResultRow, Justified',
           at = "leave" => at' = "done"
    PROVE  WorkerInv'
<1>0. WorkerType /\ Reaped /\ Watched /\ Delivering /\ Delivered /\ Vouched BY Parts
<1>1. /\ UNCHANGED <<written, copier, holding, pending, recorded, terminal, failed, queue, closed, delivery, outputErr,
                     output, abort, ctx, files>>
      /\ UNCHANGED <<leader, other, hops, scan, quiet, fooled, round>>
  BY KeptFrame
<1>2. WorkerType' BY <1>0, <1>1 DEF WorkerType, After
<1>3. Reaped' BY <1>0, <1>1 DEF Reaped, Cleaning, After, Told
<1>4. Watched' BY <1>0, <1>1 DEF Watched, Before, Cleaning, After, Told
<1>5. Delivering' BY <1>0, <1>1 DEF Delivering, After, Told
<1>6. Delivered'
  <2>1. Settled BY <1>1 DEF Settled
  <2>2. Lossless' => Lossless BY <1>1 DEF Lossless
  <2> QED BY <2>1, <2>2, <1>0, DeliveredRests
<1>7. Vouched' BY <1>0, <1>1 DEF Vouched, After
<1> QED BY <1>2, <1>3, <1>4, <1>5, <1>6, <1>7 DEF WorkerInv

LEMMA ClassifyKeeps == ASSUME WorkerInv, Classify PROVE WorkerInv'
<1>0. WorkerType /\ Reaped /\ Vouched /\ Justified BY Parts
<1>1. /\ at = "classify" /\ UNCHANGED <<given, scope, process, finalized>> /\ Kept /\ Status(Cause)
      /\ at' = IF cleanupUnproven THEN "respond" ELSE "postflight"
  BY DEF Classify, Go
<1>2. UNCHANGED <<recorded, output, files, fooled>> BY <1>1, KeptFrame
<1>3. Cause \in {"failed", "recovery_required", "timed_out", "cancelled", "succeeded"} BY DEF Cause
<1>4. Cause = "succeeded" => finalized /\ ~cleanupUnproven /\ ~process.canceled /\ process.code = 0 /\ process.run
  BY DEF Cause
<1>5. Cause = "succeeded" => process.clean BY <1>4 DEF cleanupUnproven
<1> DEFINE cause == Cause
<1>6. result' \in ResultRow /\ result'.status = cause /\ result'.artifacts = NoFiles BY <1>1, <1>3, StatusRow
<1>7. at' \in {"respond", "postflight"} /\ (at' = "postflight" <=> ~cleanupUnproven) BY <1>1
<1>8. cleanupUnproven' <=> cleanupUnproven BY <1>1 DEF cleanupUnproven
<1>9. cause = "succeeded" => finalized /\ ~cleanupUnproven /\ ~process.canceled /\ process.code = 0 /\ process.clean
  BY <1>4, <1>5
<1> HIDE DEF cause
<1>10. Justified' BY <1>1, <1>6, <1>7, <1>8, <1>9 DEF Justified, Told
<1>11. at' \in After \ {"finalize", "flush"} BY <1>7 DEF After, Told
<1> QED BY <1>1, <1>6, <1>10, <1>11, LateKeeps

LEMMA PostflightKeeps == ASSUME WorkerInv, Postflight PROVE WorkerInv'
<1>0. WorkerType /\ Reaped /\ Vouched /\ Justified BY Parts
<1>1. at = "postflight" /\ UNCHANGED <<given, scope, process, finalized>> /\ Kept BY DEF Postflight
<1>2. UNCHANGED <<recorded, output, files, fooled>> BY <1>1, KeptFrame
<1>3. CASE at' = "collect" /\ result' = result
  <2>1. result' \in ResultRow BY <1>0, <1>3 DEF WorkerType
  <2>2. Justified' BY <1>0, <1>1, <1>2, <1>3 DEF Justified, Told, cleanupUnproven
  <2>3. at' \in After \ {"finalize", "flush"} BY <1>3 DEF After, Told
  <2> QED BY <2>1, <2>2, <2>3, <1>1, LateKeeps
<1>4. CASE at' = "respond" /\ Status("recovery_required")
  <2>1. result' \in ResultRow /\ result'.status = "recovery_required" /\ result'.artifacts = NoFiles BY <1>4, StatusRow
  <2>2. Justified' BY <2>1, <1>4 DEF Justified, Told
  <2>3. at' \in After \ {"finalize", "flush"} BY <1>4 DEF After, Told
  <2> QED BY <2>1, <2>2, <2>3, <1>1, LateKeeps
<1> QED BY <1>3, <1>4 DEF Postflight, Go

LEMMA CollectKeeps == ASSUME WorkerInv, Collect PROVE WorkerInv'
<1>0. WorkerType /\ Reaped /\ Vouched /\ Justified BY Parts
<1>1. at = "collect" /\ at' = "respond" /\ UNCHANGED <<given, scope, process, finalized>> /\ Kept BY DEF Collect, Go
<1>2. UNCHANGED <<recorded, output, files, fooled>> BY <1>1, KeptFrame
<1>3. at' \in After \ {"finalize", "flush"} BY <1>1 DEF After, Told
<1>4. result \in ResultRow /\ files \in [Role -> Nat] BY <1>0 DEF WorkerType
<1>5. CASE result.status = "succeeded" /\ result' = [result EXCEPT !.status = "failed"]
  <2>1. result' \in ResultRow /\ result'.status = "failed" /\ result'.artifacts = result.artifacts BY <1>4, <1>5 DEF ResultRow
  <2>2. Justified' BY <2>1, <1>0, <1>1, <1>2 DEF Justified, Told, cleanupUnproven
  <2> QED BY <2>1, <2>2, <1>1, <1>3, LateKeeps
<1>6. CASE sameArtifacts /\ result' = [result EXCEPT !.artifacts = files]
  <2>1. result' \in ResultRow /\ result'.status = result.status /\ result'.artifacts = files BY <1>4, <1>6 DEF ResultRow
  <2>2. files = recorded BY <1>6 DEF sameArtifacts
  <2>3. Justified' BY <2>1, <2>2, <1>0, <1>1, <1>2 DEF Justified, Told, cleanupUnproven
  <2> QED BY <2>1, <2>3, <1>1, <1>3, LateKeeps
<1>7. CASE result' = [NoResult EXCEPT !.status = "recovery_required"]
  <2>1. result' \in ResultRow /\ result'.status = "recovery_required" /\ result'.artifacts = NoFiles
    BY <1>7, StatusRow DEF Status
  <2>2. Justified' BY <2>1, <1>1 DEF Justified, Told
  <2> QED BY <2>1, <2>2, <1>1, <1>3, LateKeeps
<1> QED BY <1>5, <1>6, <1>7 DEF Collect

\* A successful run has told its whole story.
LEMMA StoryTold ==
    ASSUME WorkerInv, result.status = "succeeded", at \in {"respond", "write"}
    PROVE  output = Story /\ delivery = "done" /\ copier = "ended"
<1>0. WorkerType /\ Reaped /\ Delivering /\ Delivered /\ Vouched /\ Justified BY Parts
<1>1. finalized /\ process.clean /\ process.code = 0 BY <1>0 DEF Justified
<1>2. process.exited /\ copier = "ended" BY <1>0, <1>1 DEF Reaped, After, Told
<1>3. /\ delivery = "done" /\ ~outputErr /\ ~failed /\ terminal = "succeeded" /\ \A r \in Role : recorded[r] # 0
  BY <1>0, <1>1, <1>2 DEF Vouched
<1>4. queue = <<>> BY <1>0, <1>3 DEF Delivering
<1>5. Lossless BY <1>2, <1>3 DEF Lossless
<1>6. recorded["patch"] # 0 /\ recorded["summary"] # 0 BY <1>3 DEF Role
<1>7. Accepted = 3 BY <1>3, <1>6 DEF Accepted
<1>8. output \in Seq(Word) /\ Len(output) \in Nat /\ DOMAIN output = 1 .. Len(output) BY <1>0 DEF WorkerType
<1>9. Len(output) = 3
  <2>1. Len(queue) = 0 BY <1>4
  <2>2. Accepted = Len(output) + Len(queue) + 0 BY <1>0, <1>2, <1>5 DEF Delivered
  <2> QED BY <2>1, <2>2, <1>7, <1>8
<1>10. \A i \in DOMAIN output : Stands(output[i], i) BY <1>0, <1>5 DEF Delivered
<1>11. output[1] = "patch" /\ output[2] = "summary" /\ output[3] = "succeeded"
  <2>1. Stands(output[1], 1) /\ Stands(output[2], 2) /\ Stands(output[3], 3) BY <1>8, <1>9, <1>10
  <2> QED BY <2>1, <1>3, <1>7 DEF Stands
<1>12. output = Story
  <2>1. Story \in Seq(Word) /\ Len(Story) = 3 /\ Story[1] = "patch" /\ Story[2] = "summary" /\ Story[3] = "succeeded"
    BY DEF Story, Word
  <2>2. \A i \in 1 .. 3 : i = 1 \/ i = 2 \/ i = 3 OBVIOUS
  <2>3. \A i \in 1 .. Len(output) : output[i] = Story[i] BY <1>9, <1>11, <2>1, <2>2
  <2> QED BY <1>8, <1>9, <2>1, <2>3, Equal
<1> QED BY <1>2, <1>3, <1>12

LEMMA RespondKeeps == ASSUME WorkerInv, Respond \/ Leave PROVE WorkerInv'
<1>0. WorkerType /\ Reaped /\ Vouched /\ Justified BY Parts
<1>1. /\ UNCHANGED <<given, scope, process, finalized, result>> /\ Kept
      /\ (at = "respond" /\ at' \in {"write", "done"}) \/ (at = "leave" /\ at' = "done")
  BY DEF Respond, Leave, Go
<1>2. UNCHANGED <<recorded, output, files, fooled>> BY <1>1, KeptFrame
<1>3. result' \in ResultRow BY <1>0, <1>1 DEF WorkerType
<1>4. result.status = "succeeded" /\ at = "respond" => output = Story BY StoryTold
<1>5. Justified' BY <1>0, <1>1, <1>2, <1>4 DEF Justified, Told, cleanupUnproven
<1>6. at' \in After \ {"finalize", "flush"} BY <1>1 DEF After, Told
<1> QED BY <1>1, <1>3, <1>5, <1>6, LateKeeps

LEMMA EncodeKeeps == ASSUME WorkerInv, EncodeResponseContext PROVE WorkerInv'
<1>0. WorkerType /\ Reaped /\ Watched /\ Delivering /\ Delivered /\ Vouched /\ Justified BY Parts
<1>1. /\ at = "write" /\ at' = "leave" /\ UNCHANGED <<given, scope, process, finalized, result>>
      /\ output' \in {output, Append(output, "result")}
      /\ UNCHANGED <<copier, holding, pending, recorded, terminal, failed, queue, closed, delivery, outputErr, files>>
      /\ UNCHANGED <<leader, other, quiet, fooled>>
  BY DEF EncodeResponseContext, Go, normalizerVars, treeVars, cleanupVars
<1>2. output' \in Seq(Word)
  <2>1. output \in Seq(Word) /\ "result" \in Word BY <1>0 DEF WorkerType, Word
  <2>2. Append(output, "result") \in Seq(Word) BY <2>1
  <2> QED BY <2>1, <2>2, <1>1
<1>3. WorkerType' BY <1>0, <1>1, <1>2 DEF WorkerType, After, Told
<1>4. Reaped' BY <1>0, <1>1 DEF Reaped, Cleaning, After, Told
<1>5. Watched' BY <1>0, <1>1 DEF Watched, Before, Cleaning
<1>6. Delivering' BY <1>0, <1>1 DEF Delivering, After, Told
<1>7. Delivered' BY <1>1 DEF Delivered, Lossless
<1>8. Vouched' BY <1>0, <1>1 DEF Vouched, Told
<1>9. result.status = "succeeded" => output' \in {Story, Append(Story, "result")} BY <1>1, StoryTold
<1>10. Justified' BY <1>0, <1>1, <1>9 DEF Justified, Told, cleanupUnproven
<1> QED BY <1>3, <1>4, <1>5, <1>6, <1>7, <1>8, <1>10 DEF WorkerInv

\* A panic finds the delivery at work, so nothing was vouched for.
LEMMA PanicKeeps == ASSUME WorkerInv, Panics PROVE WorkerInv'
<1>0. WorkerType /\ Reaped /\ Watched /\ Delivering /\ Delivered /\ Vouched /\ Justified BY Parts
<1>1. /\ at' = "done" /\ UNCHANGED <<given, scope, process, finalized, result>> /\ SendPanics
  BY DEF Panics, Go
<1>2. /\ UNCHANGED <<written, copier, holding, pending, recorded, terminal, failed, queue, closed, delivery, outputErr,
                     output, abort, ctx, files>>
      /\ UNCHANGED <<leader, other, hops, scan, quiet, fooled, round>>
  BY KeptFrame DEF Panics
<1>3. closed /\ delivery # "done" BY <1>1 DEF SendPanics
<1>4. ~finalized /\ result.status # "succeeded" /\ at \in After BY <1>0, <1>3 DEF Vouched, Justified, Delivering
<1>5. WorkerType' BY <1>0, <1>1, <1>2 DEF WorkerType, After, Told
<1>6. Reaped' BY <1>0, <1>1, <1>2, <1>4 DEF Reaped, Cleaning, After, Told
<1>7. Watched' BY <1>0, <1>1, <1>2 DEF Watched, Before, Cleaning
<1>8. Delivering' BY <1>0, <1>1, <1>2 DEF Delivering, After, Told
<1>9. Delivered' BY <1>1 DEF Delivered, Lossless
<1>10. Vouched' BY <1>1, <1>4 DEF Vouched
<1>11. Justified' BY <1>0, <1>1, <1>2, <1>4 DEF Justified, Told, cleanupUnproven
<1> QED BY <1>5, <1>6, <1>7, <1>8, <1>9, <1>10, <1>11 DEF WorkerInv

LEMMA ScopeKeeps == ASSUME WorkerInv, ScopeChanges PROVE WorkerInv'
<1>0. WorkerType /\ Reaped /\ Watched /\ Delivering /\ Delivered /\ Vouched /\ Justified BY Parts
<1>1. scope' = FALSE /\ UNCHANGED <<at, given, process, finalized, result>> BY DEF ScopeChanges
<1>2. /\ UNCHANGED <<written, copier, holding, pending, recorded, terminal, failed, queue, closed, delivery, outputErr,
                     output, abort, ctx, files>>
      /\ UNCHANGED <<leader, other, hops, scan, quiet, fooled, round>>
  BY KeptFrame DEF ScopeChanges
<1>3. WorkerType'
  <2>1. scope' \in BOOLEAN BY <1>1
  <2> QED BY <2>1, <1>0, <1>1, <1>2 DEF WorkerType
<1>4. Reaped' BY <1>0, <1>1, <1>2 DEF Reaped
<1>5. Watched' BY <1>0, <1>1, <1>2 DEF Watched
<1>6. Delivering' BY <1>0, <1>1, <1>2 DEF Delivering
<1>7. Delivered' BY <1>0, <1>1, <1>2, DeliveredRests DEF Settled, Lossless
<1>8. Vouched' BY <1>0, <1>1, <1>2 DEF Vouched
<1>9. Justified' BY <1>0, <1>1, <1>2 DEF Justified, cleanupUnproven
<1> QED BY <1>3, <1>4, <1>5, <1>6, <1>7, <1>8, <1>9 DEF WorkerInv

LEMMA LaunchKeeps == ASSUME WorkerInv, Launch PROVE WorkerInv'
<1>0. WorkerType /\ Reaped /\ Watched /\ Delivering /\ Delivered /\ Vouched /\ Justified BY Parts
<1>1. /\ at = "start" /\ delivery' = "running"
      /\ UNCHANGED <<holding, pending, recorded, terminal, failed, queue, closed, outputErr, output, files, other,
                     quiet, fooled, scope, finalized, result>>
  BY DEF Launch, Prepare, cleanupVars
<1>2. \/ leader' = "alive" /\ copier' = "reading" /\ at' = "running" /\ process' = [process EXCEPT !.run = TRUE]
      \/ at' = "finalize" /\ UNCHANGED <<leader, copier, process>>
  BY DEF Launch, Go
<1>3. /\ process = NoProcess /\ ~closed /\ ~finalized /\ copier = "off" /\ delivery = "off" /\ result.status # "succeeded"
      /\ leader = "none" /\ other = "none" /\ quiet = 0 /\ fooled = 0 /\ result.artifacts = NoFiles
  BY <1>0, <1>1, NoRows DEF Reaped, Delivering, Vouched, Justified, Watched, After, Told, Before
<1>4. process' \in ProcessRow /\ ~process'.exited /\ ~process'.clean /\ (at' = "running" => process'.run)
  <2>1. CASE process' = [process EXCEPT !.run = TRUE]
    <3>1. process' \in ProcessRow BY <2>1, <1>3, NoRows DEF ProcessRow
    <3>2. process'.exited = NoProcess.exited /\ process'.clean = NoProcess.clean BY <2>1, <1>3, NoRows DEF ProcessRow
    <3>3. process'.run = TRUE BY <2>1, <1>3, NoRows DEF ProcessRow
    <3> QED BY <3>1, <3>2, <3>3, NoRows
  <2>2. CASE process' = process /\ at' = "finalize" BY <2>2, <1>3, NoRows
  <2> QED BY <2>1, <2>2, <1>2
<1>5. copier' \in {"off", "reading"} /\ leader' \in {"none", "alive"} /\ at' \in {"running", "finalize"}
      /\ (at' = "finalize" => leader' = "none" /\ ~process'.run)
  BY <1>2, <1>3, NoRows
<1>6. WorkerType' BY <1>0, <1>1, <1>4, <1>5 DEF WorkerType, Before, After
<1>7. Reaped' BY <1>1, <1>3, <1>4, <1>5 DEF Reaped, Cleaning, After, Told
<1>8. Watched' BY <1>0, <1>1, <1>3, <1>4, <1>5 DEF Watched, Before, Cleaning, Told
<1>9. Delivering' BY <1>0, <1>1, <1>3, <1>5 DEF Delivering
<1>10. Delivered'
  <2>1. Lossless' => Lossless BY <1>1, <1>3 DEF Lossless
  <2>2. copier # "sending" /\ copier' # "sending" BY <1>3, <1>5
  <2> QED BY <2>1, <2>2, <1>0, <1>1 DEF Delivered, Stands, Accepted
<1>11. Vouched' BY <1>1, <1>3 DEF Vouched
<1>12. Justified' BY <1>1, <1>3, <1>5 DEF Justified, Told
<1> QED BY <1>6, <1>7, <1>8, <1>9, <1>10, <1>11, <1>12 DEF WorkerInv

\* A step of the processes or of the clean-up, within its phases.
LEMMA TreeKeeps ==
    ASSUME WorkerInv, UNCHANGED adapterVars, UNCHANGED <<scope, finalized, result, process>>,
           leader' \in {"none", "alive", "exit0", "exit1"}, other' \in {"none", "child", "writer", "daemon"},
           at' \in Before \cup Cleaning \cup After, at' = at \/ (at \in Before \cup Cleaning /\ at' \in {"killed"} \cup Cleaning),
           UNCHANGED <<quiet, fooled>>, Reaped', Watched'
    PROVE  WorkerInv'
<1>0. WorkerType /\ Delivering /\ Delivered /\ Vouched /\ Justified BY Parts
<1>1. UNCHANGED <<written, copier, holding, pending, recorded, terminal, failed, queue, closed, delivery, outputErr,
                  output, abort, ctx, files>>
  BY AdapterFrame
<1>2. WorkerType' BY <1>0, <1>1 DEF WorkerType
<1>3. at' = at \/ (at \notin After /\ at' # "start") BY DEF Before, Cleaning, After, Told
<1>4. Delivering' BY <1>0, <1>1, <1>3 DEF Delivering
<1>5. Delivered'
  <2>1. at \in After \/ (~closed /\ at \notin {"leave", "done"}) \/ at' = at BY <1>0, <1>3 DEF Delivering, After, Told
  <2>2. Lossless' => Lossless BY <2>1, <1>1, <1>3 DEF Lossless
  <2>3. Settled BY <1>1 DEF Settled
  <2> QED BY <2>2, <2>3, <1>0, DeliveredRests
<1>6. Vouched' BY <1>0, <1>1, <1>3 DEF Vouched, After
<1>7. Justified' BY <1>0, <1>1, <1>3 DEF Justified, cleanupUnproven, After, Told, Cleaning, Before
<1> QED BY <1>2, <1>4, <1>5, <1>6, <1>7 DEF WorkerInv

LEMMA GroupDies ==
    ASSUME WorkerType, GroupKilled
    PROVE  /\ leader' \in {"none", "exit0", "exit1"} /\ (leader # "alive" => leader' = leader)
           /\ other' \in {"none", "writer", "daemon"} /\ (other' # "none" => other' = other)
BY DEF WorkerType, GroupKilled

LEMMA KillKeeps == ASSUME WorkerInv, Kill \/ cleanup PROVE WorkerInv'
<1>0. WorkerType /\ Reaped /\ Watched BY Parts
<1>1. /\ UNCHANGED adapterVars /\ UNCHANGED <<scope, finalized, result, process, quiet, fooled>> /\ GroupKilled
      /\ (at = "grace" /\ at' = "killed") \/ (at = "group" /\ at' = "scan")
  BY DEF Kill, cleanup, Go, cleanupVars
<1>2. /\ leader' \in {"none", "exit0", "exit1"} /\ (leader # "alive" => leader' = leader)
      /\ other' \in {"none", "writer", "daemon"} /\ (other' # "none" => other' = other)
  BY <1>0, <1>1, GroupDies
<1>3. copier' = copier BY <1>1, AdapterFrame
<1>4. process.run /\ ~process.clean BY <1>0, <1>1 DEF Reaped, After, Told
<1>5. Reaped' BY <1>0, <1>1, <1>2, <1>3, <1>4 DEF Reaped, Cleaning, After, Told
<1>6. Watched' BY <1>0, <1>1, <1>2, <1>4 DEF Watched, Before, Cleaning
<1>7. at' \in Before \cup Cleaning \cup After /\ at \in Before \cup Cleaning /\ at' \in {"killed"} \cup Cleaning
  BY <1>1 DEF Before, Cleaning
<1>8. leader' \in {"none", "alive", "exit0", "exit1"} /\ other' \in {"none", "child", "writer", "daemon"} BY <1>2
<1> QED BY <1>1, <1>5, <1>6, <1>7, <1>8, TreeKeeps

LEMMA DescendantKeeps == ASSUME WorkerInv, descendantSet PROVE WorkerInv'
<1>0. WorkerType /\ Reaped /\ Watched BY Parts
<1>1. /\ UNCHANGED adapterVars /\ UNCHANGED <<scope, finalized, result, process, quiet, fooled, leader>>
      /\ at = "scan" /\ at' = "verify"
  BY DEF descendantSet, Go
<1>2. other' \in {"none", "child", "writer", "daemon"} /\ (other' = "none" \/ other' = other)
  BY <1>0 DEF descendantSet, WorkerType
<1>3. copier' = copier BY <1>1, AdapterFrame
<1>4. process.run /\ ~process.clean BY <1>0, <1>1 DEF Reaped, After, Told
<1>5. Reaped' BY <1>0, <1>1, <1>2, <1>3, <1>4 DEF Reaped, Cleaning, After, Told
<1>6. Watched' BY <1>0, <1>1, <1>2, <1>4 DEF Watched, Before, Cleaning
<1>7. at' \in Before \cup Cleaning \cup After /\ at \in Before \cup Cleaning /\ at' \in {"killed"} \cup Cleaning
  BY <1>1 DEF Before, Cleaning
<1>8. leader' \in {"none", "alive", "exit0", "exit1"} BY <1>0, <1>1 DEF WorkerType
<1> QED BY <1>1, <1>2, <1>5, <1>6, <1>7, <1>8, TreeKeeps

\* Processes fork, hop and exit.
LEMMA TreeStepKeeps == ASSUME WorkerInv, Forks \/ Hops \/ Exits PROVE WorkerInv'
<1>0. WorkerType /\ Reaped /\ Watched BY Parts
<1>1. UNCHANGED adapterVars /\ UNCHANGED <<at, scope, finalized, result, process, quiet, fooled>>
  BY DEF Forks, Hops, Exits, runVars, cleanupVars
<1>2. \/ leader = "alive" /\ leader' = leader /\ other = "none" /\ other' \in {"child", "writer", "daemon"}
      \/ leader' = leader /\ other' \in {other, "none"}
      \/ leader = "alive" /\ leader' \in {"exit0", "exit1"} /\ other' = other
  BY DEF Forks, Hops, Exits
<1>3. copier' = copier BY <1>1, AdapterFrame
<1>4. leader = "alive" => process.run /\ ~process.exited /\ at \in {"running", "grace"} /\ ~process.clean
  <2>1. leader = "alive" => at # "start" BY <1>0, NoRows DEF Reaped
  <2> QED BY <2>1, <1>0 DEF Reaped, WorkerType, Before, Cleaning, After
<1>5. leader' \in {"none", "alive", "exit0", "exit1"} /\ other' \in {"none", "child", "writer", "daemon"}
  BY <1>0, <1>2 DEF WorkerType
<1>6. Reaped' BY <1>0, <1>1, <1>2, <1>3, <1>4 DEF Reaped, Cleaning, After, Told
<1>7. Watched' BY <1>0, <1>1, <1>2, <1>4 DEF Watched, Before, Cleaning
<1>8. at' \in Before \cup Cleaning \cup After BY <1>0, <1>1 DEF WorkerType
<1> QED BY <1>1, <1>5, <1>6, <1>7, <1>8, TreeKeeps

\* An artifact file changes: something is alive.
LEMMA WritesFileKeeps == ASSUME WorkerInv, WritesFile PROVE WorkerInv'
<1>0. WorkerType /\ Reaped /\ Watched /\ Delivering /\ Delivered /\ Vouched /\ Justified BY Parts
<1>1. /\ UNCHANGED <<copier, holding, pending, recorded, terminal, failed, queue, closed, delivery, outputErr, output>>
      /\ UNCHANGED <<leader, other, quiet, fooled, at, scope, process, finalized, result>> /\ Alive
  BY DEF WritesFile, normalizerVars, deliveryVars, treeVars, cleanupVars, runVars
<1>2. files' \in [Role -> Nat]
  <2>1. PICK r \in Role : files' = [files EXCEPT ![r] = files[r] + 1] BY DEF WritesFile
  <2>2. files \in [Role -> Nat] /\ files[r] + 1 \in Nat BY <1>0 DEF WorkerType
  <2> QED BY <2>1, <2>2
<1>3. WorkerType' BY <1>0, <1>1, <1>2 DEF WorkerType
<1>4. Reaped' BY <1>0, <1>1 DEF Reaped
<1>5. Watched' BY <1>0, <1>1 DEF Watched
<1>6. Delivering' BY <1>0, <1>1 DEF Delivering
<1>7. Delivered' BY <1>0, <1>1, DeliveredRests DEF Settled, Lossless
<1>8. Vouched' BY <1>0, <1>1 DEF Vouched
<1>9. result.artifacts # NoFiles => fooled >= 2
  <2> SUFFICES ASSUME result.artifacts # NoFiles PROVE fooled >= 2 OBVIOUS
  <2>1. at \in Told /\ ~cleanupUnproven BY <1>0 DEF Justified
  <2>2. leader # "alive" BY <2>1, <1>0 DEF Reaped, After
  <2>3. other # "none" BY <2>2, <1>1 DEF Alive
  <2>4. process.run BY <2>3, <1>0 DEF Reaped
  <2>5. process.clean BY <2>1, <2>4 DEF cleanupUnproven
  <2> QED BY <2>3, <2>5, <1>0 DEF Watched
<1>10. Justified' BY <1>0, <1>1, <1>9 DEF Justified, cleanupUnproven
<1> QED BY <1>3, <1>4, <1>5, <1>6, <1>7, <1>8, <1>10 DEF WorkerInv

LEMMA ContextKeeps == ASSUME WorkerInv, Timeout \/ Signal PROVE WorkerInv'
<1>0. WorkerType /\ Reaped /\ Watched /\ Delivering /\ Delivered /\ Vouched /\ Justified BY Parts
<1>1. /\ UNCHANGED <<copier, holding, pending, recorded, terminal, failed, queue, closed, delivery, outputErr, output>>
      /\ UNCHANGED <<files, leader, other, quiet, fooled, at, scope, process, finalized, result>>
  BY DEF Timeout, Signal, CtxMatters, normalizerVars, deliveryVars, treeVars, cleanupVars, runVars
<1>3. WorkerType' BY <1>0, <1>1 DEF WorkerType
<1>4. Reaped' BY <1>0, <1>1 DEF Reaped
<1>5. Watched' BY <1>0, <1>1 DEF Watched
<1>6. Delivering' BY <1>0, <1>1 DEF Delivering
<1>7. Delivered' BY <1>0, <1>1, DeliveredRests DEF Settled, Lossless
<1>8. Vouched' BY <1>0, <1>1 DEF Vouched
<1>9. Justified' BY <1>0, <1>1 DEF Justified, cleanupUnproven
<1> QED BY <1>3, <1>4, <1>5, <1>6, <1>7, <1>8, <1>9 DEF WorkerInv

LEMMA VerifyKeeps == ASSUME WorkerInv, VerifyInventory PROVE WorkerInv'
<1>0. WorkerType /\ Reaped /\ Watched /\ Delivering /\ Delivered /\ Vouched /\ Justified BY Parts
<1>1. /\ at = "verify" /\ UNCHANGED adapterVars /\ UNCHANGED <<leader, other, scope, finalized, result>>
  BY DEF VerifyInventory, treeVars
<1>2. UNCHANGED <<written, copier, holding, pending, recorded, terminal, failed, queue, closed, delivery, outputErr,
                  output, abort, ctx, files>>
  BY <1>1, AdapterFrame
<1>3. quiet' \in Nat /\ fooled' \in Nat /\ (other # "none" => fooled' = quiet')
  <2>1. PICK seen \in BOOLEAN : /\ quiet' = IF seen THEN 0 ELSE quiet + 1
                                /\ fooled' = IF seen THEN 0 ELSE IF Stray THEN fooled + 1 ELSE fooled
    BY DEF VerifyInventory
  <2>2. quiet \in Nat /\ fooled \in Nat /\ (other # "none" => fooled = quiet) BY <1>0, <1>1 DEF WorkerType, Watched, Cleaning
  <2>3. other # "none" => Stray BY <1>0, <1>1 DEF WorkerType, Watched, Stray
  <2> HIDE DEF Stray
  <2>4. CASE seen = TRUE BY <2>1, <2>4
  <2>5. CASE seen = FALSE BY <2>1, <2>2, <2>3, <2>5
  <2> QED BY <2>4, <2>5
<1>4. process.run /\ ~process.clean /\ ~closed /\ ~finalized /\ result.status # "succeeded" /\ result.artifacts = NoFiles
  BY <1>0, <1>1 DEF Reaped, After, Told, Delivering, Vouched, Justified
<1>5. \/ (process' = process /\ at' = "group")
      \/ (at' = "finalize" /\ process' \in ProcessRow /\ process'.exited = process.exited /\ process'.code = process.code
          /\ process'.run = process.run /\ process'.confirmed = process.confirmed
          /\ (process'.clean => process.confirmed /\ quiet' >= 2))
  <2>1. ASSUME NEW ok \in BOOLEAN, CleanupEnds(ok), ok => quiet' >= Rounds
        PROVE  at' = "finalize" /\ process' \in ProcessRow /\ process'.exited = process.exited /\ process'.code = process.code
               /\ process'.run = process.run /\ process'.confirmed = process.confirmed
               /\ (process'.clean => process.confirmed /\ quiet' >= 2)
    <3> DEFINE clean == ok /\ process.confirmed
               killed == process.canceled /\ ok /\ process.confirmed
    <3>1. process' = [process EXCEPT !.clean = clean, !.treeKilled = killed] /\ at' = "finalize" BY <2>1 DEF CleanupEnds, Go
    <3>2. clean \in BOOLEAN /\ killed \in BOOLEAN /\ process \in ProcessRow BY <1>0 DEF WorkerType
    <3>3. clean => process.confirmed /\ quiet' >= 2 BY <2>1 DEF Rounds
    <3> HIDE DEF clean, killed
    <3>4. process' \in ProcessRow BY <3>1, <3>2 DEF ProcessRow
    <3>5. /\ process'.exited = process.exited /\ process'.code = process.code
          /\ process'.run = process.run /\ process'.confirmed = process.confirmed
      BY <3>1, <3>2 DEF ProcessRow
    <3>6. process'.clean = clean BY <3>1, <3>2 DEF ProcessRow
    <3> QED BY <3>1, <3>3, <3>4, <3>5, <3>6
  <2>2. CASE CleanupEnds(TRUE) /\ quiet' >= Rounds BY <2>1, <2>2
  <2>3. CASE CleanupEnds(FALSE) BY <2>1, <2>3
  <2>4. CASE process' = process /\ at' = "group" BY <2>4
  <2> QED BY <2>2, <2>3, <2>4 DEF VerifyInventory, Go
<1>6. process' \in ProcessRow /\ at' \in {"group", "finalize"} BY <1>0, <1>5 DEF WorkerType
<1>7. WorkerType' BY <1>0, <1>1, <1>2, <1>3, <1>6 DEF WorkerType, Cleaning, After
<1>8. Reaped' BY <1>0, <1>1, <1>2, <1>4, <1>5 DEF Reaped, Cleaning, After, Told
<1>9. Watched' BY <1>0, <1>1, <1>3, <1>4, <1>5 DEF Watched, Before, Cleaning
<1>10. Delivering' BY <1>0, <1>2, <1>4, <1>6 DEF Delivering
<1>11. Delivered'
  <2>1. Settled BY <1>2 DEF Settled
  <2>2. Lossless' => Lossless BY <1>1, <1>2, <1>4 DEF Lossless
  <2> QED BY <2>1, <2>2, <1>0, DeliveredRests
<1>12. Vouched' BY <1>1, <1>4 DEF Vouched
<1>13. Justified' BY <1>1, <1>4, <1>6 DEF Justified, Told
<1> QED BY <1>7, <1>8, <1>9, <1>10, <1>11, <1>12, <1>13 DEF WorkerInv

\* A step of the normalizer, the copier or the delivery.
LEMMA RecordsKeep ==
    ASSUME WorkerInv, UNCHANGED <<files, leader, other, quiet, fooled, at, scope, process, finalized, result>>,
           WorkerType', Delivering', Delivered', Vouched',
           process.exited => copier' = copier /\ recorded' = recorded,
           delivery = "done" => output' = output
    PROVE  WorkerInv'
<1>0. WorkerType /\ Reaped /\ Watched /\ Vouched /\ Justified BY Parts
<1>1. Reaped' BY <1>0 DEF Reaped
<1>2. Watched' BY <1>0 DEF Watched
<1>3. Justified'
  <2>1. result.status = "succeeded" => process.exited /\ delivery = "done"
    BY <1>0 DEF Justified, Reaped, Vouched, After
  <2> QED BY <2>1, <1>0 DEF Justified, cleanupUnproven
<1> QED BY <1>1, <1>2, <1>3 DEF WorkerInv

LEMMA CloseKeeps == ASSUME WorkerInv, CloseQueue PROVE WorkerInv'
<1>0. WorkerType /\ Reaped /\ Watched /\ Delivering /\ Delivered /\ Vouched /\ Justified BY Parts
<1>1. /\ at = "finalize" /\ at' = "flush" /\ closed' = TRUE
      /\ UNCHANGED <<copier, holding, pending, recorded, terminal, failed, queue, delivery, outputErr, output, files>>
      /\ UNCHANGED <<leader, other, quiet, fooled, scope, process, finalized, result>>
  BY DEF CloseQueue, Go, finish, normalizerVars, treeVars, cleanupVars
<1>2. ~finalized /\ result.status # "succeeded" /\ result.artifacts = NoFiles /\ ~closed
  BY <1>0, <1>1 DEF Vouched, Justified, Told, Delivering
<1>3. WorkerType'
  <2>1. closed' \in BOOLEAN BY <1>1
  <2> QED BY <2>1, <1>0, <1>1 DEF WorkerType, After
<1>4. Reaped' BY <1>0, <1>1 DEF Reaped, Cleaning, After, Told
<1>5. Watched' BY <1>0, <1>1 DEF Watched, Before, Cleaning
<1>6. Delivering' BY <1>0, <1>1 DEF Delivering, After
<1>7. Delivered'
  <2>1. Lossless' => Lossless BY <1>1, <1>2 DEF Lossless
  <2> QED BY <2>1, <1>0, <1>1 DEF Delivered, Stands, Accepted
<1>8. Vouched' BY <1>1, <1>2 DEF Vouched
<1>9. Justified' BY <1>1, <1>2 DEF Justified, Told
<1> QED BY <1>3, <1>4, <1>5, <1>6, <1>7, <1>8, <1>9 DEF WorkerInv

Around == UNCHANGED <<files, leader, other, quiet, fooled, at, scope, process, finalized, result>>

LEMMA Lengths ==
    ASSUME WorkerType
    PROVE  /\ Len(output) \in Nat /\ Len(queue) \in Nat /\ DOMAIN output = 1 .. Len(output) /\ DOMAIN queue = 1 .. Len(queue)
           /\ recorded["patch"] \in Nat /\ recorded["summary"] \in Nat /\ Accepted \in Nat
<1>1. output \in Seq(Word) /\ queue \in Seq(Word) /\ recorded \in [Role -> Nat] BY DEF WorkerType
<1>2. recorded["patch"] \in Nat /\ recorded["summary"] \in Nat BY <1>1 DEF Role
<1>3. Accepted \in Nat BY DEF Accepted
<1> QED BY <1>1, <1>2, <1>3

\* The normalizer refuses a record.
LEMMA RefusedKeeps ==
    ASSUME WorkerInv, Around, ~process.exited, copier \in {"reading", "sending"}, failed' = TRUE, copier' = "ended",
           UNCHANGED <<pending, recorded, terminal, queue, closed, delivery, outputErr, output>>, holding' \in Word
    PROVE  WorkerInv'
<1>0. WorkerType /\ Reaped /\ Delivering /\ Delivered /\ Vouched /\ Justified BY Parts
<1>1. WorkerType'
  <2>1. failed' \in BOOLEAN OBVIOUS
  <2> QED BY <2>1, <1>0 DEF WorkerType, Around
<1>2. Delivering'
  <2>1. at # "start" BY <1>0 DEF Delivering
  <2> QED BY <2>1, <1>0 DEF Delivering, Around
<1>3. Delivered' BY DEF Delivered, Lossless
<1>4. Vouched' BY <1>0 DEF Vouched, Around
<1> QED BY <1>1, <1>2, <1>3, <1>4, RecordsKeep DEF Around

\* The normalizer accepts a record: it is the next one.
LEMMA AcceptedKeeps ==
    ASSUME WorkerInv, Around, copier = "reading", NEW t \in Role \cup {"succeeded", "failed", "bad"}, terminal = "none",
           validateRecord(t), recorded' = [r \in Role |-> IF r = t THEN files[r] ELSE recorded[r]],
           terminal' = IF t \in Role THEN "none" ELSE t, copier' = "sending", holding' = t,
           UNCHANGED <<pending, failed, queue, closed, delivery, outputErr, output>>
    PROVE  WorkerInv'
<1>0. WorkerType /\ Reaped /\ Delivering /\ Delivered /\ Vouched /\ Justified BY Parts
<1>1. /\ Len(output) \in Nat /\ Len(queue) \in Nat /\ DOMAIN output = 1 .. Len(output) /\ DOMAIN queue = 1 .. Len(queue)
      /\ recorded["patch"] \in Nat /\ recorded["summary"] \in Nat
  BY <1>0, Lengths
<1>2. ~process.exited BY <1>0 DEF Reaped
<1>3. recorded \in [Role -> Nat] /\ files \in [Role -> Nat] BY <1>0 DEF WorkerType
<1>4. t \in {"patch", "summary", "succeeded", "failed"} BY DEF validateRecord, Role
<1> DEFINE a == recorded["patch"]
           b == recorded["summary"]
           x == recorded'["patch"]
           y == recorded'["summary"]
<1>5. /\ t = "patch" => a = 0 /\ b = 0 /\ x # 0 /\ y = 0 /\ terminal' = "none"
      /\ t = "summary" => a # 0 /\ b = 0 /\ x = a /\ y # 0 /\ terminal' = "none"
      /\ t \in {"succeeded", "failed"} => x = a /\ y = b /\ terminal' = t
  <2>1. "patch" \in Role /\ "summary" \in Role /\ "succeeded" \notin Role /\ "failed" \notin Role BY DEF Role
  <2>2. x = (IF "patch" = t THEN files["patch"] ELSE a) /\ y = (IF "summary" = t THEN files["summary"] ELSE b) BY <2>1
  <2>3. ASSUME t = "patch" PROVE a = 0 /\ b = 0 /\ files["patch"] # 0
    BY <2>1, <2>3 DEF validateRecord, validateArtifact, addArtifact, NoFiles
  <2>4. ASSUME t = "summary" PROVE a # 0 /\ b = 0 /\ files["summary"] # 0
    BY <2>1, <2>4 DEF validateRecord, validateArtifact, addArtifact
  <2> QED BY <2>1, <2>2, <2>3, <2>4
<1>6. recorded' \in [Role -> Nat] BY <1>3
<1>7. WorkerType'
  <2>1. terminal' \in {"none", "succeeded", "failed"} /\ holding' \in Word BY <1>4, <1>5 DEF Word
  <2> QED BY <2>1, <1>0, <1>6 DEF WorkerType, Around
<1>8. Delivering'
  <2>1. at # "start" BY <1>0 DEF Delivering
  <2>2. b # 0 => a # 0 BY <1>0 DEF Delivering
  <2>3. y # 0 => x # 0 BY <2>2, <1>4, <1>5
  <2> QED BY <2>1, <2>3, <1>0 DEF Delivering, Around
<1> DEFINE n == (IF x # 0 THEN 1 ELSE 0) + (IF y # 0 THEN 1 ELSE 0) + (IF terminal' # "none" THEN 1 ELSE 0)
<1>9. Delivered'
  <2> SUFFICES ASSUME Lossless' PROVE Delivered' BY DEF Delivered
  <2>1. Lossless BY DEF Lossless, Around
  <2>2. b # 0 => a # 0 BY <1>0 DEF Delivering
  <2>3. Accepted = (IF a # 0 THEN 1 ELSE 0) + (IF b # 0 THEN 1 ELSE 0) + 0 BY DEF Accepted
  <2>4. Accepted' = n BY DEF Accepted
  <2>5. n = Accepted + 1 /\ (t = "patch" => n = 1) /\ (t = "summary" => n = 2)
    <3> HIDE DEF a, b, x, y
    <3>1. CASE t = "patch" BY <3>1, <2>3, <1>5
    <3>2. CASE t = "summary" BY <3>2, <2>3, <1>5
    <3>3. CASE t \in {"succeeded", "failed"}
      <4>1. x = a /\ y = b /\ terminal' # "none" BY <3>3, <1>5
      <4> QED BY <4>1, <2>3, <3>3
    <3> QED BY <3>1, <3>2, <3>3, <1>4
  <2>6. Accepted = Len(output) + Len(queue) /\ Len(output)' = Len(output) /\ Len(queue)' = Len(queue)
    <3>1. Accepted = Len(output) + Len(queue) + 0 BY <2>1, <1>0 DEF Delivered
    <3> QED BY <3>1, <1>1
  <2> DEFINE Then(w, i) == \/ w = "patch" /\ i = 1 /\ x # 0
                           \/ w = "summary" /\ i = 2 /\ y # 0
                           \/ w = terminal' /\ terminal' # "none" /\ i = n
  <2>7. ASSUME NEW w, NEW i, Stands(w, i) PROVE Then(w, i)
    <3>1. (w = "patch" /\ i = 1 /\ a # 0) \/ (w = "summary" /\ i = 2 /\ b # 0) BY <2>7 DEF Stands
    <3>2. (a # 0 => x # 0) /\ (b # 0 => y # 0) BY <1>4, <1>5
    <3> QED BY <3>1, <3>2
  <2>8. Then(t, n)
    <3>1. CASE t = "patch" BY <3>1, <2>5, <1>5
    <3>2. CASE t = "summary" BY <3>2, <2>5, <1>5
    <3>3. CASE t \in {"succeeded", "failed"}
      <4>1. t = terminal' /\ terminal' # "none" BY <3>3, <1>5
      <4> QED BY <4>1
    <3> QED BY <3>1, <3>2, <3>3, <1>4
  <2>9. \A w, i : Stands(w, i)' <=> Then(w, i) BY <2>4 DEF Stands
  <2>10. /\ \A i \in DOMAIN output : Stands(output[i], i)
         /\ \A i \in DOMAIN queue : Stands(queue[i], Len(output) + i)
    BY <2>1, <1>0 DEF Delivered
  <2> HIDE DEF Then, n
  <2>11. /\ \A i \in DOMAIN output' : Then(output'[i], i)
         /\ \A i \in DOMAIN queue' : Then(queue'[i], Len(output') + i)
    BY <2>7, <2>10
  <2>12. Then(holding', Len(output') + Len(queue') + 1) /\ n = Len(output') + Len(queue') + 1 BY <2>5, <2>6, <2>8
  <2> QED BY <2>4, <2>9, <2>11, <2>12 DEF Delivered
<1>10. Vouched' BY <1>0, <1>2 DEF Vouched, Around
<1> QED BY <1>2, <1>7, <1>8, <1>9, <1>10, RecordsKeep DEF Around

LEMMA ConsumeKeeps == ASSUME WorkerInv, Around, consume PROVE WorkerInv'
<1>0. WorkerType /\ Reaped BY Parts
<1>1. copier = "reading" /\ UNCHANGED <<pending, queue, closed, delivery, outputErr, output>> BY DEF consume, deliveryVars
<1>2. ~process.exited /\ holding \in Word BY <1>0, <1>1 DEF Reaped, WorkerType
<1>3. PICK t \in Role \cup {"succeeded", "failed", "bad"} :
        IF terminal = "none" /\ ~pending /\ validateRecord(t)
        THEN /\ recorded' = [r \in Role |-> IF r = t THEN files[r] ELSE recorded[r]]
             /\ terminal' = IF t \in Role THEN "none" ELSE t
             /\ copier' = "sending" /\ holding' = t
             /\ UNCHANGED <<failed, abort>>
        ELSE fail /\ UNCHANGED <<recorded, terminal, holding>>
  BY DEF consume
<1>4. CASE terminal = "none" /\ ~pending /\ validateRecord(t)
  <2>1. /\ recorded' = [r \in Role |-> IF r = t THEN files[r] ELSE recorded[r]]
        /\ terminal' = (IF t \in Role THEN "none" ELSE t)
        /\ copier' = "sending" /\ holding' = t /\ UNCHANGED failed
    BY <1>3, <1>4
  <2> QED BY <2>1, <1>1, <1>4, AcceptedKeeps
<1>5. CASE ~(terminal = "none" /\ ~pending /\ validateRecord(t))
  <2>1. failed' = TRUE /\ copier' = "ended" /\ UNCHANGED <<recorded, terminal, holding>> BY <1>3, <1>5 DEF fail
  <2> QED BY <2>1, <1>1, <1>2, RefusedKeeps
<1> QED BY <1>4, <1>5

LEMMA CutKeeps == ASSUME WorkerInv, Around, Write \/ CopyEnds PROVE WorkerInv'
<1>0. WorkerType /\ Reaped /\ Delivering /\ Delivered /\ Vouched /\ Justified BY Parts
<1>1. /\ copier = "reading" /\ copier' \in {"reading", "ended"} /\ pending' \in {pending, TRUE}
      /\ UNCHANGED <<holding, recorded, terminal, failed, queue, closed, delivery, outputErr, output>>
  BY DEF Write, CopyEnds, deliveryVars
<1>2. ~process.exited BY <1>0, <1>1 DEF Reaped
<1>3. WorkerType'
  <2>1. pending' \in BOOLEAN BY <1>0, <1>1 DEF WorkerType
  <2> QED BY <2>1, <1>0, <1>1 DEF WorkerType, Around
<1>4. Delivering' BY <1>0, <1>1 DEF Delivering, Around
<1>5. Delivered'
  <2>1. Lossless' => Lossless BY <1>1 DEF Lossless, Around
  <2> QED BY <2>1, <1>0, <1>1 DEF Delivered, Stands, Accepted
<1>6. Vouched' BY <1>0, <1>1 DEF Vouched, Around
<1> QED BY <1>1, <1>2, <1>3, <1>4, <1>5, <1>6, RecordsKeep DEF Around

\* A record is queued, is lost with the delivery that ended, or ends the copier.
LEMMA SendRecordKeeps == ASSUME WorkerInv, Around, send PROVE WorkerInv'
<1>0. WorkerType /\ Reaped /\ Delivering /\ Delivered /\ Vouched /\ Justified BY Parts
<1>1. /\ copier = "sending" /\ holding' = "none"
      /\ UNCHANGED <<pending, recorded, terminal, closed, delivery, outputErr, output>>
  BY DEF send
<1>2. ~process.exited /\ holding \in Word /\ at # "start" BY <1>0, <1>1 DEF Reaped, WorkerType, Delivering
<1>3. holding' \in Word BY <1>1 DEF Word
<1>4. CASE failed' = TRUE /\ copier' = "ended" /\ queue' = queue BY <1>1, <1>2, <1>3, <1>4, RefusedKeeps
<1>5. CASE delivery = "done" /\ ~outputErr /\ queue' = queue /\ copier' = "reading" /\ failed' = failed
  <2>1. closed BY <1>0, <1>5 DEF Delivering
  <2>2. WorkerType' BY <1>0, <1>1, <1>3, <1>5 DEF WorkerType, Around
  <2>3. Delivering' BY <1>0, <1>1, <1>2, <1>5 DEF Delivering, Around
  <2>4. Delivered'
    <3>1. ~Lossless' BY <2>1, <1>1, <1>2 DEF Lossless, Around
    <3> QED BY <3>1 DEF Delivered
  <2>5. Vouched' BY <1>0, <1>1, <1>5 DEF Vouched, Around
  <2> QED BY <2>2, <2>3, <2>4, <2>5, <1>1, <1>2, RecordsKeep DEF Around
<1>6. CASE delivery # "done" /\ queue' = Append(queue, holding) /\ copier' = "reading" /\ failed' = failed
  <2>1. /\ Len(output) \in Nat /\ Len(queue) \in Nat /\ DOMAIN output = 1 .. Len(output) /\ DOMAIN queue = 1 .. Len(queue)
        /\ Accepted \in Nat
    BY <1>0, Lengths
  <2>2. queue \in Seq(Word) BY <1>0 DEF WorkerType
  <2>3. /\ queue' \in Seq(Word) /\ Len(queue') = Len(queue) + 1 /\ DOMAIN queue' = 1 .. Len(queue) + 1
        /\ \A i \in 1 .. Len(queue) : queue'[i] = queue[i]
        /\ queue'[Len(queue) + 1] = holding
    <3>1. queue' = Append(queue, holding) BY <1>6
    <3> QED BY <3>1, <2>2, <1>2
  <2>4. WorkerType' BY <1>0, <1>1, <1>3, <1>6, <2>3 DEF WorkerType, Around
  <2>5. Delivering' BY <1>0, <1>1, <1>2, <1>6 DEF Delivering, Around
  <2>6. Delivered'
    <3> SUFFICES ASSUME Lossless' PROVE Delivered' BY DEF Delivered
    <3>1. Lossless BY <1>1, <1>6 DEF Lossless, Around
    <3>2. /\ \A i \in DOMAIN output : Stands(output[i], i)
          /\ \A i \in DOMAIN queue : Stands(queue[i], Len(output) + i)
          /\ Stands(holding, Len(output) + Len(queue) + 1)
          /\ Accepted = Len(output) + Len(queue) + 1
      BY <3>1, <1>0, <1>1 DEF Delivered
    <3>3. \A w, i : Stands(w, i)' <=> Stands(w, i) BY <1>1 DEF Stands, Accepted
    <3>4. \A i \in DOMAIN queue' : Stands(queue'[i], Len(output) + i)
      <4> TAKE i \in DOMAIN queue'
      <4>1. CASE i \in 1 .. Len(queue) BY <4>1, <3>2, <2>1, <2>3
      <4>2. CASE i = Len(queue) + 1
        <5>1. Len(output) + i = Len(output) + Len(queue) + 1 BY <4>2, <2>1
        <5> QED BY <5>1, <4>2, <3>2, <2>3
      <4> QED BY <4>1, <4>2, <2>1, <2>3
    <3>5. Accepted' = Len(output) + Len(queue') /\ Accepted' = Accepted BY <3>2, <2>1, <2>3, <1>1 DEF Accepted
    <3> HIDE DEF Stands
    <3>6. /\ \A i \in DOMAIN output' : Stands(output'[i], i)
          /\ \A i \in DOMAIN queue' : Stands(queue'[i], Len(output') + i)
      BY <3>2, <3>4, <1>1
    <3>7. Accepted' = Len(output') + Len(queue') + 0
      <4>1. output' = output BY <1>1
      <4> QED BY <4>1, <3>5, <2>1, <2>3
    <3> QED BY <3>3, <3>6, <3>7, <1>6 DEF Delivered
  <2>7. Vouched' BY <1>0, <1>1, <1>6 DEF Vouched, Around
  <2> QED BY <2>4, <2>5, <2>6, <2>7, <1>1, <1>2, RecordsKeep DEF Around
<1> QED BY <1>4, <1>5, <1>6 DEF send, Sent, fail

LEMMA RunKeeps == ASSUME WorkerInv, Around, run PROVE WorkerInv'
<1>0. WorkerType /\ Reaped /\ Delivering /\ Delivered /\ Vouched /\ Justified BY Parts
<1>1. /\ delivery = "running" /\ closed /\ queue = <<>> /\ delivery' = "done"
      /\ UNCHANGED <<copier, holding, pending, recorded, terminal, failed, queue, closed, outputErr, output>>
  BY DEF run, normalizerVars
<1>2. WorkerType' BY <1>0, <1>1 DEF WorkerType, Around
<1>3. Delivering'
  <2>1. at # "start" BY <1>0, <1>1 DEF Delivering
  <2> QED BY <2>1, <1>0, <1>1 DEF Delivering, Around
<1>4. Delivered'
  <2>1. Lossless' => Lossless BY <1>1 DEF Lossless, Around
  <2> QED BY <2>1, <1>0, <1>1 DEF Delivered, Stands, Accepted
<1>5. Vouched' BY <1>0, <1>1 DEF Vouched, Around
<1> QED BY <1>1, <1>2, <1>3, <1>4, <1>5, RecordsKeep DEF Around

LEMMA WriteAllKeeps == ASSUME WorkerInv, Around, writeAll PROVE WorkerInv'
<1>0. WorkerType /\ Reaped /\ Delivering /\ Delivered /\ Vouched /\ Justified BY Parts
<1>1. /\ delivery = "running" /\ queue # <<>> /\ queue' = Tail(queue)
      /\ UNCHANGED <<copier, holding, pending, recorded, terminal, failed, closed>>
  BY DEF writeAll, normalizerVars
<1>2. ~finalized /\ at # "start" BY <1>0, <1>1 DEF Vouched, Delivering
<1>3. output \in Seq(Word) /\ queue \in Seq(Word) BY <1>0 DEF WorkerType
<1>4. /\ queue' \in Seq(Word) /\ Len(queue) \in Nat \ {0} /\ Len(queue') = Len(queue) - 1 /\ Head(queue) = queue[1] /\ queue[1] \in Word
      /\ DOMAIN queue' = 1 .. Len(queue) - 1 /\ \A i \in 1 .. Len(queue) - 1 : queue'[i] = queue[i + 1]
  BY <1>1, <1>3
<1>5. Vouched' BY <1>2 DEF Vouched, Around
<1>6. CASE delivery' = "done" /\ outputErr' = TRUE /\ output' = output
  <2>1. WorkerType'
    <3>1. outputErr' \in BOOLEAN BY <1>6
    <3> QED BY <3>1, <1>0, <1>1, <1>4, <1>6 DEF WorkerType, Around
  <2>2. Delivering' BY <1>0, <1>1, <1>2, <1>6 DEF Delivering, Around
  <2>3. Delivered' BY <1>6 DEF Delivered, Lossless
  <2> QED BY <2>1, <2>2, <2>3, <1>1, <1>5, RecordsKeep DEF Around
<1>7. CASE output' = Append(output, Head(queue)) /\ UNCHANGED <<delivery, outputErr>>
  <2>1. /\ Len(output) \in Nat /\ DOMAIN output = 1 .. Len(output) /\ DOMAIN queue = 1 .. Len(queue) /\ Accepted \in Nat
    BY <1>0, Lengths
  <2>2. /\ output' \in Seq(Word) /\ Len(output') = Len(output) + 1 /\ DOMAIN output' = 1 .. Len(output) + 1
        /\ \A i \in 1 .. Len(output) : output'[i] = output[i]
        /\ output'[Len(output) + 1] = queue[1]
    <3>1. output' = Append(output, queue[1]) /\ queue[1] \in Word BY <1>4, <1>7
    <3> QED BY <3>1, <1>3
  <2>3. WorkerType' BY <1>0, <1>1, <1>4, <1>7, <2>2 DEF WorkerType, Around
  <2>4. Delivering' BY <1>0, <1>1, <1>2, <1>7 DEF Delivering, Around
  <2>5. Delivered'
    <3> SUFFICES ASSUME Lossless' PROVE Delivered' BY DEF Delivered
    <3>1. Lossless BY <1>1, <1>7 DEF Lossless, Around
    <3>2. /\ \A i \in DOMAIN output : Stands(output[i], i)
          /\ \A i \in DOMAIN queue : Stands(queue[i], Len(output) + i)
          /\ copier = "sending" => Stands(holding, Len(output) + Len(queue) + 1)
          /\ Accepted = Len(output) + Len(queue) + (IF copier = "sending" THEN 1 ELSE 0)
      BY <3>1, <1>0 DEF Delivered
    <3>3. \A w, i : Stands(w, i)' <=> Stands(w, i) BY <1>1 DEF Stands, Accepted
    <3>4. \A i \in DOMAIN output' : Stands(output'[i], i)
      <4> TAKE i \in DOMAIN output'
      <4>1. CASE i \in 1 .. Len(output) BY <4>1, <3>2, <2>1, <2>2
      <4>2. CASE i = Len(output) + 1
        <5>1. 1 \in DOMAIN queue BY <2>1, <1>4
        <5>2. Stands(queue[1], Len(output) + 1) BY <5>1, <3>2
        <5> QED BY <5>2, <4>2, <2>2
      <4> QED BY <4>1, <4>2, <2>1, <2>2
    <3>5. \A i \in DOMAIN queue' : Stands(queue'[i], Len(output') + i)
      <4> TAKE i \in DOMAIN queue'
      <4>1. i \in 1 .. Len(queue) - 1 /\ queue'[i] = queue[i + 1] /\ i + 1 \in DOMAIN queue BY <2>1, <1>4
      <4>2. Stands(queue[i + 1], Len(output) + (i + 1)) BY <4>1, <3>2
      <4>3. Len(output') + i = Len(output) + (i + 1) BY <4>1, <2>1, <2>2
      <4> QED BY <4>1, <4>2, <4>3
    <3>6. Len(output') + Len(queue') = Len(output) + Len(queue) BY <1>4, <2>1, <2>2
    <3>7. Accepted' = Accepted BY <1>1 DEF Accepted
    <3> HIDE DEF Stands, Accepted
    <3> QED BY <3>2, <3>3, <3>4, <3>5, <3>6, <3>7, <1>1 DEF Delivered
  <2> QED BY <2>3, <2>4, <2>5, <1>1, <1>5, RecordsKeep DEF Around
<1> QED BY <1>6, <1>7 DEF writeAll

LEMMA WorkerStarts == WorkerInit => WorkerInv
<1> SUFFICES ASSUME WorkerInit PROVE WorkerInv OBVIOUS
<1>1. /\ copier = "off" /\ holding = "none" /\ pending = FALSE /\ recorded = NoFiles /\ terminal = "none" /\ failed = FALSE
      /\ queue = <<>> /\ closed = FALSE /\ delivery = "off" /\ outputErr = FALSE /\ output = <<>> /\ files = NoFiles
      /\ at = "start" /\ scope = TRUE /\ leader = "none" /\ other = "none" /\ quiet = 0 /\ fooled = 0
      /\ process = NoProcess /\ finalized = FALSE /\ result = NoResult
  BY DEF WorkerInit, AdapterInit
<1>2. pending \in BOOLEAN /\ failed \in BOOLEAN /\ closed \in BOOLEAN /\ outputErr \in BOOLEAN /\ scope \in BOOLEAN /\ finalized \in BOOLEAN
  BY <1>1
<1>3. ~failed /\ ~closed /\ ~outputErr /\ ~finalized BY <1>1
<1>4. queue \in Seq(Word) /\ output \in Seq(Word) /\ holding \in Word /\ at \in Before BY <1>1 DEF Word, Before
<1>5. WorkerType BY <1>1, <1>2, <1>4, NoRows DEF WorkerType
<1>6. Reaped BY <1>1, NoRows DEF Reaped, Cleaning, After, Told
<1>7. Watched BY <1>1, NoRows DEF Watched, Cleaning
<1>8. recorded["patch"] = 0 /\ recorded["summary"] = 0 BY <1>1 DEF NoFiles, Role
<1>9. Delivering BY <1>1, <1>3, <1>8 DEF Delivering
<1>10. Delivered
  <2>1. Accepted = 0 BY <1>1, <1>8 DEF Accepted
  <2>2. DOMAIN output = {} /\ DOMAIN queue = {} /\ Len(output) = 0 /\ Len(queue) = 0 BY <1>1
  <2>3. Accepted = Len(output) + Len(queue) + 0 BY <2>1, <2>2
  <2> QED BY <2>2, <2>3, <1>1 DEF Delivered
<1>11. Vouched BY <1>3 DEF Vouched
<1>12. Justified BY <1>1, NoRows DEF Justified
<1> QED BY <1>5, <1>6, <1>7, <1>9, <1>10, <1>11, <1>12 DEF WorkerInv

LEMMA WorkerSteps == WorkerInv /\ [WorkerNext]_workerVars => WorkerInv'
<1> SUFFICES ASSUME WorkerInv, [WorkerNext]_workerVars PROVE WorkerInv' OBVIOUS
<1>1. CASE Refuse BY <1>1, RefuseKeeps
<1>2. CASE Launch BY <1>2, LaunchKeeps
<1>3. CASE RunEnds \/ GraceEnds BY <1>3, RunEndsKeeps
<1>4. CASE terminateProcessTree BY <1>4, TerminateKeeps
<1>5. CASE Kill \/ cleanup BY <1>5, KillKeeps
<1>6. CASE receiveWait BY <1>6, ReceiveWaitKeeps
<1>7. CASE descendantSet BY <1>7, DescendantKeeps
<1>8. CASE VerifyInventory BY <1>8, VerifyKeeps
<1>9. CASE CloseQueue BY <1>9, CloseKeeps
<1>10. CASE Flush BY <1>10, FlushKeeps
<1>11. CASE Classify BY <1>11, ClassifyKeeps
<1>12. CASE Postflight BY <1>12, PostflightKeeps
<1>13. CASE Collect BY <1>13, CollectKeeps
<1>14. CASE Respond \/ Leave BY <1>14, RespondKeeps
<1>15. CASE EncodeResponseContext BY <1>15, EncodeKeeps
<1>16. CASE Copies
  <2>1. UNCHANGED <<leader, other, quiet, fooled, at, scope, process, finalized, result>>
    BY <1>16 DEF Copies, treeVars, cleanupVars, runVars
  <2>2. consume \/ Write \/ send \/ CopyEnds BY <1>16 DEF Copies
  <2>3. Around BY <2>1, <2>2 DEF Around, consume, Write, send, CopyEnds
  <2> QED BY <2>2, <2>3, ConsumeKeeps, CutKeeps, SendRecordKeeps
<1>17. CASE Panics BY <1>17, PanicKeeps
<1>18. CASE Delivers \/ Writes
  <2>1. UNCHANGED <<leader, other, quiet, fooled, at, scope, process, finalized, result>>
    BY <1>18 DEF Delivers, Writes, treeVars, cleanupVars, runVars
  <2>2. run \/ writeAll BY <1>18 DEF Delivers, Writes
  <2>3. Around BY <2>1, <2>2 DEF Around, run, writeAll
  <2> QED BY <2>2, <2>3, RunKeeps, WriteAllKeeps
<1>19. CASE WritesFile BY <1>19, WritesFileKeeps
<1>20. CASE Forks \/ Hops \/ Exits BY <1>20, TreeStepKeeps
<1>21. CASE Timeout \/ Signal BY <1>21, ContextKeeps
<1>22. CASE ScopeChanges BY <1>22, ScopeKeeps
<1>23. CASE UNCHANGED workerVars
  <2>0. WorkerType /\ Reaped /\ Watched /\ Delivering /\ Delivered /\ Vouched /\ Justified BY Parts
  <2>1. UNCHANGED <<copier, holding, pending, recorded, terminal, failed, queue, closed, delivery, outputErr, output, files>>
    BY <1>23, AdapterFrame DEF workerVars
  <2>2. UNCHANGED <<leader, other, quiet, fooled, at, scope, process, finalized, result>>
    BY <1>23 DEF workerVars, treeVars, cleanupVars, runVars
  <2>3. WorkerType' BY <2>0, <2>1, <2>2 DEF WorkerType
  <2>4. Delivering' BY <2>0, <2>1, <2>2 DEF Delivering
  <2>5. Delivered' BY <2>0, <2>1, <2>2, DeliveredRests DEF Settled, Lossless
  <2>6. Vouched' BY <2>0, <2>1, <2>2 DEF Vouched
  <2> QED BY <2>1, <2>2, <2>3, <2>4, <2>5, <2>6, RecordsKeep
<1> QED BY <1>1, <1>2, <1>3, <1>4, <1>5, <1>6, <1>7, <1>8, <1>9, <1>10, <1>11, <1>12, <1>13, <1>14, <1>15, <1>16,
           <1>17, <1>18, <1>19, <1>20, <1>21, <1>22, <1>23 DEF WorkerNext, Run, ProcessSteps

\* The harness worker's state hangs together in every state of a run: the inductive
\* invariant behind the two theorems that follow.
THEOREM WorkerInvariant == WorkerSpec => []WorkerInv
BY WorkerStarts, WorkerSteps, PTL DEF WorkerSpec

\* A run is reported as succeeded only when it was (runtime.go Run, Finalize, Collect).
THEOREM SuccessWasEarned == WorkerSpec => []SuccessIsEarned
<1>1. WorkerInv => SuccessIsEarned
  <2> SUFFICES ASSUME WorkerInv, result.status = "succeeded", at \in Told
               PROVE  /\ leader = "exit0" /\ ~process.canceled
                      /\ output \in {Story, Append(Story, "result")}
                      /\ result.artifacts = recorded
    BY DEF SuccessIsEarned, Told
  <2>0. Reaped /\ Justified BY Parts
  <2>1. process.clean /\ process.code = 0 /\ ~process.canceled /\ result.artifacts = recorded BY <2>0 DEF Justified
  <2>2. process.exited BY <2>0, <2>1 DEF Reaped, After
  <2>3. leader = "exit0" BY <2>0, <2>1, <2>2 DEF Reaped
  <2>4. at \in {"respond", "write"} => output = Story BY StoryTold
  <2>5. output \in {Story, Append(Story, "result")} BY <2>0, <2>4 DEF Justified, Told
  <2> QED BY <2>1, <2>3, <2>5
<1> QED BY <1>1, WorkerInvariant, PTL

\* No process outlives a clean-up that two readings in a row did not mislead
\* (process_linux.go cleanup).
THEOREM NothingSurvives == WorkerSpec => []NoSurvivors
<1>1. WorkerInv => NoSurvivors
  <2> SUFFICES ASSUME WorkerInv PROVE NoSurvivors OBVIOUS
  <2>0. Reaped /\ Watched /\ Justified BY Parts
  <2>1. ASSUME process.clean, Alive PROVE fooled >= 2
    <3>1. leader # "alive" BY <2>0, <2>1 DEF Reaped
    <3>2. other # "none" BY <3>1, <2>1 DEF Alive
    <3> QED BY <3>2, <2>0, <2>1 DEF Watched
  <2> QED BY <2>0, <2>1 DEF NoSurvivors, Justified
<1> QED BY <1>1, WorkerInvariant, PTL
=============================================================================
