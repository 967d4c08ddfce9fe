------------------------------ MODULE ProxyStream ------------------------------
(***************************************************************************)
(* The translation of one upstream stream into the stream of the client    *)
(* (internal/proxy/router/upstream.go): the normaliser reads one line of   *)
(* the destination's protocol and yields normalised events; the encoder    *)
(* turns those into frames of the source's protocol.  Text is not kept,    *)
(* only which item a frame belongs to and the output index it carries.     *)
(***************************************************************************)
EXTENDS Integers, Sequences, FiniteSetsExt

CONSTANTS
    Call,      \* identifiers of tool calls
    Thought,   \* identifiers of reasoning items
    MaxIndex,  \* the highest output index an upstream may use
    MaxLines   \* maxStreamEvents: data lines read of one stream

Protocols == {"chat", "responses"}
Index == 0 .. MaxIndex
Unset == -1
Message == "message"   \* the one message item of an answer

\* Items of different kinds are told apart.
ASSUME StreamAssumption == /\ MaxIndex \in Nat /\ MaxLines \in Nat \ {0}
                           /\ Call \cap Thought = {} /\ Message \notin Call \cup Thought

(* What a destination may send on one data line.  `bad` stands for every   *)
(* line that normalize refuses, `broken` for a failed read, `eof` for the  *)
(* end of the body.                                                        *)
Common == [k : {"start", "bad", "done", "eof", "broken"}]
            \cup [k : {"error"}, again : BOOLEAN]
Line(protocol) ==
    IF protocol = "chat"
    THEN Common \cup [k : {"text", "end"}] \cup [k : {"usage"}, over : BOOLEAN]
                \cup [k : {"call"}, id : Call, named : BOOLEAN]
                \cup [k : {"args"}, id : Call]
    ELSE Common \cup [k : {"text"}, ix : Index] \cup [k : {"args"}, id : Call]
                \cup [k : {"call"}, id : Call, ix : Index]
                \cup [k : {"thought", "thoughtDone"}, id : Thought, ix : Index]
                \cup [k : {"completed"}, over : BOOLEAN]

-----------------------------------------------------------------------------
(* The state of the normaliser. *)
NewNormalizer ==
    [started |-> FALSE, terminal |-> FALSE, known |-> {}, called |-> {},
     textAt |-> Unset, callAt |-> [c \in Call |-> Unset],
     thoughtAt |-> [t \in Thought |-> Unset], thoughtDone |-> {}, lines |-> 0]

Normalized(n, events) == [n |-> n, events |-> events, thoughts |-> <<>>, err |-> "none"]

Started(n) ==
    Normalized([n EXCEPT !.started = TRUE], IF n.started THEN <<>> ELSE <<[k |-> "start"]>>)

(* One chunk of a Chat stream. A call starts once its id and its name are  *)
(* known; arguments of an index without an id are dropped.                 *)
normalizeChat(n, line) ==
    CASE line.k = "start" -> Started(n)
      [] line.k = "call" ->
            LET begins == line.named /\ line.id \notin n.called
            IN  Normalized([n EXCEPT !.known = @ \cup {line.id},
                                     !.called = IF begins THEN @ \cup {line.id} ELSE @],
                           IF begins THEN <<[k |-> "call", id |-> line.id]>> ELSE <<>>)
      [] line.k = "args" -> Normalized(n, IF line.id \in n.known THEN <<line>> ELSE <<>>)
      [] line.k = "end" -> Normalized([n EXCEPT !.terminal = TRUE], <<line>>)
      [] OTHER -> Normalized(n, <<line>>)      \* text, usage, error

(* One event of a Responses stream. Reasoning items bypass the events.     *)
normalizeResponses(n, line) ==
    CASE line.k = "start" -> Started(n)
      [] line.k = "text" -> Normalized([n EXCEPT !.textAt = line.ix], <<[k |-> "text"]>>)
      [] line.k = "call" -> Normalized([n EXCEPT !.callAt[line.id] = line.ix],
                                       <<[k |-> "call", id |-> line.id]>>)
      [] line.k \in {"thought", "thoughtDone"} ->
            [Normalized([n EXCEPT !.thoughtAt[line.id] = line.ix,
                                  !.thoughtDone = IF line.k = "thoughtDone"
                                                  THEN @ \cup {line.id} ELSE @], <<>>)
               EXCEPT !.thoughts = <<line>>]
      [] line.k = "completed" ->
            Normalized([n EXCEPT !.terminal = TRUE],
                       <<[k |-> "usage", over |-> line.over], [k |-> "end"]>>)
      [] OTHER -> Normalized(n, <<line>>)      \* args, error

normalize(protocol, n, line) ==
    IF protocol = "chat" THEN normalizeChat(n, line) ELSE normalizeResponses(n, line)

(* One line read: events, the end of the stream, or an error. [DONE] ends  *)
(* the stream whatever came before; the end of the body does so only       *)
(* after a terminal event.                                                 *)
nextStreamEvents(protocol, n, line) ==
    LET m == [n EXCEPT !.lines = @ + 1]
        failed(e) == [Normalized(m, <<>>) EXCEPT !.err = e]
    IN  IF line.k = "broken" THEN failed("broken")
        ELSE IF line.k = "eof" THEN failed(IF n.terminal THEN "done" ELSE "plain")
        ELSE IF n.lines >= MaxLines \/ line.k = "bad" THEN failed("plain")
        ELSE IF line.k = "done" THEN failed("done")
        ELSE normalize(protocol, m, line)

reasoningComplete(n) == \A t \in Thought : n.thoughtAt[t] # Unset => t \in n.thoughtDone

-----------------------------------------------------------------------------
(* The state of the encoder, and what the client has received: the items   *)
(* announced to it and used in deltas with their indexes, and how often    *)
(* and how its stream was ended.                                           *)
NewEncoder ==
    [callAt |-> [c \in Call |-> Unset], nextCall |-> 0, textStarted |-> FALSE,
     textAt |-> Unset, nextIndex |-> 0, usage |-> FALSE, finish |-> FALSE]

NewClient == [bytes |-> FALSE, added |-> {}, used |-> {}, ends |-> <<>>]

applyIndexHints(e, n) ==
    LET hinted == {n.textAt} \cup {n.callAt[c] : c \in Call}
    IN  [e EXCEPT !.textAt = IF n.textAt # Unset THEN n.textAt ELSE @,
                  !.callAt = [c \in Call |-> IF n.callAt[c] # Unset THEN n.callAt[c] ELSE @[c]],
                  !.nextIndex = Max(hinted \cup {@ - 1}) + 1]

Announce(c, item, ix) == [c EXCEPT !.bytes = TRUE, !.added = @ \cup {<<item, ix>>}]
Delta(c, item, ix) == [c EXCEPT !.bytes = TRUE, !.used = @ \cup {<<item, ix>>}]

Consumed(e, c, err) == [e |-> e, c |-> c, err |-> err]
Emitted(e, c, sent, ok) == Consumed(e, IF ok THEN sent ELSE c, IF ok THEN "none" ELSE "plain")

consumeChat(e, c, event, ok) ==
    CASE event.k = "text" -> Emitted(e, c, Delta(c, Message, 0), ok)
      [] event.k = "call" ->
            LET ix == e.nextCall
            IN  Emitted([e EXCEPT !.nextCall = ix + 1, !.callAt[event.id] = ix],
                        c, Announce(c, event.id, ix), ok)
      [] event.k = "args" ->
            IF e.callAt[event.id] = Unset THEN Consumed(e, c, "plain")
            ELSE Emitted(e, c, Delta(c, event.id, e.callAt[event.id]), ok)

(* The first text announces the message; arguments of an unknown call go   *)
(* out with index 0, the zero value of the map.                            *)
consumeResponses(e, c, event, ok) ==
    CASE event.k = "text" ->
            LET at == IF e.textAt = Unset THEN e.nextIndex ELSE e.textAt
                next == IF e.textAt = Unset THEN e.nextIndex + 1 ELSE e.nextIndex
            IN  IF e.textStarted THEN Emitted(e, c, Delta(c, Message, e.textAt), ok)
                ELSE Emitted([e EXCEPT !.textStarted = TRUE, !.textAt = at, !.nextIndex = next],
                             c, Delta(Announce(c, Message, at), Message, at), ok)
      [] event.k = "call" ->
            LET fresh == e.callAt[event.id] = Unset
                ix == IF fresh THEN e.nextIndex ELSE e.callAt[event.id]
            IN  Emitted([e EXCEPT !.callAt[event.id] = ix,
                                  !.nextIndex = IF fresh THEN @ + 1 ELSE @],
                        c, Announce(c, event.id, ix), ok)
      [] event.k = "args" ->
            Emitted(e, c, Delta(c, event.id, IF e.callAt[event.id] = Unset THEN 0
                                             ELSE e.callAt[event.id]), ok)

consume(source, e, c, event, ok) ==
    CASE event.k = "error" -> Consumed(e, c, IF event.again THEN "rejected" ELSE "denied")
      [] event.k = "start" -> Consumed(e, c, "none")
      [] event.k = "usage" -> IF event.over THEN Consumed(e, c, "invalid")
                              ELSE Consumed([e EXCEPT !.usage = TRUE], c, "none")
      [] event.k = "end" -> Consumed([e EXCEPT !.finish = TRUE], c, "none")
      [] OTHER -> IF source = "chat" THEN consumeChat(e, c, event, ok)
                  ELSE consumeResponses(e, c, event, ok)

(* The events of one line, of which there are at most two, up to the first *)
(* that fails.                                                             *)
consumeAll(source, e, c, events, ok) ==
    LET step(s, i) == IF s.err # "none" \/ i > Len(events) THEN s
                      ELSE consume(source, s.e, s.c, events[i], ok)
    IN  step(step(Consumed(e, c, "none"), 1), 2)

(* Reasoning has no form in a Chat stream. *)
emitReasoning(source, e, c, thoughts, ok) ==
    IF thoughts = <<>> THEN Consumed(e, c, "none")
    ELSE IF source = "chat" THEN Consumed(e, c, "plain")
    ELSE Emitted(e, c, IF thoughts[1].k = "thought"
                       THEN Announce(c, thoughts[1].id, thoughts[1].ix)
                       ELSE [c EXCEPT !.bytes = TRUE], ok)

(* No two items of a Responses answer share an output index. *)
validateOutputIndexes(source, e, n) ==
    LET claims == {<<t, n.thoughtAt[t]>> : t \in {t \in Thought : n.thoughtAt[t] # Unset}}
                    \cup (IF e.textStarted THEN {<<Message, e.textAt>>} ELSE {})
                    \cup {<<c, e.callAt[c]>> : c \in {c \in Call : e.callAt[c] # Unset}}
    IN  source = "responses" => \A a, b \in claims : a[2] = b[2] => a = b

(* Whether finish writes the end of the answer. *)
CanFinish(source, e, n) == e.finish /\ e.usage /\ validateOutputIndexes(source, e, n)

Ended(c, how) == [c EXCEPT !.bytes = TRUE, !.ends = Append(@, how)]
=============================================================================
