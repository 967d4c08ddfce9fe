------------------------------ MODULE ProxyRouter ------------------------------
(***************************************************************************)
(* One request through the proxy listener (internal/proxy/router and       *)
(* internal/proxy/listener): admission, the attempts of dispatch with the  *)
(* timer of each route, the answer or the stream, and the events reported. *)
(* Requests share nothing but the event cursor, so one is enough.          *)
(***************************************************************************)
EXTENDS ProxyStream

CONSTANTS
    RetryableReasons,  \* policy.fallback.retryableReasons
    MaxLostWrites      \* bound on writes to the client that fail

ASSUME RouterAssumption == /\ RetryableReasons \subseteq {"connection", "timeout", "rejected"}
                           /\ MaxLostWrites \in Nat

VARIABLES
    server,   \* the listener: starting, up, closing, closed
    pc,       \* where the handler is
    req,      \* [source, stream, needs]
    routes,   \* the protocols of the selected routes
    attempt,  \* the route of the loop, from 1
    last,     \* dispatch's last error, "none" before the first
    failure,  \* the error dispatch or the answer ended with
    ctx,      \* the request's context: live, cancelled, expired
    timer,    \* the route timer: none, armed, firing, fired, stopped
    watch,    \* the goroutine that closes the body when the timer has fired
    upstream, \* [ctx, body]: the attempt's context and response body
    norm, enc, client, buffered,
    events,   \* what was reported: [type, attempt, outcome]
    faults

routerVars == <<server, pc, req, routes, attempt, last, failure, ctx, timer, watch, upstream,
          norm, enc, client, buffered, events, faults>>

NoUpstream == [ctx |-> "none", body |-> "none"]

RouterInit ==
    /\ server = "starting" /\ pc = "idle" /\ ctx = "live"
    /\ req = [source |-> "none", stream |-> FALSE, needs |-> {}] /\ routes = <<>> /\ attempt = 0
    /\ last = "none" /\ failure = "none" /\ timer = "none" /\ watch = "off"
    /\ upstream = NoUpstream /\ norm = NewNormalizer /\ enc = NewEncoder /\ client = NewClient
    /\ buffered = <<>> /\ events = <<>> /\ faults = 0

-----------------------------------------------------------------------------
(* The listener. Start publishes it only after every route resolved and    *)
(* had a credential; Shutdown cancels every request and waits for it, or   *)
(* closes its connection.                                                  *)
StartListener ==
    /\ server = "starting"
    /\ \E ready \in BOOLEAN : server' = IF ready THEN "up" ELSE "closed"
    /\ UNCHANGED <<pc, req, routes, attempt, last, failure, ctx, timer, watch, upstream,
                   norm, enc, client, buffered, events, faults>>

ShutdownListener ==
    /\ server = "up" /\ server' = "closing"
    /\ ctx' = IF ctx = "live" THEN "cancelled" ELSE ctx
    /\ UNCHANGED <<pc, req, routes, attempt, last, failure, timer, watch, upstream,
                   norm, enc, client, buffered, events, faults>>

Stopped ==
    /\ server = "closing" /\ pc \in {"idle", "end", "panic"} /\ server' = "closed"
    /\ UNCHANGED <<pc, req, routes, attempt, last, failure, ctx, timer, watch, upstream,
                   norm, enc, client, buffered, events, faults>>

(* The client goes away, or the deadline of the request passes. *)
ContextEnds ==
    /\ ctx = "live" /\ pc \notin {"idle", "end", "panic"}
    /\ \E how \in {"cancelled", "expired"} : ctx' = how
    /\ UNCHANGED <<server, pc, req, routes, attempt, last, failure, timer, watch, upstream,
                   norm, enc, client, buffered, events, faults>>

-----------------------------------------------------------------------------
(* emit drops an event its own validation refuses: a failure whose reason  *)
(* is a cancellation.                                                      *)
Event(type, n, outcome) == [type |-> type, attempt |-> n, outcome |-> outcome]
emit(type, n, outcome, reason) ==
    IF outcome = "failed" /\ reason = "cancelled" THEN events
    ELSE Append(events, Event(type, n, outcome))
RequestFinished(n, outcome, reason) ==
    IF outcome = "failed" /\ reason = "cancelled" THEN events
    ELSE events \o <<Event("attempt_finished", n, outcome), Event("request_finished", n, outcome)>>

(* What each source protocol normalises to: whether it streams, and what   *)
(* it asks for that only one destination protocol can carry (the stop      *)
(* sequences of a Chat request, the reasoning options of a Responses one). *)
(* Anthropic Messages are never streamed and have no stops.                *)
parseStop == SUBSET {"stop"}
inspectResponsesMetadata == SUBSET {"reasoning"}

ChatRequest == [source : {"chat"}, stream : BOOLEAN, needs : parseStop]
ResponsesRequest == [source : {"responses"}, stream : BOOLEAN, needs : inspectResponsesMetadata]
MessagesRequest == [source : {"messages"}, stream : {FALSE}, needs : {{}}]

routePreservesRequest(protocol, needs) ==
    /\ "stop" \in needs => protocol = "chat"
    /\ "reasoning" \in needs => protocol = "responses"

(* Of the one or two routes of an alias, those that preserve the request. *)
selectRoutesFor(candidates, needs) ==
    LET kept(i) == IF i <= Len(candidates) /\ routePreservesRequest(candidates[i], needs)
                   THEN <<candidates[i]>> ELSE <<>>
    IN  kept(1) \o kept(2)

(* What the request sent to a destination holds of these. *)
encodeDestinationRequest(protocol, needs) ==
    needs \cap (IF protocol = "chat" THEN {"stop"} ELSE {"reasoning"})

(* ServeHTTP up to dispatch: the request is normalised and given the one   *)
(* or two routes of its alias that preserve it. A workload scope leaves    *)
(* one route.                                                              *)
Admit ==
    /\ server = "up" /\ pc = "idle"
    /\ \E request \in ChatRequest \cup ResponsesRequest \cup MessagesRequest,
         candidates \in UNION {[1..k -> Protocols] : k \in 1..2}, elapsed \in BOOLEAN :
            /\ req' = request
            /\ routes' = selectRoutesFor(candidates, request.needs) /\ routes' # <<>>
            /\ pc' = IF elapsed THEN "end" ELSE "loop"
            /\ events' = emit("request_started", 1, "success", "none")
    /\ UNCHANGED <<server, attempt, last, failure, ctx, timer, watch, upstream, norm, enc,
                   client, buffered, faults>>

(* Authentication, the scope, the request itself or the lack of a route    *)
(* that preserves it.                                                      *)
Refuse ==
    /\ server = "up" /\ pc = "idle" /\ pc' = "end"
    /\ client' = Ended(client, "refused")
    /\ UNCHANGED <<server, req, routes, attempt, last, failure, ctx, timer, watch, upstream,
                   norm, enc, buffered, events, faults>>

fallbackAllowed(err) == err \in RetryableReasons

(* The loop of dispatch: the next route, if there is one and the last      *)
(* error lets it be tried. `attempt` moves first: when the policy forbids  *)
(* the fallback, dispatch returns the route it did not try.                *)
Select ==
    /\ pc = "loop" /\ attempt < Len(routes)
    /\ attempt' = attempt + 1
    /\ IF attempt > 0 /\ ~fallbackAllowed(last)
       THEN /\ pc' = "failed" /\ failure' = last /\ UNCHANGED events
       ELSE /\ pc' = "connect" /\ UNCHANGED failure
            /\ events' = emit("route_selected", attempt + 1,
                              IF attempt > 0 THEN "fallback" ELSE "success", "none")
    /\ UNCHANGED <<server, req, routes, last, ctx, timer, watch, upstream, norm, enc, client,
                   buffered, faults>>

Exhausted ==
    /\ pc = "loop" /\ attempt = Len(routes)
    /\ pc' = "failed" /\ failure' = last
    /\ UNCHANGED <<server, req, routes, attempt, last, ctx, timer, watch, upstream, norm, enc,
                   client, buffered, events, faults>>

(* The attempt failed and the loop goes on. *)
Again(err) ==
    /\ pc' = "loop" /\ last' = err
    /\ events' = emit("attempt_finished", attempt, "failed", err)
    /\ UNCHANGED failure

(* The route does not resolve, or not to an address it may have. *)
ResolveFails ==
    /\ pc = "connect" /\ Again("connection")
    /\ UNCHANGED <<server, req, routes, attempt, ctx, timer, watch, upstream, norm, enc, client,
                   buffered, faults>>

(* A credential or an encoding that fails ends dispatch; only the          *)
(* credential is reported.                                                 *)
CredentialFails ==
    /\ pc = "connect" /\ pc' = "failed" /\ failure' = "credential"
    /\ events' = emit("attempt_finished", attempt, "failed", "credential")
    /\ UNCHANGED <<server, req, routes, attempt, last, ctx, timer, watch, upstream, norm, enc,
                   client, buffered, faults>>

EncodeFails ==
    /\ pc = "connect" /\ pc' = "failed" /\ failure' = "plain"
    /\ UNCHANGED <<server, req, routes, attempt, last, ctx, timer, watch, upstream, norm, enc,
                   client, buffered, events, faults>>

(* The timer is armed for the time the route has, and the request sent. *)
Connect ==
    /\ pc = "connect" /\ pc' = "sent"
    /\ timer' = "armed" /\ upstream' = [ctx |-> "live", body |-> "none"]
    /\ UNCHANGED <<server, req, routes, attempt, last, failure, ctx, watch, norm, enc, client,
                   buffered, events, faults>>

(* The route timer first cancels the attempt, then closes its channel; the *)
(* watcher then closes the body.                                           *)
TimerFires ==
    /\ timer \in {"armed", "firing"}
    /\ timer' = IF timer = "armed" THEN "firing" ELSE "fired"
    /\ upstream' = [upstream EXCEPT !.ctx = "cancelled"]
    /\ UNCHANGED <<server, pc, req, routes, attempt, last, failure, ctx, watch, norm, enc, client,
                   buffered, events, faults>>

WatchCloses ==
    /\ watch = "on" /\ timer = "fired" /\ watch' = "off"
    /\ upstream' = [upstream EXCEPT !.body = "closed"]
    /\ UNCHANGED <<server, pc, req, routes, attempt, last, failure, ctx, timer, norm, enc, client,
                   buffered, events, faults>>

(* Mutant of timerDidFire: the channel is looked at, not waited for. *)
FiredYet == /\ timer' = IF timer = "armed" THEN "stopped" ELSE timer

(* timerDidFire: stop the timer, or wait until its function is through. *)
timerDidFire == /\ timer # "firing"
                /\ timer' = IF timer = "armed" THEN "stopped" ELSE timer
TimedOut == timer = "fired"

Released == [ctx |-> "cancelled", body |-> "closed"]

(* client.Do failed. *)
DoFails ==
    /\ pc = "sent" /\ timerDidFire
    /\ upstream' = [upstream EXCEPT !.ctx = "cancelled"]
    /\ IF ctx # "live"
       THEN /\ pc' = "failed" /\ failure' = "cancelled" /\ UNCHANGED <<last, events>>
       ELSE \E err \in IF TimedOut THEN {"timeout"} ELSE {"connection", "timeout"} : Again(err)
    /\ UNCHANGED <<server, req, routes, attempt, ctx, watch, norm, enc, client, buffered, faults>>

(* A status of 400 or more: 429, 404, 413 and 5xx may be retried. *)
classifyStatus == {"rejected", "denied"}

(* The upstream refuses. The timer is stopped without waiting for it. *)
Rejected ==
    /\ pc = "sent" /\ timer' = IF timer = "armed" THEN "stopped" ELSE timer
    /\ upstream' = Released
    /\ \E err \in classifyStatus : Again(err)
    /\ UNCHANGED <<server, req, routes, attempt, ctx, watch, norm, enc, client, buffered, faults>>

(* Headers of an answer that is not streamed. *)
Answered ==
    /\ pc = "sent" /\ ~req.stream /\ timerDidFire
    /\ IF TimedOut
       THEN Again("timeout") /\ upstream' = Released
       ELSE /\ pc' = "answer" /\ upstream' = [upstream EXCEPT !.body = "open"]
            /\ UNCHANGED <<last, failure, events>>
    /\ UNCHANGED <<server, req, routes, attempt, ctx, watch, norm, enc, client, buffered, faults>>

(* Headers of a stream: the watcher starts and prepareStream reads. *)
StreamOpened ==
    /\ pc = "sent" /\ req.stream /\ pc' = "prepare" /\ watch' = "on"
    /\ upstream' = [upstream EXCEPT !.body = "open"]
    /\ norm' = NewNormalizer
    /\ UNCHANGED <<server, req, routes, attempt, last, failure, ctx, timer, enc, client, buffered,
                   events, faults>>

(* What a failed read says: the context that ended it, or the connection.  *)
ReadError ==
    {"connection"} \cup (IF ctx = "cancelled" \/ upstream.ctx = "cancelled" THEN {"cancelled"} ELSE {})
                   \cup (IF ctx = "expired" THEN {"timeout"} ELSE {})

(* prepareStream: lines are skipped until one yields an event. An event    *)
(* that is an error, an error or the end of the stream is the attempt's    *)
(* error. A line with reasoning only has no first event to look at: the    *)
(* handler panics.                                                         *)
prepareStream(read) ==
    /\ UNCHANGED failure
    /\ IF read.err = "none" /\ read.events = <<>> /\ read.thoughts = <<>>
       THEN pc' = "prepare" /\ UNCHANGED <<last, buffered>>
       ELSE IF read.err = "none" /\ read.events = <<>>
       THEN pc' = "panic" /\ UNCHANGED <<last, buffered>>
       ELSE /\ pc' = "prepared"
            /\ buffered' = read.events
            /\ CASE read.err = "broken" -> \E err \in ReadError : last' = err
                 [] read.err \in {"plain", "done"} -> last' = "connection"
                 [] OTHER -> last' = IF read.events[1].k # "error" THEN "none"
                                     ELSE IF read.events[1].again THEN "rejected" ELSE "denied"

FirstRead ==
    /\ pc = "prepare"
    /\ \E line \in Line(routes[attempt]) :
          LET read == nextStreamEvents(routes[attempt], norm, line)
          IN  norm' = read.n /\ prepareStream(read)
    /\ UNCHANGED <<server, req, routes, attempt, ctx, timer, watch, upstream, enc, client, events,
                   faults>>

(* After prepareStream: stop the timer, end the watcher, and commit to     *)
(* the route unless the timer fired or the stream failed.                  *)
Commit ==
    /\ pc = "prepared" /\ timerDidFire
    /\ IF TimedOut THEN watch = "off" /\ UNCHANGED watch ELSE watch' = "off"
    /\ IF TimedOut \/ last # "none"
       THEN /\ Again(IF TimedOut THEN "timeout" ELSE last) /\ upstream' = Released
            /\ buffered' = <<>>
       ELSE pc' = "begin" /\ UNCHANGED <<last, failure, events, upstream, buffered>>
    /\ UNCHANGED <<server, req, routes, attempt, ctx, norm, enc, client, faults>>

-----------------------------------------------------------------------------
(* A write to the client; the client or the byte limit may refuse it. *)
Writes(ok) == /\ ~ok => faults < MaxLostWrites
              /\ faults' = IF ok THEN faults ELSE faults + 1

(* Which end of streamResponse counts as cancelled. The test compares the  *)
(* error with the error of the context: both are nil when a live request   *)
(* succeeded.                                                              *)
IsContextError(err) == \/ err = "none" /\ ctx = "live"
                       \/ err = "context" /\ ctx # "live"

(* Mutant of StreamEnds: a retryable failure is tried on the next route. *)
StreamFallsBack(err) ==
    /\ pc' = IF fallbackAllowed(err) /\ attempt < Len(routes) THEN "loop" ELSE "end"
    /\ failure' = err /\ upstream' = Released
    /\ events' = emit("attempt_finished", attempt, "failed", err)

StreamEnds(err) ==
    /\ pc' = "end" /\ failure' = err /\ upstream' = Released
    /\ events' = IF IsContextError(err) THEN emit("request_cancelled", attempt, "cancelled", "cancelled")
                 ELSE IF err = "none" THEN RequestFinished(attempt, "success", "none")
                 ELSE RequestFinished(attempt, "failed", err)

(* encoder.fail tells the client, if it can still be written to. *)
FailClient(c) == \E told \in BOOLEAN : client' = IF told THEN Ended(c, "failed") ELSE c

(* What was sent so far, and the frames of one line's reasoning; one that  *)
(* cannot be sent ends the stream without a word to the client.            *)
Sent(done) == /\ enc' = done.e /\ client' = done.c /\ pc' = "stream"
              /\ UNCHANGED <<failure, upstream, events>>
Show(e, thoughts) ==
    \E ok \in BOOLEAN :
        LET done == emitReasoning(req.source, e, client, thoughts, ok)
        IN  /\ Writes(ok)
            /\ IF done.err = "none" THEN Sent(done)
               ELSE enc' = e /\ UNCHANGED client /\ StreamEnds(done.err)

(* The frames of one line's events. *)
Deliver(e, c, evs) ==
    \E ok \in BOOLEAN :
        LET done == consumeAll(req.source, e, c, evs, ok)
        IN  /\ Writes(ok)
            /\ IF done.err = "none" THEN Sent(done)
               ELSE enc' = done.e /\ FailClient(done.c) /\ StreamEnds(done.err)

(* streamResponse: the first frame, then what prepareStream had read,      *)
(* which never holds reasoning.                                            *)
StreamStart ==
    /\ pc = "begin" /\ buffered' = <<>>
    /\ \/ Writes(FALSE) /\ StreamEnds("plain") /\ UNCHANGED <<enc, client>>
       \/ Deliver(applyIndexHints(enc, norm), [client EXCEPT !.bytes = TRUE], buffered)
    /\ UNCHANGED <<server, req, routes, attempt, last, ctx, timer, watch, norm>>

(* The loop looks at the context before each read. *)
StreamLoop ==
    /\ pc = "stream"
    /\ IF ctx = "live"
       THEN pc' = "read" /\ UNCHANGED <<failure, upstream, events>>
       ELSE StreamEnds("context")
    /\ UNCHANGED <<server, req, routes, attempt, last, ctx, timer, watch, norm, enc, client,
                   buffered, faults>>

(* Mutant of StreamDone: [DONE] is taken for the end of the answer. *)
DoneIsEnough(n) ==
    IF CanFinish(req.source, [enc EXCEPT !.usage = TRUE, !.finish = TRUE], n)
    THEN client' = Ended(client, "complete") /\ StreamEnds("none") /\ UNCHANGED faults
    ELSE StreamEnds("plain") /\ UNCHANGED <<client, faults>>

(* The stream is over: it must have had its terminal event and all of its  *)
(* reasoning. finish may refuse, and then says nothing to the client.      *)
StreamDone(n) ==
    IF ~n.terminal \/ ~reasoningComplete(n)
    THEN FailClient(client) /\ StreamEnds("invalid") /\ UNCHANGED faults
    ELSE IF ~CanFinish(req.source, enc, n)
    THEN StreamEnds("plain") /\ UNCHANGED <<client, faults>>
    ELSE \E ok \in BOOLEAN :
            /\ Writes(ok)
            /\ client' = IF ok THEN Ended(client, "complete") ELSE client
            /\ StreamEnds(IF ok THEN "none" ELSE "plain")

StreamRead ==
    /\ pc = "read"
    /\ \E line \in Line(routes[attempt]) :
          LET read == nextStreamEvents(routes[attempt], norm, line)
          IN  /\ norm' = read.n
              /\ IF read.err = "done" THEN StreamDone(read.n) /\ UNCHANGED enc
                 ELSE IF read.err = "plain"
                 THEN FailClient(client) /\ StreamEnds("plain") /\ UNCHANGED <<enc, faults>>
                 ELSE IF read.err = "broken"
                 THEN /\ FailClient(client) /\ UNCHANGED <<enc, faults>>
                      /\ \E err \in ReadError :
                            StreamEnds(IF err = "connection" THEN "plain" ELSE "context")
                 ELSE IF read.thoughts # <<>>
                 THEN Show(applyIndexHints(enc, read.n), read.thoughts)
                 ELSE Deliver(applyIndexHints(enc, read.n), client, read.events)
    /\ UNCHANGED <<server, req, routes, attempt, last, ctx, timer, watch, buffered>>

(* An answer that is not streamed: decoded and checked whole, then         *)
(* written. One that cannot be written is not reported at all.             *)
decodeUpstreamResponse == {"none", "invalid"}
WriteSourceResponse(ok) == client' = IF ok THEN Ended(client, "complete") ELSE client
Answer ==
    /\ pc = "answer" /\ pc' = "end" /\ upstream' = Released
    /\ failure' \in decodeUpstreamResponse
    /\ IF failure' # "none"
       THEN /\ events' = RequestFinished(attempt, "failed", failure')
            /\ FailClient(client) /\ UNCHANGED faults
       ELSE \E ok \in BOOLEAN :
             /\ Writes(ok) /\ WriteSourceResponse(ok)
             /\ events' = IF ok THEN RequestFinished(attempt, "success", "none") ELSE events
    /\ UNCHANGED <<server, req, routes, attempt, last, ctx, timer, watch, norm, enc, buffered>>

(* dispatch failed: the request is reported as cancelled or failed, and    *)
(* the client gets the error.                                              *)
Failed ==
    /\ pc = "failed" /\ pc' = "end"
    /\ events' = IF ctx = "cancelled"
                 THEN emit("request_cancelled", attempt, "cancelled", "cancelled")
                 ELSE emit("request_finished", attempt, "failed", failure)
    /\ FailClient(client)
    /\ UNCHANGED <<server, req, routes, attempt, last, failure, ctx, timer, watch, upstream, norm,
                   enc, buffered, faults>>

Rest == server = "closed" /\ pc \in {"idle", "end", "panic"} /\ UNCHANGED routerVars

RouterNext ==
    \/ StartListener \/ ShutdownListener \/ Stopped \/ ContextEnds \/ Admit \/ Refuse \/ Select \/ Exhausted
    \/ ResolveFails \/ CredentialFails \/ EncodeFails \/ Connect
    \/ TimerFires \/ WatchCloses \/ DoFails \/ Rejected \/ Answered \/ StreamOpened
    \/ FirstRead \/ Commit \/ StreamStart \/ StreamLoop \/ StreamRead \/ Answer \/ Failed \/ Rest

RouterSpec == RouterInit /\ [][RouterNext]_routerVars

-----------------------------------------------------------------------------
(* "No fallback occurs after any response byte/event": once the client has *)
(* been sent a byte, dispatch selects no further route.                    *)
NoFallbackAfterFirstByte == [][client.bytes => UNCHANGED attempt]_routerVars

(* The body, context, timer and watcher of an attempt last as long as it   *)
(* does.  A stream that was committed to is one whose route timer was      *)
(* stopped before it fired, so that neither its context nor its body is    *)
(* taken away while it is copied to the client; between two attempts and   *)
(* at the end nothing of an attempt is left.                               *)
AttemptOwnsItsResources ==
    /\ pc \in {"begin", "stream", "read", "answer"} =>
          timer = "stopped" /\ watch = "off" /\ upstream = [ctx |-> "live", body |-> "open"]
    /\ pc \in {"loop", "failed", "end"} =>
          upstream.ctx # "live" /\ upstream.body # "open" /\ timer # "armed" /\ watch = "off"

(* What was asked for is what is sent ("it may never silently omit it"),   *)
(* whatever route fallback has come to, and what is said to be complete is *)
(* complete.  A client whose stream is ended so has been told once, after  *)
(* the upstream's terminal event and usage within the limit, with every    *)
(* reasoning item finished and no two items at one output index; a request *)
(* reported as a success was answered in full.                             *)
CompleteIsComplete ==
    /\ pc = "sent" => encodeDestinationRequest(routes[attempt], req.needs) = req.needs
    /\ Len(client.ends) <= 1
    /\ req.stream /\ client.ends = <<"complete">> =>
          /\ norm.terminal /\ reasoningComplete(norm) /\ enc.usage
          /\ req.source = "responses" =>
                LET at(i) == IF i \in Thought THEN norm.thoughtAt[i]
                             ELSE IF i \in Call THEN enc.callAt[i] ELSE enc.textAt
                IN  \A a, b \in {x[1] : x \in client.added} : at(a) = at(b) => a = b
    /\ \A i \in DOMAIN events :
          events[i].type = "request_finished" /\ events[i].outcome = "success"
             => client.ends = <<"complete">>
=============================================================================
