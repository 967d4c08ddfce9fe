---------------------------- MODULE SandboxLease ----------------------------
(***************************************************************************)
(* The lease of one sandbox operation, in time: the expiry the database    *)
(* keeps on its clock, the deadline the controller derives from each       *)
(* answer on its own, and the watchdog that cancels backend work.  The     *)
(* Kubernetes API knows nothing of leases, so two controllers stay apart   *)
(* only if work under a lease ends before the database gives the lease     *)
(* away.                                                                   *)
(*                                                                         *)
(* Both clocks advance together: the code compares durations only, never   *)
(* the two clocks' readings.  A call is a request sent at some time, read  *)
(* by the server at a later one (effective_now), applied later still, and  *)
(* answered after that; a call its caller has given up may still be        *)
(* applied.                                                                *)
(***************************************************************************)
EXTENDS Integers

CONSTANTS
    Worker,         \* controller processes
    None,           \* no worker
    Lease,          \* config.Lease
    RenewEvery,     \* config.RenewEvery
    Margin,         \* leaseSafetyMargin
    Slack,          \* how late a fired watchdog may stop the backend work
    MaxAttempts,    \* claims of the operation: 5 in the code
    MaxTime         \* bound on the clock

ASSUME WorkerAssumption == None \notin Worker
ASSUME TimeAssumption == Lease \in Nat /\ RenewEvery \in Nat /\ Margin \in Nat /\ Slack \in Nat
ASSUME MarginAssumption == Slack < Margin

VARIABLES
    now,            \* the time
    job,            \* lease_owner, lease_token and lease_expires_at of the job
    workers,        \* per worker: what it does, its token and its deadline
    calls,          \* per worker: the call it is waiting for
    stray,          \* per worker: a renewal it has given up, not yet applied
    cut             \* history, per worker: the tokens whose lease such a renewal
                    \* has cut short, and no awaited one has restored

vars == <<now, job, workers, calls, stray, cut>>

NoCall == [stage |-> "none", token |-> 0, started |-> 0, sampled |-> 0, deadline |-> 0]
CallRow == [stage : {"none", "sent", "read", "granted", "refused"}, token : Nat,
            started : Nat, sampled : Nat, deadline : Int]

\* idle, waiting for a claim, refreshing a claim that came late, executing, after
\* a failed execute, renewing in order to destroy, destroying an unbound create.
Phase == {"idle", "claiming", "refreshing", "working", "failed", "renewing", "destroying"}
Active == {"working", "destroying"}

\* deadline is the heartbeat's copy of item.LeaseDeadline, claimed reconcile's.
WorkerRow == [pc : Phase, token : Nat, deadline : Int, claimed : Int]
Resting == [pc |-> "idle", token |-> 0, deadline |-> 0, claimed |-> 0]

NoLease(token) == [owner |-> None, token |-> token, expires |-> 0]

\* The columns keep their types, and an unleased job has no expiry (the CHECK of
\* 013:15-36).
TypeOK ==
    /\ now \in Nat
    /\ job \in [owner : Worker \cup {None}, token : Nat, expires : Nat]
    /\ job.owner = None => job.expires = 0
    /\ workers \in [Worker -> WorkerRow]
    /\ calls \in [Worker -> CallRow]
    /\ stray \in [Worker -> CallRow]
    /\ cut \in [Worker -> SUBSET Nat]

Init ==
    /\ now = 0
    /\ job = NoLease(0)
    /\ workers = [w \in Worker |-> Resting]
    /\ calls = [w \in Worker |-> NoCall]
    /\ stray = [w \in Worker |-> NoCall]
    /\ cut = [w \in Worker |-> {}]

-----------------------------------------------------------------------------
(* The controller's arithmetic. *)

\* What was left of the lease when the server answered, less the time the query
\* took, counted from the moment the answer is seen; that moment cancels out.
databaseLeaseWindow(expiresAt, databaseNow, localStarted) ==
    localStarted + (expiresAt - databaseNow)

\* Mutant of leaseSafetyDelay: the safety margin is forgotten.
DelayToDeadline(deadline) == deadline - now

leaseSafetyDelay(deadline) == deadline - now - Margin

leaseCoversNextRenew(deadline) == leaseSafetyDelay(deadline) > RenewEvery

-----------------------------------------------------------------------------
(* Calls. *)

Sent(token) == [stage |-> "sent", token |-> token, started |-> now, sampled |-> 0, deadline |-> 0]
Read(call) == [stage |-> "read", token |-> call.token, started |-> call.started,
               sampled |-> now, deadline |-> 0]
Granted(token, deadline) == [stage |-> "granted", token |-> token, started |-> 0, sampled |-> 0,
                             deadline |-> deadline]
Refused == [stage |-> "refused", token |-> 0, started |-> 0, sampled |-> 0, deadline |-> 0]

Become(w, pc, token, deadline, claimed) ==
    workers' = [workers EXCEPT ![w] =
        [pc |-> pc, token |-> token, deadline |-> deadline, claimed |-> claimed]]
Rest(w) == workers' = [workers EXCEPT ![w] = Resting]

StartClaim(w) ==
    /\ workers[w].pc = "idle"
    /\ Become(w, "claiming", 0, 0, 0)
    /\ calls' = [calls EXCEPT ![w] = Sent(0)]
    /\ UNCHANGED <<now, job, stray, cut>>

\* The claim reads the clock and takes the job in one go (SKIP LOCKED: it never
\* waits for a row), or finds nothing to claim.
ServeClaim(w) ==
    /\ workers[w].pc = "claiming" /\ calls[w].stage = "sent"
    /\ IF job.token < MaxAttempts /\ (job.owner = None \/ job.expires <= now)
         THEN /\ job' = [owner |-> w, token |-> job.token + 1, expires |-> now + Lease]
              /\ calls' = [calls EXCEPT ![w] = Granted(job.token + 1,
                    databaseLeaseWindow(now + Lease, now, calls[w].started))]
         ELSE /\ calls' = [calls EXCEPT ![w] = Refused]
              /\ UNCHANGED job
    /\ UNCHANGED <<now, workers, stray, cut>>

\* The heartbeat's ticker fires while no renewal is awaited.
StartRenew(w) ==
    /\ workers[w].pc \in Active /\ calls[w].stage = "none"
    /\ leaseSafetyDelay(workers[w].deadline) > 0
    /\ calls' = [calls EXCEPT ![w] = Sent(workers[w].token)]
    /\ UNCHANGED <<now, job, workers, stray, cut>>

\* sandbox_controller_renew reads the clock before it waits for the rows.
ReadClock(w) ==
    /\ \/ /\ workers[w].pc # "claiming" /\ calls[w].stage = "sent"
          /\ calls' = [calls EXCEPT ![w] = Read(calls[w])]
          /\ UNCHANGED stray
       \/ /\ stray[w].stage = "sent"
          /\ stray' = [stray EXCEPT ![w] = Read(stray[w])]
          /\ UNCHANGED calls
    /\ UNCHANGED <<now, job, workers, cut>>

\* The row still carries the token, and had not expired when the clock was read.
Renewable(w, call) ==
    job.owner = w /\ job.token = call.token /\ job.expires > call.sampled

\* The expiry is overwritten with the clock that was read plus the lease, even if
\* a renewal that read it later was applied first.
Extend(call) == job' = [owner |-> job.owner, token |-> job.token, expires |-> call.sampled + Lease]

ApplyRenew(w) ==
    /\ calls[w].stage = "read"
    /\ IF Renewable(w, calls[w])
         THEN /\ Extend(calls[w])
              /\ calls' = [calls EXCEPT ![w] = Granted(calls[w].token,
                    databaseLeaseWindow(calls[w].sampled + Lease, now, calls[w].started))]
              /\ cut' = [cut EXCEPT ![w] = @ \ {calls[w].token}]
         ELSE /\ calls' = [calls EXCEPT ![w] = Refused]
              /\ UNCHANGED <<job, cut>>
    /\ UNCHANGED <<now, workers, stray>>

\* A renewal nobody waits for any more takes effect all the same.
ApplyStray(w) ==
    /\ stray[w].stage = "read"
    /\ IF Renewable(w, stray[w])
         THEN /\ Extend(stray[w])
              /\ cut' = IF stray[w].sampled + Lease < job.expires
                          THEN [cut EXCEPT ![w] = @ \cup {job.token}] ELSE cut
         ELSE UNCHANGED <<job, cut>>
    /\ stray' = [stray EXCEPT ![w] = NoCall]
    /\ UNCHANGED <<now, workers, calls>>

-----------------------------------------------------------------------------
(* The controller. *)

\* Waiting for a call ends; a renewal that has not been applied goes astray.
Abandon(w) ==
    /\ calls' = [calls EXCEPT ![w] = NoCall]
    /\ stray' = [stray EXCEPT ![w] = IF calls[w].stage \in {"sent", "read"} THEN calls[w] ELSE @]

\* A terminal operation or a retry clears the lease.
Cleared == NoLease(job.token)

\* finishFailure or a completion: taken under a live lease, refused otherwise.
Report(w) ==
    job' = IF job.owner = w /\ job.token = workers[w].token /\ now < job.expires
             THEN Cleared ELSE job

\* Mutant of Proceed: work goes on under any granted lease.
ProceedUnchecked(w) ==
    /\ calls[w].stage = "granted"
    /\ Become(w, IF workers[w].pc = "renewing" THEN "destroying" ELSE "working",
              calls[w].token, calls[w].deadline, calls[w].deadline)
    /\ calls' = [calls EXCEPT ![w] = NoCall]
    /\ UNCHANGED <<now, job, stray, cut>>

\* An answer good enough to work under starts or continues the work; the first
\* one, and the one to a refresh, also set reconcile's own copy of the deadline.
Proceed(w) ==
    LET c == calls[w]
    IN  /\ c.stage = "granted" /\ leaseCoversNextRenew(c.deadline)
        /\ CASE workers[w].pc \in {"claiming", "refreshing"} ->
                  Become(w, "working", c.token, c.deadline, c.deadline)
             [] workers[w].pc = "renewing" ->
                  Become(w, "destroying", c.token, c.deadline, c.deadline)
             [] OTHER -> Become(w, workers[w].pc, c.token, c.deadline, workers[w].claimed)
        /\ calls' = [calls EXCEPT ![w] = NoCall]
        /\ UNCHANGED <<now, job, stray, cut>>

\* A claim whose answer came late is refreshed once, if time is left.
Refresh(w) ==
    LET c == calls[w]
    IN  /\ workers[w].pc = "claiming" /\ c.stage = "granted"
        /\ ~leaseCoversNextRenew(c.deadline) /\ leaseSafetyDelay(c.deadline) > 0
        /\ Become(w, "refreshing", c.token, c.deadline, c.deadline)
        /\ calls' = [calls EXCEPT ![w] = Sent(c.token)]
        /\ UNCHANGED <<now, job, stray, cut>>

\* Any other answer ends the attempt; a renewal made in order to destroy leaves
\* the failure to be reported.
GiveUp(w) ==
    LET c == calls[w]
    IN  /\ \/ c.stage = "refused"
           \/ /\ c.stage = "granted" /\ ~leaseCoversNextRenew(c.deadline)
              /\ workers[w].pc = "claiming" => leaseSafetyDelay(c.deadline) <= 0
        /\ IF workers[w].pc = "renewing" THEN Report(w) ELSE UNCHANGED job
        /\ Rest(w)
        /\ calls' = [calls EXCEPT ![w] = NoCall]
        /\ UNCHANGED <<now, stray, cut>>

\* The watchdog cancels the work.
Watchdog(w) ==
    /\ workers[w].pc \in Active
    /\ leaseSafetyDelay(workers[w].deadline) <= 0
    /\ Rest(w) /\ Abandon(w)
    /\ UNCHANGED <<now, job, cut>>

\* The context of a refresh runs out.
RefreshTimeout(w) ==
    /\ workers[w].pc \in {"refreshing", "renewing"}
    /\ leaseSafetyDelay(workers[w].claimed) <= 0
    /\ IF workers[w].pc = "renewing" THEN Report(w) ELSE UNCHANGED job
    /\ Rest(w) /\ Abandon(w)
    /\ UNCHANGED <<now, cut>>

\* The work ends by itself and the heartbeat with it: the attempt is over, or it
\* is a failed create that must destroy the backend it made.
EndWork(w) ==
    /\ workers[w].pc \in Active
    /\ \/ Rest(w) /\ (UNCHANGED job \/ Report(w))
       \/ /\ workers[w].pc = "working"
          /\ Become(w, "failed", workers[w].token, workers[w].deadline, workers[w].claimed)
          /\ UNCHANGED job
    /\ Abandon(w)
    /\ UNCHANGED <<now, cut>>

\* destroyUnboundCreate renews the lease first, within the deadline reconcile
\* knows of; past it the failure is reported and nothing is destroyed.
RenewToDestroy(w) ==
    /\ workers[w].pc = "failed"
    /\ IF leaseSafetyDelay(workers[w].claimed) > 0
         THEN /\ Become(w, "renewing", workers[w].token, workers[w].deadline, workers[w].claimed)
              /\ calls' = [calls EXCEPT ![w] = Sent(workers[w].token)]
              /\ UNCHANGED job
         ELSE Rest(w) /\ Report(w) /\ UNCHANGED calls
    /\ UNCHANGED <<now, stray, cut>>

\* Time passes, but not past the moment a fired watchdog has stopped the work.
Tick ==
    /\ now < MaxTime
    /\ \A w \in Worker : workers[w].pc \in Active => leaseSafetyDelay(workers[w].deadline) > -Slack
    /\ now' = now + 1
    /\ UNCHANGED <<job, workers, calls, stray, cut>>

Next ==
    \/ \E w \in Worker :
         \/ StartClaim(w) \/ ServeClaim(w) \/ StartRenew(w) \/ ReadClock(w) \/ ApplyRenew(w)
         \/ ApplyStray(w) \/ Proceed(w) \/ Refresh(w) \/ GiveUp(w)
         \/ Watchdog(w) \/ RefreshTimeout(w) \/ EndWork(w) \/ RenewToDestroy(w)
    \/ Tick

Spec == Init /\ [][Next]_vars

-----------------------------------------------------------------------------
(* Properties. *)

\* The database has not given the worker's lease away and cannot give it away yet.
Covered(w) == job.owner = w /\ job.token = workers[w].token /\ now < job.expires

\* A failed create is being destroyed, and a renewal that the heartbeat of its
\* execute gave up has cut the lease short; none has restored it yet.
Overtaken(w) == workers[w].pc = "destroying" /\ workers[w].token \in cut[w]

\* Backend work happens only under a lease the database has not given away and
\* cannot give away yet (controller.go:253, the watchdog), whatever answers are
\* late and whatever renewals outlive their callers; the one exception is the
\* destruction of a failed create whose lease an earlier renewal has cut short.
WorkIsCovered == \A w \in Worker : workers[w].pc \in Active => Covered(w) \/ Overtaken(w)

\* Two controllers never work on the operation at the same time, although the
\* Kubernetes API would let them, with the same exception.
OneWorker ==
    \A v, w \in Worker :
        workers[v].pc \in Active /\ workers[w].pc \in Active => v = w \/ Overtaken(v) \/ Overtaken(w)
=============================================================================
