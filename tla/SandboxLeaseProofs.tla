------------------------- MODULE SandboxLeaseProofs -------------------------
(***************************************************************************)
(* Work under a lease is covered by the lease, for any number of workers,  *)
(* any lease, renewal interval, margin and slack, and for all time.        *)
(*                                                                         *)
(* What TLC checks is not inductive: that a worker is covered now rests on *)
(* every answer it may yet receive and on every renewal it no longer waits *)
(* for.  The inductive invariant Inv says what an answer promises until it *)
(* is seen (under the lease it was given for, a deadline the database      *)
(* respects; under any other, a deadline that has passed), that a renewal  *)
(* the worker waits for cannot shorten the lease below its deadline, and   *)
(* that no other renewal carries the token of the work it executes.        *)
(***************************************************************************)
EXTENDS SandboxLease, TLAPS

\* Work in progress has not outlived the watchdog, and holds the lease, by a
\* deadline no later than the expiry, unless an earlier renewal has cut it short.
CoveredBy(w) ==
    workers[w].pc \in Active =>
        /\ now <= workers[w].deadline - Margin + Slack
        /\ \/ Overtaken(w)
           \/ /\ job.owner = w /\ job.token = workers[w].token
              /\ workers[w].deadline <= job.expires

\* A call under way began in the past, and was read in the past.
BegunBy(w) ==
    /\ calls[w].stage \in {"sent", "read"} => calls[w].started <= now
    /\ calls[w].stage = "read" => calls[w].sampled <= now

\* No deadline is further ahead than a lease counted from now, nor further than
\* what the renewal that is awaited will write.
AheadBy(w) ==
    /\ workers[w].pc \in Active => workers[w].deadline <= now + Lease
    /\ workers[w].pc \in Active /\ calls[w].stage = "read" =>
         workers[w].deadline <= calls[w].sampled + Lease
    /\ calls[w].stage = "granted" => calls[w].deadline <= now + Lease

\* A granted answer is true of the lease it names; if that lease is gone, its
\* deadline has passed.
PromisedTo(w) ==
    calls[w].stage = "granted" =>
        \/ calls[w].token \in cut[w]
        \/ IF job.owner = w /\ job.token = calls[w].token
             THEN calls[w].deadline <= job.expires
             ELSE calls[w].deadline <= now

\* A worker that waits for nothing has no call, and a claim is read and applied at
\* once.
QuietAt(w) ==
    /\ workers[w].pc \in {"idle", "failed"} => calls[w].stage = "none"
    /\ workers[w].pc = "claiming" => calls[w].stage # "read"

\* No renewal that was given up carries the token or has cut its lease.
Undisturbed(w, token) ==
    token \notin cut[w] /\ (stray[w].stage # "none" => stray[w].token # token)

\* The token an operation is executed under is undisturbed, and renewals are sent
\* for the token the worker holds.
FirstHand(w) ==
    /\ workers[w].pc \in {"refreshing", "working"} => Undisturbed(w, workers[w].token)
    /\ workers[w].pc = "claiming" /\ calls[w].stage = "granted" => Undisturbed(w, calls[w].token)
    /\ workers[w].pc # "claiming" /\ calls[w].stage \in {"sent", "read", "granted"} =>
         calls[w].token = workers[w].token

\* Every token in circulation was given out.
KnownBy(w) ==
    /\ stray[w].token <= job.token /\ calls[w].token <= job.token /\ workers[w].token <= job.token
    /\ \A t \in cut[w] : t <= job.token

Share(w) ==
    /\ CoveredBy(w) /\ BegunBy(w) /\ AheadBy(w) /\ PromisedTo(w) /\ QuietAt(w)
    /\ FirstHand(w) /\ KnownBy(w)

Inv == TypeOK /\ \A w \in Worker : Share(w)

-----------------------------------------------------------------------------
(* Records the actions store have the types of their rows. *)

\* What the actions put into calls and workers is typed.
LEMMA RowsTyped ==
    ASSUME TypeOK
    PROVE  /\ NoCall \in CallRow /\ Refused \in CallRow /\ Resting \in WorkerRow
           /\ \A n \in Nat : Sent(n) \in CallRow
           /\ \A w \in Worker : Read(calls[w]) \in CallRow /\ Read(stray[w]) \in CallRow
           /\ \A n \in Nat, d \in Int : Granted(n, d) \in CallRow
           /\ \A n, e, s \in Nat, x \in Nat : databaseLeaseWindow(e + x, n, s) \in Int
  BY DEF TypeOK, NoCall, Refused, Resting, CallRow, WorkerRow, Phase, Sent, Read, Granted,
         databaseLeaseWindow

\* Every action keeps the columns' types, and an unleased job without an expiry.
LEMMA TypeStep == TypeOK /\ [Next]_vars => TypeOK'
<1> SUFFICES ASSUME TypeOK, [Next]_vars
             PROVE  TypeOK'
  OBVIOUS
<1> USE WorkerAssumption, TimeAssumption DEF TypeOK
<1>1. \A w \in Worker : calls[w] \in CallRow /\ stray[w] \in CallRow /\ workers[w] \in WorkerRow
  OBVIOUS
<1>2. \A w \in Worker :
        /\ calls[w].token \in Nat /\ calls[w].started \in Nat
        /\ calls[w].sampled \in Nat /\ calls[w].deadline \in Int
        /\ stray[w].sampled \in Nat /\ stray[w].token \in Nat
        /\ workers[w].pc \in Phase /\ workers[w].token \in Nat
        /\ workers[w].deadline \in Int /\ workers[w].claimed \in Int
  BY <1>1 DEF CallRow, WorkerRow
<1>3. ASSUME NEW w \in Worker, NEW pc \in Phase, NEW n \in Nat, NEW d \in Int, NEW c \in Int,
             Become(w, pc, n, d, c)
      PROVE  workers' \in [Worker -> WorkerRow]
  <2>1. [pc |-> pc, token |-> n, deadline |-> d, claimed |-> c] \in WorkerRow
    BY DEF WorkerRow
  <2> QED BY <1>3, <2>1 DEF Become
<1>4. ASSUME NEW w \in Worker, Report(w)
      PROVE  /\ job' \in [owner : Worker \cup {None}, token : Nat, expires : Nat]
             /\ job'.owner = None => job'.expires = 0
  BY <1>4 DEF Report, Cleared, NoLease
<1>5. ASSUME NEW w \in Worker, NEW call \in CallRow, Renewable(w, call), Extend(call)
      PROVE  /\ job' \in [owner : Worker \cup {None}, token : Nat, expires : Nat]
             /\ job'.owner = None => job'.expires = 0
  BY <1>5 DEF Renewable, Extend, CallRow
<1>6. ASSUME NEW w \in Worker, StartClaim(w)
      PROVE  TypeOK'
  <2>1. workers' \in [Worker -> WorkerRow]
    BY <1>3, <1>6 DEF StartClaim, Phase
  <2> QED BY <1>6, <2>1, RowsTyped DEF StartClaim
<1>7. ASSUME NEW w \in Worker, ServeClaim(w)
      PROVE  TypeOK'
  <2>1. databaseLeaseWindow(now + Lease, now, calls[w].started) \in Int
    BY <1>2, RowsTyped
  <2>2. Granted(job.token + 1, databaseLeaseWindow(now + Lease, now, calls[w].started)) \in CallRow
    BY <2>1, RowsTyped
  <2>3. calls' \in [Worker -> CallRow]
    BY <1>7, <2>2, RowsTyped DEF ServeClaim
  <2>4. /\ job' \in [owner : Worker \cup {None}, token : Nat, expires : Nat]
        /\ job'.owner = None => job'.expires = 0
    BY <1>7 DEF ServeClaim
  <2> QED BY <1>7, <2>3, <2>4 DEF ServeClaim
<1>8. ASSUME NEW w \in Worker, StartRenew(w)
      PROVE  TypeOK'
  BY <1>2, <1>8, RowsTyped DEF StartRenew
<1>9. ASSUME NEW w \in Worker, ReadClock(w)
      PROVE  TypeOK'
  BY <1>9, RowsTyped DEF ReadClock
<1>10. ASSUME NEW w \in Worker, ApplyRenew(w)
       PROVE  TypeOK'
  <2>1. databaseLeaseWindow(calls[w].sampled + Lease, now, calls[w].started) \in Int
    BY <1>2, RowsTyped
  <2>2. Granted(calls[w].token, databaseLeaseWindow(calls[w].sampled + Lease, now, calls[w].started))
          \in CallRow
    BY <1>2, <2>1, RowsTyped
  <2>3. calls' \in [Worker -> CallRow]
    BY <1>10, <2>2, RowsTyped DEF ApplyRenew
  <2>4. /\ job' \in [owner : Worker \cup {None}, token : Nat, expires : Nat]
        /\ job'.owner = None => job'.expires = 0
    BY <1>1, <1>5, <1>10 DEF ApplyRenew
  <2> QED BY <1>10, <2>3, <2>4 DEF ApplyRenew
<1>11. ASSUME NEW w \in Worker, ApplyStray(w)
       PROVE  TypeOK'
  <2>1. /\ job' \in [owner : Worker \cup {None}, token : Nat, expires : Nat]
        /\ job'.owner = None => job'.expires = 0
    BY <1>1, <1>5, <1>11 DEF ApplyStray
  <2> QED BY <1>11, <2>1, RowsTyped DEF ApplyStray
<1>12. ASSUME NEW w \in Worker, Abandon(w)
       PROVE  calls' \in [Worker -> CallRow] /\ stray' \in [Worker -> CallRow]
  BY <1>1, <1>12, RowsTyped DEF Abandon
<1>13. ASSUME NEW w \in Worker, Proceed(w)
       PROVE  TypeOK'
  <2>1. workers' \in [Worker -> WorkerRow]
    <3>1. CASE workers[w].pc \in {"claiming", "refreshing"}
      BY <1>2, <1>3, <1>13, <3>1 DEF Proceed, Phase
    <3>2. CASE workers[w].pc = "renewing"
      BY <1>2, <1>3, <1>13, <3>2 DEF Proceed, Phase
    <3>3. CASE workers[w].pc \notin {"claiming", "refreshing", "renewing"}
      BY <1>2, <1>3, <1>13, <3>3 DEF Proceed
    <3> QED BY <3>1, <3>2, <3>3
  <2> QED BY <1>13, <2>1, RowsTyped DEF Proceed
<1>14. ASSUME NEW w \in Worker, Refresh(w)
       PROVE  TypeOK'
  <2>1. workers' \in [Worker -> WorkerRow]
    BY <1>2, <1>3, <1>14 DEF Refresh, Phase
  <2> QED BY <1>2, <1>14, <2>1, RowsTyped DEF Refresh
<1>15. ASSUME NEW w \in Worker, GiveUp(w)
       PROVE  TypeOK'
  <2>1. /\ job' \in [owner : Worker \cup {None}, token : Nat, expires : Nat]
        /\ job'.owner = None => job'.expires = 0
    BY <1>4, <1>15 DEF GiveUp
  <2> QED BY <1>15, <2>1, RowsTyped DEF GiveUp, Rest
<1>16. ASSUME NEW w \in Worker, Watchdog(w)
       PROVE  TypeOK'
  BY <1>12, <1>16, RowsTyped DEF Watchdog, Rest
<1>17. ASSUME NEW w \in Worker, RefreshTimeout(w)
       PROVE  TypeOK'
  <2>1. /\ job' \in [owner : Worker \cup {None}, token : Nat, expires : Nat]
        /\ job'.owner = None => job'.expires = 0
    BY <1>4, <1>17 DEF RefreshTimeout
  <2> QED BY <1>12, <1>17, <2>1, RowsTyped DEF RefreshTimeout, Rest
<1>18. ASSUME NEW w \in Worker, EndWork(w)
       PROVE  TypeOK'
  <2>1. /\ job' \in [owner : Worker \cup {None}, token : Nat, expires : Nat]
        /\ job'.owner = None => job'.expires = 0
    BY <1>4, <1>18 DEF EndWork
  <2>2. workers' \in [Worker -> WorkerRow]
    <3>1. CASE Rest(w)
      BY <3>1, RowsTyped DEF Rest
    <3>2. CASE Become(w, "failed", workers[w].token, workers[w].deadline, workers[w].claimed)
      BY <1>2, <1>3, <3>2 DEF Phase
    <3> QED BY <1>18, <3>1, <3>2 DEF EndWork
  <2> QED BY <1>12, <1>18, <2>1, <2>2 DEF EndWork
<1>19. ASSUME NEW w \in Worker, RenewToDestroy(w)
       PROVE  TypeOK'
  <2>1. /\ job' \in [owner : Worker \cup {None}, token : Nat, expires : Nat]
        /\ job'.owner = None => job'.expires = 0
    BY <1>4, <1>19 DEF RenewToDestroy
  <2>2. workers' \in [Worker -> WorkerRow]
    <3>1. CASE Rest(w)
      BY <3>1, RowsTyped DEF Rest
    <3>2. CASE Become(w, "renewing", workers[w].token, workers[w].deadline, workers[w].claimed)
      BY <1>2, <1>3, <3>2 DEF Phase
    <3> QED BY <1>19, <3>1, <3>2 DEF RenewToDestroy
  <2>3. calls' \in [Worker -> CallRow]
    BY <1>2, <1>19, RowsTyped DEF RenewToDestroy
  <2> QED BY <1>19, <2>1, <2>2, <2>3 DEF RenewToDestroy
<1>20. CASE Tick
  BY <1>20 DEF Tick
<1>21. CASE UNCHANGED vars
  BY <1>21 DEF vars
<1> QED
  BY <1>6, <1>7, <1>8, <1>9, <1>10, <1>11, <1>13, <1>14, <1>15, <1>16, <1>17, <1>18, <1>19,
     <1>20, <1>21 DEF Next

-----------------------------------------------------------------------------
(* What other workers do to a worker's share of Inv. *)

\* Nothing of a worker's own has changed.
Aside(v) ==
    /\ now' = now /\ workers'[v] = workers[v] /\ calls'[v] = calls[v]
    /\ stray'[v] = stray[v] /\ cut'[v] = cut[v]

\* A worker that takes no part keeps its share of Inv while the lease is kept.
LEMMA Bystander ==
    ASSUME NEW v \in Worker, Aside(v), job' = job, Share(v)
    PROVE  Share(v)'
  BY DEF Aside, Share, CoveredBy, BegunBy, AheadBy, PromisedTo, QuietAt, FirstHand, KnownBy,
         Undisturbed, Overtaken

\* A worker keeps its share when another one drops, renews or takes the lease,
\* provided the lease is not its own or has expired.
LEMMA Outsider ==
    ASSUME TypeOK, TypeOK', NEW v \in Worker, Aside(v),
           job.owner # v \/ job.expires <= now, job'.owner # v, job'.token >= job.token,
           Share(v)
    PROVE  Share(v)'
<1>1. /\ job.expires \in Int /\ now \in Int /\ calls[v].deadline \in Int
      /\ workers[v].deadline \in Int
      /\ job.token \in Int /\ job'.token \in Int /\ cut[v] \in SUBSET Nat
      /\ stray[v].token \in Int /\ calls[v].token \in Int /\ workers[v].token \in Int
  BY DEF TypeOK, CallRow, WorkerRow
<1>2. CoveredBy(v)'
  BY <1>1, TimeAssumption, MarginAssumption DEF Aside, Share, CoveredBy, Overtaken
<1>3. PromisedTo(v)'
  BY <1>1 DEF Aside, Share, PromisedTo
<1>4. BegunBy(v)' /\ AheadBy(v)' /\ QuietAt(v)' /\ FirstHand(v)'
  BY DEF Aside, Share, BegunBy, AheadBy, QuietAt, FirstHand, Undisturbed
<1>5. KnownBy(v)'
  BY <1>1 DEF Aside, Share, KnownBy
<1> QED BY <1>2, <1>3, <1>4, <1>5 DEF Share

-----------------------------------------------------------------------------
(* The inductive step. *)

\* Every step keeps Inv, in whatever order renewals are applied.
LEMMA InvStep ==
    ASSUME Inv, [Next]_vars
    PROVE  Inv'
<1> USE WorkerAssumption, TimeAssumption, MarginAssumption
<1>1. TypeOK /\ TypeOK'
  BY TypeStep DEF Inv
<1>2. \A v \in Worker : Share(v)
  BY DEF Inv
<1>3. SUFFICES \A v \in Worker : Share(v)'
  BY <1>1 DEF Inv
<1>4. /\ now \in Nat /\ job.expires \in Nat /\ job.token \in Nat
      /\ now' \in Nat /\ job'.expires \in Nat /\ job'.token \in Nat
      /\ \A v \in Worker : /\ workers[v].deadline \in Int /\ calls[v].deadline \in Int
                           /\ calls[v].started \in Nat /\ calls[v].sampled \in Nat
                           /\ stray[v].sampled \in Nat /\ cut[v] \in SUBSET Nat
                           /\ stray[v].token \in Nat /\ calls[v].token \in Nat
                           /\ workers[v].token \in Nat
  BY <1>1 DEF TypeOK, WorkerRow, CallRow
\* The parts of a worker's share, one by one.
<1>5. ASSUME NEW v \in Worker
      PROVE  /\ CoveredBy(v) /\ BegunBy(v) /\ AheadBy(v) /\ PromisedTo(v) /\ QuietAt(v)
             /\ FirstHand(v) /\ KnownBy(v)
  BY <1>2 DEF Share
<1>6. ASSUME NEW w \in Worker, NEW v \in Worker, v # w, Report(w) \/ job' = job, Aside(v)
      PROVE  Share(v)'
  <2>1. CASE job' = job
    BY <1>2, <1>6, <2>1, Bystander
  <2>2. CASE job' # job
    <3>1. job.owner = w /\ job'.owner = None /\ job'.token = job.token
      BY <1>6, <2>2 DEF Report, Cleared, NoLease
    <3>2. job'.owner # v /\ job'.token >= job.token
      BY <1>4, <3>1
    <3> QED BY <1>1, <1>2, <1>6, <3>1, <3>2, Outsider
  <2> QED BY <2>1, <2>2
\* A renewal changes nothing but the expiry of the worker's own lease.
<1>7. ASSUME NEW w \in Worker, NEW call \in CallRow, Renewable(w, call), Extend(call)
      PROVE  /\ job.owner = w /\ job.token = call.token /\ job'.owner = w /\ job'.token = job.token
             /\ job'.expires = call.sampled + Lease
  BY <1>7 DEF Renewable, Extend
\* A resting worker without a call keeps only what concerns tokens.
<1>8. ASSUME NEW w \in Worker, workers'[w].pc = "idle", calls'[w].stage = "none", KnownBy(w)'
      PROVE  Share(w)'
  BY <1>8 DEF Share, CoveredBy, BegunBy, AheadBy, PromisedTo, QuietAt, FirstHand, Active
<1>9. ASSUME NEW w \in Worker, StartClaim(w)
      PROVE  \A v \in Worker : Share(v)'
  <2>1. /\ workers'[w].pc = "claiming" /\ calls'[w].stage = "sent" /\ calls'[w].started = now
        /\ workers'[w].token = 0 /\ calls'[w].token = 0
        /\ now' = now /\ job' = job /\ stray' = stray /\ cut' = cut
    BY <1>1, <1>9 DEF StartClaim, Become, Sent, TypeOK
  <2>2. KnownBy(w)'
    BY <1>4, <1>5, <2>1 DEF KnownBy
  <2>3. Share(w)'
    BY <1>4, <2>1, <2>2 DEF Share, CoveredBy, BegunBy, AheadBy, PromisedTo, QuietAt, FirstHand,
                            Active
  <2>4. \A v \in Worker \ {w} : Aside(v)
    BY <1>1, <1>9 DEF StartClaim, Become, Aside, TypeOK
  <2> QED BY <1>6, <2>1, <2>3, <2>4
<1>10. ASSUME NEW w \in Worker, ServeClaim(w)
       PROVE  \A v \in Worker : Share(v)'
  <2>1. /\ workers' = workers /\ now' = now /\ stray' = stray /\ cut' = cut
        /\ workers[w].pc = "claiming" /\ calls[w].started <= now
        /\ \A v \in Worker \ {w} : Aside(v)
    BY <1>1, <1>5, <1>10 DEF ServeClaim, BegunBy, Aside, TypeOK
  <2>2. CASE job' = job
    <3>1. calls'[w] = Refused \/ job' # job
      BY <1>1, <1>10, <1>4 DEF ServeClaim, TypeOK
    <3>2. calls'[w].stage = "refused" /\ calls'[w].token = 0
      BY <2>2, <3>1 DEF Refused
    <3>3. KnownBy(w)'
      BY <1>4, <1>5, <2>1, <2>2, <3>2 DEF KnownBy
    <3>4. Share(w)'
      BY <2>1, <2>2, <3>2, <3>3 DEF Share, CoveredBy, BegunBy, AheadBy, PromisedTo, QuietAt,
                                    FirstHand, Active
    <3> QED BY <1>6, <2>1, <2>2, <3>4
  <2>3. CASE job' # job
    <3>1. /\ job.owner = None \/ job.expires <= now
          /\ job' = [owner |-> w, token |-> job.token + 1, expires |-> now + Lease]
          /\ calls'[w] = Granted(job.token + 1,
                 databaseLeaseWindow(now + Lease, now, calls[w].started))
      BY <1>1, <1>10, <2>3 DEF ServeClaim, TypeOK
    <3>2. /\ calls'[w].stage = "granted" /\ calls'[w].token = job.token + 1
          /\ calls'[w].deadline = calls[w].started + ((now + Lease) - now)
      BY <3>1 DEF Granted, databaseLeaseWindow
    <3>3. calls'[w].deadline <= job'.expires /\ calls'[w].deadline <= now' + Lease
      BY <1>4, <2>1, <3>1, <3>2
    <3>4. job'.owner = w /\ job'.token = job.token + 1
      BY <3>1
    <3>5. KnownBy(w)'
      BY <1>4, <1>5, <2>1, <3>2, <3>4 DEF KnownBy
    <3>6. Undisturbed(w, calls[w].token)'
      BY <1>4, <1>5, <2>1, <3>2 DEF KnownBy, Undisturbed
    <3>7. Share(w)'
      BY <2>1, <3>2, <3>3, <3>4, <3>5, <3>6
         DEF Share, CoveredBy, BegunBy, AheadBy, PromisedTo, QuietAt, FirstHand, Active
    <3>8. ASSUME NEW v \in Worker \ {w}
          PROVE  Share(v)'
      <4>1. job.owner # v \/ job.expires <= now
        BY <3>1
      <4>2. job'.owner # v /\ job'.token >= job.token
        BY <1>4, <3>4
      <4> QED BY <1>1, <1>2, <2>1, <4>1, <4>2, Outsider
    <3> QED BY <3>7, <3>8
  <2> QED BY <2>2, <2>3
<1>11. ASSUME NEW w \in Worker, StartRenew(w)
       PROVE  \A v \in Worker : Share(v)'
  <2>1. /\ workers' = workers /\ now' = now /\ job' = job /\ workers[w].pc \in Active
        /\ stray' = stray /\ cut' = cut
        /\ calls'[w].stage = "sent" /\ calls'[w].started = now
        /\ calls'[w].token = workers[w].token
        /\ \A v \in Worker \ {w} : Aside(v)
    BY <1>1, <1>11 DEF StartRenew, Sent, Aside, TypeOK
  <2>2. CoveredBy(w)' /\ BegunBy(w)' /\ AheadBy(w)' /\ PromisedTo(w)' /\ QuietAt(w)'
    BY <1>4, <1>5, <2>1 DEF CoveredBy, Overtaken, BegunBy, AheadBy, PromisedTo, QuietAt, Active
  <2>3. FirstHand(w)' /\ KnownBy(w)'
    BY <1>5, <2>1 DEF FirstHand, Undisturbed, KnownBy, Active
  <2> QED BY <1>6, <2>1, <2>2, <2>3 DEF Share
<1>12. ASSUME NEW w \in Worker, ReadClock(w)
       PROVE  \A v \in Worker : Share(v)'
  <2>1. /\ workers' = workers /\ now' = now /\ job' = job /\ cut' = cut
        /\ \A v \in Worker \ {w} : Aside(v)
    BY <1>1, <1>12 DEF ReadClock, Aside, TypeOK
  <2>2. ASSUME workers[w].pc # "claiming", calls[w].stage = "sent",
               calls'[w] = Read(calls[w]), stray' = stray
        PROVE  Share(w)'
    <3>1. /\ calls'[w].stage = "read" /\ calls'[w].token = calls[w].token
          /\ calls'[w].started = calls[w].started /\ calls'[w].sampled = now
      BY <2>2 DEF Read
    <3>2. CoveredBy(w)' /\ BegunBy(w)' /\ AheadBy(w)' /\ PromisedTo(w)' /\ QuietAt(w)'
      BY <1>4, <1>5, <2>1, <2>2, <3>1
         DEF CoveredBy, Overtaken, BegunBy, AheadBy, PromisedTo, QuietAt
    <3>3. FirstHand(w)' /\ KnownBy(w)'
      BY <1>5, <2>1, <2>2, <3>1 DEF FirstHand, Undisturbed, KnownBy
    <3> QED BY <3>2, <3>3 DEF Share
  <2>3. ASSUME stray[w].stage = "sent", stray'[w] = Read(stray[w]), calls' = calls
        PROVE  Share(w)'
    <3>1. stray'[w].stage = "read" /\ stray'[w].token = stray[w].token
      BY <2>3 DEF Read
    <3>2. CoveredBy(w)' /\ BegunBy(w)' /\ AheadBy(w)' /\ PromisedTo(w)' /\ QuietAt(w)'
      BY <1>5, <2>1, <2>3 DEF CoveredBy, Overtaken, BegunBy, AheadBy, PromisedTo, QuietAt
    <3>3. FirstHand(w)' /\ KnownBy(w)'
      BY <1>5, <2>1, <2>3, <3>1 DEF FirstHand, Undisturbed, KnownBy
    <3> QED BY <3>2, <3>3 DEF Share
  <2>4. Share(w)'
    BY <1>1, <1>12, <2>2, <2>3 DEF ReadClock, TypeOK
  <2> QED BY <1>6, <2>1, <2>4
<1>13. ASSUME NEW w \in Worker, NEW v \in Worker \ {w}, job.owner = w, job'.owner = w,
              job'.token = job.token, Aside(v)
       PROVE  Share(v)'
  BY <1>1, <1>2, <1>4, <1>13, Outsider
<1>14. ASSUME NEW w \in Worker, ApplyRenew(w)
       PROVE  \A v \in Worker : Share(v)'
  <2>1. /\ workers' = workers /\ now' = now /\ stray' = stray
        /\ calls[w].stage = "read" /\ calls[w] \in CallRow
        /\ calls[w].started <= now /\ calls[w].sampled <= now
        /\ \A v \in Worker \ {w} : Aside(v)
    BY <1>1, <1>5, <1>14 DEF ApplyRenew, BegunBy, Aside, TypeOK
  <2>2. workers[w].pc # "claiming" /\ calls[w].token = workers[w].token
    BY <1>5, <2>1 DEF QuietAt, FirstHand
  <2>3. CASE Renewable(w, calls[w])
    <3>1. /\ Extend(calls[w])
          /\ calls'[w] = Granted(calls[w].token,
                 databaseLeaseWindow(calls[w].sampled + Lease, now, calls[w].started))
          /\ cut'[w] = cut[w] \ {calls[w].token}
      BY <1>1, <1>14, <2>3 DEF ApplyRenew, TypeOK
    <3>2. /\ job.owner = w /\ job.token = calls[w].token /\ job'.owner = w /\ job'.token = job.token
          /\ job'.expires = calls[w].sampled + Lease
      BY <1>7, <2>1, <2>3, <3>1
    <3>3. /\ calls'[w].stage = "granted" /\ calls'[w].token = calls[w].token
          /\ calls'[w].deadline = calls[w].started + ((calls[w].sampled + Lease) - now)
      BY <3>1 DEF Granted, databaseLeaseWindow
    <3>4. calls'[w].deadline <= job'.expires /\ calls'[w].deadline <= now + Lease
      BY <1>4, <2>1, <3>2, <3>3
    \* What the renewal writes is no earlier than the deadline the worker knows.
    <3>5. CoveredBy(w)'
      BY <1>5, <2>1, <2>2, <3>2 DEF CoveredBy, AheadBy
    <3>6. BegunBy(w)' /\ AheadBy(w)' /\ PromisedTo(w)' /\ QuietAt(w)'
      BY <1>5, <2>1, <2>2, <3>2, <3>3, <3>4 DEF BegunBy, AheadBy, PromisedTo, QuietAt
    <3>7. FirstHand(w)' /\ KnownBy(w)'
      BY <1>5, <2>1, <2>2, <3>1, <3>2, <3>3 DEF FirstHand, Undisturbed, KnownBy
    <3>8. \A v \in Worker \ {w} : Share(v)'
      BY <1>13, <2>1, <3>2
    <3> QED BY <3>5, <3>6, <3>7, <3>8 DEF Share
  <2>4. CASE ~Renewable(w, calls[w])
    <3>1. job' = job /\ cut' = cut /\ calls'[w].stage = "refused" /\ calls'[w].token = 0
      BY <1>1, <1>14, <2>4 DEF ApplyRenew, Refused, TypeOK
    <3>2. CoveredBy(w)' /\ BegunBy(w)' /\ AheadBy(w)' /\ PromisedTo(w)' /\ QuietAt(w)'
      BY <1>5, <2>1, <2>2, <3>1 DEF CoveredBy, Overtaken, BegunBy, AheadBy, PromisedTo, QuietAt
    <3>3. FirstHand(w)' /\ KnownBy(w)'
      BY <1>4, <1>5, <2>1, <2>2, <3>1 DEF FirstHand, Undisturbed, KnownBy
    <3> QED BY <1>6, <2>1, <3>1, <3>2, <3>3 DEF Share
  <2> QED BY <2>3, <2>4
<1>15. ASSUME NEW w \in Worker, ApplyStray(w)
       PROVE  \A v \in Worker : Share(v)'
  <2>1. /\ workers' = workers /\ now' = now /\ calls' = calls /\ stray[w] \in CallRow
        /\ stray[w].stage = "read" /\ stray'[w].stage = "none" /\ stray'[w].token = 0
        /\ \A v \in Worker \ {w} : Aside(v)
    BY <1>1, <1>15 DEF ApplyStray, NoCall, Aside, TypeOK
  <2>2. BegunBy(w)' /\ AheadBy(w)' /\ QuietAt(w)'
    BY <1>5, <2>1 DEF BegunBy, AheadBy, QuietAt
  <2>3. CASE ~Renewable(w, stray[w])
    <3>1. job' = job /\ cut' = cut
      BY <1>15, <2>3 DEF ApplyStray
    <3>2. CoveredBy(w)' /\ PromisedTo(w)'
      BY <1>5, <2>1, <3>1 DEF CoveredBy, Overtaken, PromisedTo
    <3>3. FirstHand(w)' /\ KnownBy(w)'
      BY <1>4, <1>5, <2>1, <3>1 DEF FirstHand, Undisturbed, KnownBy
    <3> QED BY <1>6, <2>1, <2>2, <3>1, <3>2, <3>3 DEF Share
  <2>4. CASE Renewable(w, stray[w])
    <3>1. /\ job.owner = w /\ job.token = stray[w].token /\ job'.owner = w /\ job'.token = job.token
          /\ job'.expires = stray[w].sampled + Lease
      BY <1>7, <1>15, <2>1, <2>4 DEF ApplyStray
    \* Either the lease is not shortened, or the token is marked.
    <3>2. \/ cut'[w] = cut[w] /\ job'.expires >= job.expires
          \/ cut'[w] = cut[w] \cup {job.token}
      BY <1>1, <1>4, <1>15, <2>4, <3>1 DEF ApplyStray, TypeOK
    \* Work that is executed, or about to be, carries another token.
    <3>3. FirstHand(w)' /\ KnownBy(w)'
      BY <1>4, <1>5, <2>1, <3>1, <3>2 DEF FirstHand, Undisturbed, KnownBy
    <3>4. CoveredBy(w)'
      <4>1. CASE workers[w].pc = "working"
        <5>1. ~(job.token = workers[w].token)
          BY <1>5, <2>1, <3>1, <4>1 DEF FirstHand, Undisturbed
        <5> QED BY <1>5, <2>1, <4>1, <5>1 DEF CoveredBy, Overtaken, Active
      <4>2. CASE workers[w].pc = "destroying"
        BY <1>4, <1>5, <2>1, <3>1, <3>2, <4>2 DEF CoveredBy, Overtaken
      <4> QED BY <2>1, <4>1, <4>2 DEF CoveredBy, Active
    <3>5. PromisedTo(w)'
      BY <1>4, <1>5, <2>1, <3>1, <3>2 DEF PromisedTo
    <3>6. \A v \in Worker \ {w} : Share(v)'
      BY <1>13, <2>1, <3>1
    <3> QED BY <2>2, <3>3, <3>4, <3>5, <3>6 DEF Share
  <2> QED BY <2>3, <2>4
<1>16. ASSUME NEW w \in Worker, Proceed(w)
       PROVE  \A v \in Worker : Share(v)'
  <2>1. /\ now' = now /\ job' = job /\ stray' = stray /\ cut' = cut
        /\ calls[w].stage = "granted" /\ calls'[w].stage = "none" /\ calls'[w].token = 0
        /\ leaseCoversNextRenew(calls[w].deadline)
    BY <1>1, <1>16 DEF Proceed, NoCall, TypeOK
  <2>2. workers[w].pc \in Phase \ {"idle", "failed"} /\ workers[w].claimed \in Int
    BY <1>1, <1>5, <2>1 DEF QuietAt, TypeOK, WorkerRow
  <2>3. \E pc \in Phase, d \in Int :
          /\ Become(w, pc, calls[w].token, calls[w].deadline, d)
          /\ \/ pc = "working" /\ workers[w].pc \in {"claiming", "refreshing", "working"}
             \/ pc = "destroying"
    <3>1. CASE workers[w].pc \in {"claiming", "refreshing"}
      BY <1>4, <1>16, <3>1 DEF Proceed, Phase
    <3>2. CASE workers[w].pc = "renewing"
      BY <1>4, <1>16, <3>2 DEF Proceed, Phase
    <3>3. CASE workers[w].pc \in Active
      BY <1>4, <1>16, <2>2, <3>3 DEF Proceed, Phase, Active
    <3> QED BY <2>2, <3>1, <3>2, <3>3 DEF Phase, Active
  <2>4. /\ workers'[w].token = calls[w].token /\ workers'[w].deadline = calls[w].deadline
        /\ \/ workers'[w].pc = "working" /\ workers[w].pc \in {"claiming", "refreshing", "working"}
           \/ workers'[w].pc = "destroying"
        /\ \A v \in Worker \ {w} : workers'[v] = workers[v]
    BY <1>1, <2>3 DEF Become, TypeOK
  <2>5. \A v \in Worker \ {w} : Aside(v)
    BY <1>1, <1>16, <2>4 DEF Proceed, Aside, TypeOK
  <2>6. calls[w].deadline - now - Margin > 0
    BY <1>4, <2>1 DEF leaseCoversNextRenew, leaseSafetyDelay
  <2>7. workers'[w].pc = "working" => Undisturbed(w, calls[w].token)
    BY <1>5, <2>1, <2>4 DEF FirstHand
  <2>8. \/ calls[w].token \in cut[w]
        \/ job.owner = w /\ job.token = calls[w].token /\ calls[w].deadline <= job.expires
    BY <1>4, <1>5, <2>1, <2>6 DEF PromisedTo
  <2>9. CoveredBy(w)'
    BY <1>4, <2>1, <2>4, <2>6, <2>7, <2>8 DEF CoveredBy, Overtaken, Undisturbed
  <2>10. BegunBy(w)' /\ AheadBy(w)' /\ PromisedTo(w)' /\ QuietAt(w)'
    BY <1>5, <2>1, <2>4 DEF BegunBy, AheadBy, PromisedTo, QuietAt
  <2>11. FirstHand(w)' /\ KnownBy(w)'
    BY <1>4, <1>5, <2>1, <2>4, <2>7 DEF FirstHand, Undisturbed, KnownBy
  <2> QED BY <1>6, <2>1, <2>5, <2>9, <2>10, <2>11 DEF Share
<1>17. ASSUME NEW w \in Worker, Refresh(w)
       PROVE  \A v \in Worker : Share(v)'
  <2>1. /\ now' = now /\ job' = job /\ stray' = stray /\ cut' = cut
        /\ workers[w].pc = "claiming" /\ calls[w].stage = "granted"
        /\ workers'[w].pc = "refreshing" /\ workers'[w].token = calls[w].token
        /\ calls'[w].stage = "sent" /\ calls'[w].started = now /\ calls'[w].token = calls[w].token
        /\ \A v \in Worker \ {w} : Aside(v)
    BY <1>1, <1>17 DEF Refresh, Become, Sent, Aside, TypeOK
  <2>2. CoveredBy(w)' /\ BegunBy(w)' /\ AheadBy(w)' /\ PromisedTo(w)' /\ QuietAt(w)'
    BY <1>4, <2>1 DEF CoveredBy, BegunBy, AheadBy, PromisedTo, QuietAt, Active
  <2>3. FirstHand(w)' /\ KnownBy(w)'
    BY <1>5, <2>1 DEF FirstHand, Undisturbed, KnownBy
  <2> QED BY <1>6, <2>1, <2>2, <2>3 DEF Share
\* What every way to rest has in common.
<1>18. ASSUME NEW w \in Worker, Rest(w), calls'[w] = NoCall, now' = now, cut' = cut,
              job' = job \/ Report(w),
              stray'[w].token \in {stray[w].token, calls[w].token},
              \A v \in Worker \ {w} : calls'[v] = calls[v] /\ stray'[v] = stray[v]
       PROVE  \A v \in Worker : Share(v)'
  <2>1. /\ workers'[w].pc = "idle" /\ calls'[w].stage = "none"
        /\ workers'[w].token = 0 /\ calls'[w].token = 0
        /\ \A v \in Worker \ {w} : Aside(v)
    BY <1>1, <1>18 DEF Rest, Resting, NoCall, Aside, TypeOK
  <2>2. job'.token = job.token
    BY <1>18 DEF Report, Cleared, NoLease
  <2>3. KnownBy(w)'
    BY <1>4, <1>5, <1>18, <2>1, <2>2 DEF KnownBy
  <2> QED BY <1>6, <1>8, <1>18, <2>1, <2>3
<1>19. ASSUME NEW w \in Worker, Abandon(w)
       PROVE  /\ calls'[w] = NoCall /\ stray'[w].token \in {stray[w].token, calls[w].token}
              /\ \A v \in Worker \ {w} : calls'[v] = calls[v] /\ stray'[v] = stray[v]
  BY <1>1, <1>19 DEF Abandon, TypeOK
<1>20. ASSUME NEW w \in Worker, GiveUp(w)
       PROVE  \A v \in Worker : Share(v)'
  <2>1. calls'[w] = NoCall /\ stray' = stray /\ \A v \in Worker \ {w} : calls'[v] = calls[v]
    BY <1>1, <1>20 DEF GiveUp, TypeOK
  <2> QED BY <1>18, <1>20, <2>1 DEF GiveUp
<1>21. ASSUME NEW w \in Worker, Watchdog(w)
       PROVE  \A v \in Worker : Share(v)'
  BY <1>18, <1>19, <1>21 DEF Watchdog
<1>22. ASSUME NEW w \in Worker, RefreshTimeout(w)
       PROVE  \A v \in Worker : Share(v)'
  BY <1>18, <1>19, <1>22 DEF RefreshTimeout
<1>23. ASSUME NEW w \in Worker, EndWork(w)
       PROVE  \A v \in Worker : Share(v)'
  <2>1. /\ now' = now /\ cut' = cut /\ calls'[w] = NoCall
        /\ stray'[w].token \in {stray[w].token, calls[w].token}
        /\ \A v \in Worker \ {w} : calls'[v] = calls[v] /\ stray'[v] = stray[v]
    BY <1>19, <1>23 DEF EndWork
  <2>2. CASE Rest(w) /\ (UNCHANGED job \/ Report(w))
    BY <1>18, <2>1, <2>2
  <2>3. CASE /\ Become(w, "failed", workers[w].token, workers[w].deadline, workers[w].claimed)
             /\ UNCHANGED job
    <3>1. /\ workers'[w].pc = "failed" /\ workers'[w].token = workers[w].token
          /\ calls'[w].stage = "none" /\ calls'[w].token = 0
          /\ \A v \in Worker \ {w} : Aside(v)
      BY <1>1, <2>1, <2>3 DEF Become, NoCall, Aside, TypeOK
    <3>2. KnownBy(w)'
      BY <1>4, <1>5, <2>1, <2>3, <3>1 DEF KnownBy
    <3>3. Share(w)'
      BY <3>1, <3>2 DEF Share, CoveredBy, BegunBy, AheadBy, PromisedTo, QuietAt, FirstHand, Active
    <3> QED BY <1>6, <2>1, <2>3, <3>1, <3>3
  <2> QED BY <1>23, <2>2, <2>3 DEF EndWork
<1>24. ASSUME NEW w \in Worker, RenewToDestroy(w)
       PROVE  \A v \in Worker : Share(v)'
  <2>1. now' = now /\ stray' = stray /\ cut' = cut /\ calls[w].stage = "none"
    BY <1>5, <1>24 DEF RenewToDestroy, QuietAt
  <2>2. CASE leaseSafetyDelay(workers[w].claimed) > 0
    <3>1. /\ workers'[w].pc = "renewing" /\ workers'[w].token = workers[w].token /\ job' = job
          /\ calls'[w].stage = "sent" /\ calls'[w].started = now
          /\ calls'[w].token = workers[w].token
          /\ \A v \in Worker \ {w} : Aside(v)
      BY <1>1, <1>24, <2>2 DEF RenewToDestroy, Become, Sent, Aside, TypeOK
    <3>2. CoveredBy(w)' /\ BegunBy(w)' /\ AheadBy(w)' /\ PromisedTo(w)' /\ QuietAt(w)'
      BY <1>4, <2>1, <3>1 DEF CoveredBy, BegunBy, AheadBy, PromisedTo, QuietAt, Active
    <3>3. FirstHand(w)' /\ KnownBy(w)'
      BY <1>5, <2>1, <3>1 DEF FirstHand, KnownBy
    <3> QED BY <1>6, <2>1, <3>1, <3>2, <3>3 DEF Share
  <2>3. CASE ~(leaseSafetyDelay(workers[w].claimed) > 0)
    <3>1. Rest(w) /\ Report(w) /\ calls' = calls
      BY <1>24, <2>3 DEF RenewToDestroy
    <3>2. /\ workers'[w].pc = "idle" /\ calls'[w].stage = "none" /\ workers'[w].token = 0
          /\ \A v \in Worker \ {w} : Aside(v)
      BY <1>1, <2>1, <3>1 DEF Rest, Resting, Aside, TypeOK
    <3>3. job'.token = job.token
      BY <3>1 DEF Report, Cleared, NoLease
    <3>4. KnownBy(w)'
      BY <1>4, <1>5, <2>1, <3>1, <3>2, <3>3 DEF KnownBy
    <3> QED BY <1>6, <1>8, <2>1, <3>1, <3>2, <3>4
  <2> QED BY <2>2, <2>3
<1>25. ASSUME Tick
       PROVE  \A v \in Worker : Share(v)'
  <2> SUFFICES ASSUME NEW v \in Worker
               PROVE  Share(v)'
    OBVIOUS
  <2>1. /\ now' = now + 1 /\ job' = job /\ workers' = workers /\ calls' = calls
        /\ stray' = stray /\ cut' = cut
    BY <1>25 DEF Tick
  <2>2. workers[v].pc \in Active => workers[v].deadline - now - Margin > -Slack
    BY <1>25 DEF Tick, leaseSafetyDelay
  <2>3. CoveredBy(v)'
    BY <1>4, <1>5, <2>1, <2>2 DEF CoveredBy, Overtaken
  <2>4. BegunBy(v)' /\ AheadBy(v)' /\ PromisedTo(v)' /\ QuietAt(v)'
    BY <1>4, <1>5, <2>1 DEF BegunBy, AheadBy, PromisedTo, QuietAt
  <2>5. FirstHand(v)' /\ KnownBy(v)'
    BY <1>5, <2>1 DEF FirstHand, Undisturbed, KnownBy
  <2> QED BY <2>3, <2>4, <2>5 DEF Share
<1>26. ASSUME UNCHANGED vars
       PROVE  \A v \in Worker : Share(v)'
  <2>1. job' = job /\ \A v \in Worker : Aside(v)
    BY <1>26 DEF vars, Aside
  <2> QED BY <1>2, <2>1, Bystander
<1> QED
  BY <1>9, <1>10, <1>11, <1>12, <1>14, <1>15, <1>16, <1>17, <1>20, <1>21, <1>22, <1>23, <1>24,
     <1>25, <1>26 DEF Next

-----------------------------------------------------------------------------
(* The theorems. *)

\* The columns of the job and the controllers' state keep their types.
THEOREM TypeCorrect == Spec => []TypeOK
<1>1. Init => TypeOK
  BY TimeAssumption DEF Init, TypeOK, NoLease, NoCall, CallRow, Resting, WorkerRow, Phase
<1> QED BY <1>1, TypeStep, PTL DEF Spec

\* Nobody works and nothing is promised at the start.
LEMMA InvInit == Init => Inv
<1> SUFFICES ASSUME Init
             PROVE  Inv
  OBVIOUS
<1>1. TypeOK
  BY DEF Init, TypeOK, NoLease, NoCall, CallRow, Resting, WorkerRow, Phase
<1>2. \A w \in Worker :
        /\ workers[w].pc = "idle" /\ calls[w].stage = "none" /\ cut[w] = {}
        /\ workers[w].token = 0 /\ calls[w].token = 0 /\ stray[w].token = 0
  BY DEF Init, Resting, NoCall
<1>3. job.token = 0
  BY DEF Init, NoLease
<1> QED BY <1>1, <1>2, <1>3 DEF Inv, Share, CoveredBy, BegunBy, AheadBy, PromisedTo, QuietAt,
                                FirstHand, KnownBy, Active

\* What Inv says of working controllers: each one's lease is live and its own, or
\* has been cut short.
LEMMA InvCovers == Inv => WorkIsCovered /\ OneWorker
<1> SUFFICES ASSUME Inv
             PROVE  WorkIsCovered /\ OneWorker
  OBVIOUS
<1>1. \A w \in Worker : workers[w].deadline \in Int
  BY DEF Inv, TypeOK, WorkerRow
<1>2. now \in Int /\ job.expires \in Int
  BY DEF Inv, TypeOK
<1>3. WorkIsCovered
  BY <1>1, <1>2, TimeAssumption, MarginAssumption DEF Inv, Share, CoveredBy,
                                                               Covered, WorkIsCovered
<1> QED BY <1>3 DEF WorkIsCovered, OneWorker, Covered

\* Backend work never outlives the lease it was given (controller.go:253-317), in
\* whatever order renewals take effect, if a fired watchdog stops the work within
\* the safety margin; only the destruction of a failed create may, and only after
\* a renewal its execute gave up was applied late (013:308-330).
THEOREM WorkStaysCovered == Spec => []WorkIsCovered
<1>1. Inv /\ [Next]_vars => Inv'
  BY InvStep
<1> QED BY <1>1, InvInit, InvCovers, PTL DEF Spec

\* At most one controller works on an operation at any time, with the same
\* exception, although nothing in Kubernetes keeps a second one out.
THEOREM WorkersStayApart == Spec => []OneWorker
<1>1. Inv /\ [Next]_vars => Inv'
  BY InvStep
<1> QED BY <1>1, InvInit, InvCovers, PTL DEF Spec
=============================================================================
