--------------------------- MODULE ProxyActivation ---------------------------
(***************************************************************************)
(* The activation service (internal/proxy/activation) on top of the        *)
(* protected records: the commands on, run, off and status of several      *)
(* processes, the listeners they host, and the user's environment.         *)
(*                                                                         *)
(* A command alternates between making a reservation and a section under   *)
(* the lock that the reservation fences.  `at[p]` is where process p is:   *)
(*                                                                         *)
(*   on, run   reconcile -> start -> activate: prepare -> publishing ->    *)
(*             publish -> activating -> verify (-> scope -> child)         *)
(*   off       reconcile -> recover: stop -> restore -> clearing/recording *)
(*                                                                         *)
(* While p holds the lock, `todo` is what is left of its transaction.      *)
(* Policies, modes and OS sessions only choose between two refusals and    *)
(* are left out; so are the in-process maps of listeners and environments. *)
(***************************************************************************)
EXTENDS ProxyState

CONSTANTS MaxCommands,  \* bound: commands the user gives
          MaxFaults,    \* bound: crashes, failed calls, damage, losses of power
          MaxEdits      \* bound: variables the user changes

VARIABLES env,    \* [Name -> a user's value, None, or the activation that set it]
          host,   \* [Activation -> the process that runs its listener, or None]
          at,     \* [Proc -> position of the command it executes]
          spent   \* how much of each bound is used

vars == <<file, disk, reservation, lock, env, host, at, spent>>

Command == {"on", "run", "off", "status", "unscope"}

Idle == [pc |-> "idle", cmd |-> "status", act |-> None, prior |-> None, goal |-> None,
         todo |-> <<>>, left |-> {}, bad |-> FALSE, held |-> FALSE]

Reconciling == {"reconcile", "again", "verify", "scope"}
Reserving   == Reconciling \cup {"activate", "recover"}

Init ==
    /\ StateInit
    /\ env \in [Name -> Value]
    /\ host = [a \in Activation |-> None]
    /\ at = [p \in Proc |-> Idle]
    /\ spent = [commands |-> 0, faults |-> 0, edits |-> 0]

-----------------------------------------------------------------------------
(* Helpers.                                                                *)
Fault == /\ spent.faults < MaxFaults
         /\ spent' = [spent EXCEPT !.faults = @ + 1]
NoFault == UNCHANGED spent

Return(p) == at' = [at EXCEPT ![p] = Idle]

(* listener.Start and Runtime.Shutdown of the listener of activation a.    *)
RunListener(p, a) == [host EXCEPT ![a] = p]
StopListener(a) == [host EXCEPT ![a] = None]

(* shutdownVerified of the listener this process started.                  *)
Shutdown(p) ==
    host' = IF at[p].act # None /\ host[at[p].act] = p THEN StopListener(at[p].act) ELSE host

(* recoverExpected of the activation that was just made.                   *)
RecoverOwn(p) ==
    at' = [at EXCEPT ![p].pc = "recover",
                     ![p].goal = at[p].act,
                     ![p].held = FALSE,
                     ![p].todo = <<>>]

(* An activation that cannot be verified is withdrawn: shutdownVerified,   *)
(* then recoverExpected.  An unproven shutdown ends the command.           *)
Withdraw(p) ==
    \/ RecoverOwn(p) /\ Shutdown(p) /\ NoFault
    \/ host[at[p].act] = p /\ Return(p) /\ UNCHANGED host /\ Fault

(* An identity nothing refers to any more is as good as a new random one.  *)
Mentioned ==
    {Content(f.journal).id : f \in {g \in disk : g.journal # None}}
    \cup {Content(f.receipt).id : f \in {g \in disk : g.receipt # None}}
    \cup {env[n] : n \in Name}
    \cup UNION {{Content(f.journal).prior[n] : n \in Name} : f \in {g \in disk : g.journal # None}}
    \cup UNION {{at[p].prior[n] : n \in Name} : p \in {q \in Proc : at[q].prior # None}}
    \cup {a \in Activation : host[a] # None}
    \cup UNION {{at[p].act, at[p].goal} : p \in Proc}

Locked(p) == lock = p
Finished(p, pcs) == Locked(p) /\ at[p].todo = <<>> /\ at[p].pc \in pcs

-----------------------------------------------------------------------------
(* Reservations.                                                           *)
Begin(p, command) ==
    /\ at[p].pc = "idle"
    /\ spent.commands < MaxCommands
    /\ spent' = [spent EXCEPT !.commands = @ + 1]
    /\ at' = [at EXCEPT ![p].pc = "reconcile", ![p].cmd = command]
    /\ UNCHANGED <<file, disk, reservation, lock, env, host>>

MakeReservation(p) ==
    /\ NoFault
    /\ at[p].pc \in Reserving
    /\ ~at[p].held
    /\ Reserve(p)
    /\ at' = [at EXCEPT ![p].held = TRUE]
    /\ UNCHANGED <<file, disk, lock, env, host>>

(* ErrLifecycleConflict, from Reserve or from withOwnedReservation.        *)
Refused(p) ==
    /\ at[p].pc \in Reserving
    /\ lock = None
    /\ IF at[p].held THEN ~Fenced(p) ELSE Live

(* reconcileForOn tries again until its deadline; off and status give up.  *)
GiveUp(p) ==
    /\ NoFault
    /\ Refused(p)
    /\ at[p].pc \in {"reconcile", "again"}
    /\ \/ at[p].cmd \in {"on", "run"} /\ at[p].held /\ at' = [at EXCEPT ![p].held = FALSE]
       \/ Return(p)
    /\ reservation' = Abandoned(p)
    /\ UNCHANGED <<file, disk, lock, env, host>>

(* errActivationRace: the listener goes, the winner is looked at.          *)
LoseRace(p) ==
    /\ at' = [at EXCEPT ![p].pc = "again", ![p].held = FALSE]
    /\ Shutdown(p)
    /\ reservation' = Cancelled(p)
    /\ UNCHANGED <<file, disk, lock, env>>

(* A conflict after publication: verification or the scope cannot be had.  *)
LoseActivation(p) ==
    /\ Refused(p)
    /\ \/ at[p].pc = "verify" /\ Withdraw(p) /\ reservation' = Abandoned(p)
       \/ /\ at[p].pc = "scope"
          /\ RecoverOwn(p) /\ reservation' = Cancelled(p)
          /\ UNCHANGED host /\ NoFault
    /\ UNCHANGED <<file, disk, lock, env>>

LoseRecovery(p) ==
    /\ NoFault
    /\ Refused(p)
    /\ at[p].pc = "recover"
    /\ Return(p)
    /\ reservation' = Abandoned(p)
    /\ UNCHANGED <<file, disk, lock, env, host>>

Enter(p) ==
    /\ lock = None
    /\ at[p].held
    /\ Fenced(p)
    /\ lock' = p

(* The next file operation of the transaction.                             *)
Perform(p) ==
    /\ NoFault
    /\ Locked(p)
    /\ at[p].todo # <<>>
    /\ Apply(Head(at[p].todo))
    /\ at' = [at EXCEPT ![p].todo = Tail(at[p].todo)]
    /\ UNCHANGED <<reservation, lock, env, host>>

-----------------------------------------------------------------------------
(* Store.Reconcile, ReconcileReserved.                                     *)
EnterReconcile(p) ==
    /\ NoFault
    /\ at[p].pc \in Reconciling
    /\ Enter(p)
    /\ at' = [at EXCEPT ![p].todo = Repair]
    /\ UNCHANGED <<file, disk, reservation, env, host>>

(* reconcileOn, reconcileRun: go on without an activation; otherwise answer*)
Starts(p, r) == r.state = "inactive" /\ at[p].cmd \in {"on", "run"} /\ at[p].pc = "reconcile"

(* Service.recover: off goes on with the activation that was found.        *)
Recovers(p, r) == r.id # None /\ at[p].cmd = "off"

(* On, Run, Off and Status after their first Reconcile (or the second,     *)
(* after a lost race, which only chooses an answer).                       *)
FinishReconcile(p) ==
    /\ NoFault
    /\ Finished(p, {"reconcile", "again"})
    /\ ~Ambiguous
    /\ LET r == Reconciled
       IN \/ /\ Starts(p, r)
             /\ at' = [at EXCEPT ![p].pc = "start", ![p].held = FALSE]
          \/ /\ Recovers(p, r)
             /\ at' = [at EXCEPT ![p].pc = "recover", ![p].goal = r.id, ![p].held = FALSE]
          \/ ~Starts(p, r) /\ ~Recovers(p, r) /\ Return(p)
    /\ reservation' = None
    /\ lock' = None
    /\ UNCHANGED <<file, disk, env, host>>

(* The check that ends activate: records and listener are still its own.   *)
FinishVerify(p) ==
    /\ Finished(p, {"verify"})
    /\ ~Ambiguous
    /\ IF Reconciled = [state |-> "active", id |-> at[p].act] /\ ~at[p].bad
         THEN /\ \/ at[p].cmd = "run" /\ at' = [at EXCEPT ![p].pc = "scope", ![p].held = FALSE]
                 \/ at[p].cmd = "on" /\ Return(p)
              /\ UNCHANGED host /\ NoFault
         ELSE Withdraw(p)
    /\ reservation' = None
    /\ lock' = None
    /\ UNCHANGED <<file, disk, env>>

(* AcquireScope keeps its reservation for as long as the child runs.       *)
FinishScope(p) ==
    /\ NoFault
    /\ Finished(p, {"scope"})
    /\ ~Ambiguous
    /\ IF Reconciled = [state |-> "active", id |-> at[p].act]
         THEN at' = [at EXCEPT ![p].pc = "child"] /\ UNCHANGED reservation
         ELSE RecoverOwn(p) /\ reservation' = Cancelled(p)
    /\ lock' = None
    /\ UNCHANGED <<file, disk, env, host>>

(* A reconciliation fails: an operation, an ambiguous pair, or the removal *)
(* of the reservation, which then stays until it expires.                  *)
FailReconcile(p) ==
    /\ Fault
    /\ Locked(p)
    /\ at[p].pc \in Reconciling
    /\ \/ at[p].pc = "verify" /\ RecoverOwn(p) /\ Shutdown(p)
       \/ at[p].pc = "scope" /\ RecoverOwn(p) /\ UNCHANGED host
       \/ at[p].pc # "scope" /\ Return(p) /\ UNCHANGED host
    /\ reservation' = IF at[p].pc = "scope" THEN Cancelled(p) ELSE Abandoned(p)
    /\ lock' = None
    /\ UNCHANGED <<file, disk, env>>

-----------------------------------------------------------------------------
(* Service.activate and PersistentStore.Activate.                          *)
(* The listener is started and verified, then the environment is read.     *)
Start(p) ==
    /\ at[p].pc = "start"
    /\ \/ \E a \in Activation \ Mentioned :
             /\ host' = RunListener(p, a)
             /\ at' = [at EXCEPT ![p].pc = "activate", ![p].act = a, ![p].prior = env]
             /\ NoFault
       \/ Return(p) /\ UNCHANGED host /\ Fault
    /\ UNCHANGED <<file, disk, reservation, lock, env>>

(* journalEnvironment of the snapshot.                                     *)
NewJournal(p) == [id |-> at[p].act, state |-> "prepared", prior |-> at[p].prior]

EnterActivate(p) ==
    /\ NoFault
    /\ at[p].pc = "activate"
    /\ file.journal = None /\ file.receipt = None
    /\ Enter(p)
    /\ at' = [at EXCEPT ![p].pc = "prepare", ![p].todo = Prepare(NewJournal(p))]
    /\ UNCHANGED <<file, disk, reservation, env, host>>

(* Prepare finds the evidence of another activation, or no reservation.    *)
RaceLost(p) ==
    /\ NoFault
    /\ at[p].pc = "activate"
    /\ \/ Refused(p)
       \/ /\ lock = None /\ at[p].held /\ Fenced(p)
          /\ file.journal # None \/ file.receipt # None
          /\ ~IsDamaged(file.journal) /\ ~IsDamaged(file.receipt)
    /\ LoseRace(p)

(* The callback of WithReservation returned an error: the reservation is   *)
(* cancelled (or that fails too) and the listener is shut down.            *)
Abort(p) ==
    /\ Return(p)
    /\ Shutdown(p)
    /\ reservation' \in {Cancelled(p), Abandoned(p)}
    /\ lock' = None
    /\ UNCHANGED <<file, disk, env>>

PrepareAmbiguous(p) ==
    /\ NoFault
    /\ at[p].pc = "activate"
    /\ lock = None /\ at[p].held /\ Fenced(p)
    /\ IsDamaged(file.journal) \/ IsDamaged(file.receipt)
    /\ Abort(p)

FinishPrepare(p) ==
    /\ NoFault
    /\ Finished(p, {"prepare"})
    /\ CanTransition("prepared", "publishing")
    /\ at' = [at EXCEPT ![p].pc = "publishing", ![p].todo = Transition("publishing")]
    /\ UNCHANGED <<file, disk, reservation, lock, env, host>>

(* Environment.Publish (external): all variables or none, and only if they *)
(* are as they were when they were read; it may also fail after the fact.  *)
Publish(p) ==
    /\ Finished(p, {"publishing"})
    /\ \/ /\ env = at[p].prior
          /\ env' = [n \in Name |-> at[p].act]
          /\ \/ at' = [at EXCEPT ![p].pc = "activating", ![p].todo = Transition("active")] /\ NoFault
             \/ /\ at' = [at EXCEPT ![p].pc = "marking", ![p].todo = Transition("recovery_required")]
                /\ Fault
       \/ /\ env # at[p].prior
          /\ at' = [at EXCEPT ![p].pc = "undoing", ![p].todo = Clear]
          /\ UNCHANGED env /\ NoFault
       \/ /\ at' = [at EXCEPT ![p].pc = "marking", ![p].todo = Transition("recovery_required")]
          /\ UNCHANGED env /\ Fault
    /\ UNCHANGED <<file, disk, reservation, lock, host>>

(* The reservation is consumed; the listener is inspected once more.       *)
FinishActivate(p) ==
    /\ NoFault
    /\ Finished(p, {"activating"})
    /\ at' = [at EXCEPT ![p].pc = "verify", ![p].held = FALSE, ![p].bad = host[at[p].act] # p]
    /\ reservation' = None
    /\ lock' = None
    /\ UNCHANGED <<file, disk, env, host>>

FinishUndo(p) ==
    /\ NoFault
    /\ Finished(p, {"undoing", "marking"})
    /\ Abort(p)

(* An operation fails.  When the step to active fails while the journal    *)
(* still says publishing, the deferred function marks it for recovery.     *)
FailActivate(p) ==
    /\ Fault
    /\ Locked(p)
    /\ at[p].pc \in {"prepare", "publishing", "activating", "undoing", "marking"}
    /\ at[p].todo # <<>> \/ at[p].pc = "activating"
    /\ IF at[p].pc = "activating" /\ CanTransition("publishing", "recovery_required")
         THEN /\ at' = [at EXCEPT ![p].pc = "marking", ![p].todo = Transition("recovery_required")]
              /\ UNCHANGED <<file, disk, reservation, lock, env, host>>
         ELSE Abort(p)

-----------------------------------------------------------------------------
(* Service.Run between AcquireScope and recoverScope.  The child ends, or  *)
(* is cancelled because a renewal was refused; the lease is used as it is. *)
ChildEnds(p) ==
    /\ NoFault
    /\ at[p].pc = "child"
    /\ at' = [at EXCEPT ![p].pc = "recover", ![p].cmd = "unscope", ![p].goal = at[p].act]
    /\ UNCHANGED <<file, disk, reservation, lock, env, host>>

-----------------------------------------------------------------------------
(* Store.recover.                                                          *)
(* withFinalReservation removes the reservation whatever happened; an      *)
(* internal one is removed on success only.                                *)
ReservationAfterError(p) ==
    IF at[p].cmd = "unscope" THEN Cancelled(p) ELSE Abandoned(p)

Expected(p) ==
    at[p].goal = IF Readable(file.journal) THEN file.journal.id
                 ELSE IF Readable(file.receipt) THEN file.receipt.id ELSE None

EnterRecover(p) ==
    /\ NoFault
    /\ at[p].pc = "recover"
    /\ Expected(p) /\ ~Ambiguous /\ Readable(file.journal)
    /\ Enter(p)
    /\ at' = [at EXCEPT ![p].pc = "stop", ![p].todo = Repair, ![p].left = Name, ![p].bad = FALSE]
    /\ UNCHANGED <<file, disk, reservation, env, host>>

(* recoverFromReceiptOnly: the listener is stopped if that is possible;    *)
(* nothing is known about the environment.                                 *)
EnterReceiptOnly(p) ==
    /\ NoFault
    /\ at[p].pc = "recover"
    /\ Expected(p) /\ ~Readable(file.journal)
    /\ Enter(p)
    /\ host' \in {host, StopListener(at[p].goal)}
    /\ at' = [at EXCEPT ![p].pc = "receiptonly",
                        ![p].todo = AtomicWrite("receipt",
                                                [file.receipt EXCEPT !.state = "recovery_required"])]
    /\ UNCHANGED <<file, disk, reservation, env>>

WrongActivation(p) ==
    /\ NoFault
    /\ at[p].pc = "recover"
    /\ lock = None /\ at[p].held /\ Fenced(p)
    /\ ~Expected(p) \/ Ambiguous
    /\ Return(p)
    /\ reservation' = ReservationAfterError(p)
    /\ UNCHANGED <<file, disk, lock, env, host>>

(* stopVerified: gone already, stopped and seen to be gone, or unproven.   *)
StopVerified(p) ==
    /\ Finished(p, {"stop"})
    /\ \/ /\ host' = StopListener(at[p].goal)
          /\ at' = [at EXCEPT ![p].pc = "restore"] /\ NoFault
       \/ at' = [at EXCEPT ![p].pc = "restore", ![p].bad = TRUE] /\ UNCHANGED host /\ Fault
    /\ UNCHANGED <<file, disk, reservation, lock, env>>

\* Mutant of CompareAndSet: the prior value is put back whatever is there.
RestoreBlindly(p, n) ==
    /\ Finished(p, {"restore"})
    /\ n \in at[p].left
    /\ env' = [env EXCEPT ![n] = file.journal.prior[n]]
    /\ at' = [at EXCEPT ![p].left = at[p].left \ {n}]
    /\ NoFault
    /\ UNCHANGED <<file, disk, reservation, lock, host>>

(* EnvironmentRestorer.CompareAndSet (external) for one variable.          *)
CompareAndSet(p, n) ==
    /\ Finished(p, {"restore"})
    /\ n \in at[p].left
    /\ LET was == file.journal.prior[n]
           ours == env[n] = file.journal.id
           back == env[n] = was \/ env[n] = None
       IN \/ /\ ours
             /\ env' = [env EXCEPT ![n] = was]
             /\ at' = [at EXCEPT ![p].left = at[p].left \ {n}] /\ NoFault
          \/ /\ ~ours /\ back
             /\ at' = [at EXCEPT ![p].left = at[p].left \ {n}] /\ NoFault
             /\ UNCHANGED env
          \/ /\ at' = [at EXCEPT ![p].left = at[p].left \ {n}, ![p].bad = TRUE]
             /\ IF ours \/ back THEN Fault ELSE NoFault
             /\ UNCHANGED env
    /\ UNCHANGED <<file, disk, reservation, lock, host>>

FinishRestore(p) ==
    /\ NoFault
    /\ Finished(p, {"restore"})
    /\ at[p].left = {}
    /\ LET record == IF file.journal.state = "recovery_required"
                       THEN <<>> ELSE Transition("recovery_required")
       IN  \/ ~at[p].bad /\ at' = [at EXCEPT ![p].pc = "clearing", ![p].todo = Clear]
           \/ at[p].bad /\ at' = [at EXCEPT ![p].pc = "recording", ![p].todo = record]
    /\ UNCHANGED <<file, disk, reservation, lock, env, host>>

FinishRecover(p) ==
    /\ NoFault
    /\ Finished(p, {"clearing", "recording", "receiptonly"})
    /\ Return(p)
    /\ reservation' = None
    /\ lock' = None
    /\ UNCHANGED <<file, disk, env, host>>

FailRecover(p) ==
    /\ Fault
    /\ Locked(p)
    /\ at[p].pc \in {"stop", "clearing", "recording", "receiptonly"}
    /\ at[p].todo # <<>>
    /\ Return(p)
    /\ reservation' = ReservationAfterError(p)
    /\ lock' = None
    /\ UNCHANGED <<file, disk, env, host>>

-----------------------------------------------------------------------------
(* The surroundings.                                                       *)
Crash(p) ==
    /\ Fault
    /\ at[p] # Idle \/ \E a \in Activation : host[a] = p
    /\ Return(p)
    /\ host' = [a \in Activation |-> IF host[a] = p THEN None ELSE host[a]]
    /\ lock' = IF lock = p THEN None ELSE lock
    /\ reservation' = Abandoned(p)
    /\ UNCHANGED <<file, disk, env>>

ListenerDies(a) ==
    /\ Fault
    /\ host[a] # None
    /\ host' = StopListener(a)
    /\ UNCHANGED <<file, disk, reservation, lock, env, at>>

PowerLoss ==
    /\ Fault
    /\ LosePower
    /\ env' = [n \in Name |-> IF env[n] \in Activation THEN None ELSE env[n]]
    /\ host' = [a \in Activation |-> None]
    /\ at' = [p \in Proc |-> Idle]

UserEdits(n, v) ==
    /\ spent.edits < MaxEdits
    /\ spent' = [spent EXCEPT !.edits = @ + 1]
    /\ env' = [env EXCEPT ![n] = v]
    /\ UNCHANGED <<file, disk, reservation, lock, host, at>>

Surroundings ==
    \/ \E p \in Proc : Crash(p)
    \/ \E a \in Activation : ListenerDies(a)
    \/ PowerLoss
    \/ \E n \in Name, v \in Value : UserEdits(n, v)
    \/ \E f \in {"journal", "receipt"} : Damage(f) /\ Fault /\ UNCHANGED <<env, host, at>>
    \/ Expire /\ NoFault /\ UNCHANGED <<env, host, at>>

Step(p) ==
    \/ \E c \in {"on", "run", "off", "status"} : Begin(p, c)
    \/ MakeReservation(p) \/ GiveUp(p) \/ LoseActivation(p) \/ LoseRecovery(p)
    \/ Perform(p)
    \/ EnterReconcile(p) \/ FinishReconcile(p) \/ FinishVerify(p) \/ FinishScope(p)
    \/ FailReconcile(p)
    \/ Start(p) \/ EnterActivate(p) \/ RaceLost(p) \/ PrepareAmbiguous(p)
    \/ FinishPrepare(p) \/ Publish(p) \/ FinishActivate(p) \/ FinishUndo(p) \/ FailActivate(p)
    \/ ChildEnds(p)
    \/ EnterRecover(p) \/ EnterReceiptOnly(p) \/ WrongActivation(p) \/ StopVerified(p)
    \/ (\E n \in Name : CompareAndSet(p, n)) \/ FinishRestore(p) \/ FinishRecover(p)
    \/ FailRecover(p)

Next == (\E p \in Proc : Step(p)) \/ Surroundings

Spec == Init /\ [][Next]_vars

-----------------------------------------------------------------------------
(* Properties.                                                             *)

(* The comment on Transition (store_unix.go:299): every crash point leaves *)
(* a bound pair or a journal without receipt.  A readable receipt never    *)
(* stands beside a journal it does not belong to, nor without any journal; *)
(* so no crash, failure or loss of power alone leads to an ambiguous pair. *)
PairIsBound ==
    /\ Readable(file.journal) /\ Readable(file.receipt)
          => ValidateBinding(file.journal, file.receipt)
    /\ file.journal = None => file.receipt = None

(* Write-ahead: a variable that carries an activation's value has the      *)
(* journal with its prior value behind it, on disk and not only in the     *)
(* directory, so that a crash at any point can be undone.                  *)
PublishedIsDurable ==
    \A n \in Name :
        env[n] \in Activation =>
            \A f \in disk : f.journal # None /\ Content(f.journal).id = env[n]

(* The records, locks and processes implement what the user is promised:   *)
(* all variables are replaced at once, each gets its prior value back, a   *)
(* user's edit wins, and the claim is never dropped while a value is out.  *)
Promise == INSTANCE ProxyPublication WITH
    claim <- IF file.journal = None THEN None
             ELSE [id |-> Content(file.journal).id, prior |-> Content(file.journal).prior],
    edits <- spent.edits

ImplementsPublication == Promise!Spec
=============================================================================
