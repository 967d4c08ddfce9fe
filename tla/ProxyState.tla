----------------------------- MODULE ProxyState -----------------------------
(***************************************************************************)
(* The protected records of the local proxy (internal/proxy/state): the    *)
(* activation journal, the redundant receipt, the lifecycle reservation    *)
(* and the lock file.                                                      *)
(*                                                                         *)
(* `file` is what a process reads, `disk` the states of the directory that *)
(* may survive a loss of power: a rename or an unlink adds one, the sync   *)
(* of the directory that follows it leaves only the latest.  A change is   *)
(* thus two operations, and a crash, a failure or a loss of power may come *)
(* between them.  The file system is assumed to persist the changes of one *)
(* directory in order.                                                     *)
(***************************************************************************)
EXTENDS Naturals, Sequences

CONSTANTS Proc,         \* processes of the user's account
          Activation,   \* activation identities
          Name,         \* the environment variables taken over
          UserValue,    \* values the user gives them
          None          \* absent

ASSUME ConstantsDiffer ==
    /\ None \notin Proc \cup Activation \cup Name \cup UserValue
    /\ Activation \cap UserValue = {}

VARIABLES file,         \* [journal, receipt] as they are read
          disk,         \* the states of the two files that may survive
          reservation,  \* None or [by |-> process or None, live |-> BOOLEAN]
          lock          \* the process that holds lifecycle.lock, or None

stateVars == <<file, disk, reservation, lock>>

Value == UserValue \cup {None}

JournalState == {"prepared", "publishing", "active", "deactivating", "recovery_required"}

(* Journal.Validate and Receipt.Validate: the records that are accepted.   *)
(* The prior value of a variable may be one that another activation set.   *)
Journal == [id : Activation, state : JournalState, prior : [Name -> Value \cup Activation]]

(* The digest of a record: equal for equal records only.                   *)
Checksum(record) == <<"sha256", record>>

Receipt == [id : Activation, state : {"active", "recovery_required"},
            digest : {Checksum(j) : j \in Journal}]

(* An absent file is told from every record, damaged or not.               *)
ASSUME NoneIsNoRecord == None \notin Journal \cup Receipt \cup [was : Journal \cup Receipt]

(* A record that no longer passes its checksum.  `was` is not visible to   *)
(* the program.                                                            *)
Unreadable(record) == [was |-> record]
IsDamaged(record) == record # None /\ "was" \in DOMAIN record
Readable(record) == record # None /\ ~IsDamaged(record)
Content(record) == IF IsDamaged(record) THEN record.was ELSE record

Reservation == {None} \cup [by : Proc \cup {None}, live : BOOLEAN]

StateInit ==
    /\ file = [journal |-> None, receipt |-> None]
    /\ disk = {file}
    /\ reservation = None
    /\ lock = None

-----------------------------------------------------------------------------
(* receiptFromJournalAt with the state its callers set.                    *)
ReceiptFromJournal(j) ==
    [id |-> j.id, digest |-> Checksum(j),
     state |-> IF j.state = "active" THEN "active" ELSE "recovery_required"]

ValidateBinding(j, r) ==
    /\ r.id = j.id
    /\ r.digest = Checksum(j)
    /\ r.state = IF j.state = "active" THEN "active" ELSE "recovery_required"

(* Both records are there and do not belong together.                      *)
Ambiguous ==
    \/ /\ Readable(file.journal) /\ Readable(file.receipt)
       /\ ~ValidateBinding(file.journal, file.receipt)
    \/ ~Readable(file.journal) /\ ~Readable(file.receipt)
       /\ (file.journal # None \/ file.receipt # None)

ValidStateTransition ==
    {<<"prepared", "publishing">>, <<"prepared", "active">>, <<"prepared", "recovery_required">>,
     <<"publishing", "active">>, <<"publishing", "recovery_required">>,
     <<"active", "deactivating">>, <<"active", "recovery_required">>,
     <<"deactivating", "recovery_required">>, <<"recovery_required", "deactivating">>}

-----------------------------------------------------------------------------
(* File operations.  A transaction is the sequence of operations it will   *)
(* perform under the lock.                                                 *)
Sync == [name |-> "directory", value |-> None]

\* Mutant of AtomicWrite: the directory is not synced after the rename.
WriteUnsynced(name, record) == <<[name |-> name, value |-> record]>>

AtomicWrite(name, record) == <<[name |-> name, value |-> record], Sync>>

RemoveSecureFile(name) ==
    IF file[name] = None THEN <<>> ELSE <<[name |-> name, value |-> None], Sync>>

(* The new journal of Prepare.                                             *)
Prepare(j) == AtomicWrite("journal", j)

(* Transition(expected, next): compare-and-set of the journal's state.  The*)
(* old receipt goes first, since its digest names the old journal.         *)
CanTransition(expected, next) ==
    /\ Readable(file.journal)
    /\ file.journal.state = expected
    /\ <<expected, next>> \in ValidStateTransition
    /\ Readable(file.receipt) => ValidateBinding(file.journal, file.receipt)

\* Mutant of Transition: the old receipt is replaced, not removed first.
TransitionInPlace(next) ==
    LET j == [file.journal EXCEPT !.state = next]
    IN  AtomicWrite("journal", j)
        \o (IF next \in {"active", "recovery_required"}
              THEN AtomicWrite("receipt", ReceiptFromJournal(j)) ELSE <<>>)

Transition(next) ==
    LET j == [file.journal EXCEPT !.state = next]
    IN  RemoveSecureFile("receipt")
        \o AtomicWrite("journal", j)
        \o (IF next \in {"active", "recovery_required"}
              THEN AtomicWrite("receipt", ReceiptFromJournal(j)) ELSE <<>>)

(* Clear: receipt first, then journal.                                     *)
Clear == RemoveSecureFile("receipt") \o RemoveSecureFile("journal")

(* A missing or damaged receipt is written again from the journal.         *)
Repair ==
    IF Readable(file.journal) /\ ~Readable(file.receipt)
      THEN AtomicWrite("receipt", ReceiptFromJournal(file.journal)) ELSE <<>>

(* The effect of one operation.                                            *)
Apply(op) ==
    IF op = Sync
      THEN disk' = {file} /\ UNCHANGED file
      ELSE /\ file' = [file EXCEPT ![op.name] = op.value]
           /\ disk' = disk \cup {file'}

-----------------------------------------------------------------------------
(* Reservations.  A nonce is random: a reservation belongs to the process  *)
(* whose current operation made it (`by`), or to nobody any more.          *)
Live == reservation # None /\ reservation.live

(* withOwnedReservation: exact nonce, owner and checksum, not expired.     *)
Fenced(p) == Live /\ reservation.by = p

(* What is left when the process forgets the reservation it made.          *)
Abandoned(p) ==
    IF reservation # None /\ reservation.by = p
      THEN [reservation EXCEPT !.by = None] ELSE reservation

(* Reserve: under the lock, unless another reservation is live.            *)
Reserve(p) ==
    /\ lock = None
    /\ ~Live
    /\ reservation' = [by |-> p, live |-> TRUE]

(* CancelReservation, which finds its own reservation or leaves things be. *)
Cancelled(p) ==
    IF reservation # None /\ reservation.by = p THEN None ELSE reservation

(* The reservation's time runs out.                                        *)
Expire ==
    /\ Live
    /\ reservation' = [reservation EXCEPT !.live = FALSE]
    /\ UNCHANGED <<file, disk, lock>>

-----------------------------------------------------------------------------
(* reconcileLocked: what the records say, once the receipt is repaired.    *)
Reconciled ==
    IF Ambiguous THEN [state |-> "ambiguous", id |-> None]
    ELSE IF Readable(file.journal)
      THEN [state |-> IF file.journal.state = "active" THEN "active" ELSE "recovery_required",
            id |-> file.journal.id]
    ELSE IF Readable(file.receipt)
      THEN [state |-> "recovery_required", id |-> file.receipt.id]
    ELSE [state |-> "inactive", id |-> None]

(* Storage damage between two commands: a record fails its checksum.       *)
Damage(name) ==
    /\ lock = None
    /\ Readable(file[name])
    /\ file' = [file EXCEPT ![name] = Unreadable(@)]
    /\ disk' = {[f EXCEPT ![name] = IF @ = file[name] THEN Unreadable(@) ELSE @] : f \in disk}
    /\ UNCHANGED <<reservation, lock>>

(* Power is lost, and with it some of the changes that were not synced.    *)
LosePower ==
    /\ file' \in disk
    /\ disk' = {file'}
    /\ lock' = None
    /\ reservation' \in {None, IF reservation = None THEN None
                               ELSE [reservation EXCEPT !.by = None]}
=============================================================================
