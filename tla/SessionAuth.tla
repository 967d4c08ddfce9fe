----------------------------- MODULE SessionAuth -----------------------------
(***************************************************************************)
(* The signed-in session of the command line (internal/auth): the stored   *)
(* credentials, the credential lock and the login fence of one account and *)
(* API origin, used by several processes at once, together with the        *)
(* sessions of the control API (services/control-api/src/server.ts).       *)
(*                                                                         *)
(*   login    begin -> authorize -> poll -> finalize -> save -> verify     *)
(*            -> release, with cleanup -> retain when something fails      *)
(*   others   begin -> (refresh -> store) -> use / revoke -> delete        *)
(*                                                                         *)
(* Every call of the API and every access to the store is one step.  A     *)
(* call may fail with or without having had its effect.  A session is      *)
(* named by its device; `ver` counts the rotations of its two tokens.      *)
(***************************************************************************)
EXTENDS Naturals

CONSTANTS Proc,         \* processes of the user's account
          Device,       \* device identities the API can hand out
          None,         \* absent
          MaxCommands,  \* bound: commands given
          MaxFaults,    \* bound: failed calls, failed writes, crashes
          MaxRotations  \* bound: rotations of one session

Backend == {"secret-service", "protected-file"}
Command == {"login", "status", "logout", "revoke"}
Credentials == [dev : Device, ver : Nat]
LoginFence == [by : Proc \cup {None}, pid : Proc, live : BOOLEAN]

ASSUME NoneDiffers == None \notin Proc \cup Device \cup Backend \cup Credentials \cup LoginFence

VARIABLES server,     \* [Device -> session row with its device row]
          store,      \* [Backend -> credentials or None]
          receipt,    \* the backend that was selected, or None
          available,  \* whether the Secret Service answers
          lock,       \* the process in the credential lock, or None
          fence,      \* the pending login, or None
          at,         \* [Proc -> position of its command]
          dropped,    \* history: sessions whose only copy a fault destroyed
          retained,   \* history: sessions saved without a login fence
          spent       \* how much of each bound is used

vars == <<server, store, receipt, available, lock, fence, at, dropped, retained, spent>>

Idle == [pc |-> "idle", cmd |-> "status", backend |-> "protected-file", cred |-> None,
         stored |-> FALSE, tried |-> FALSE, missing |-> FALSE]

(* Positions at which a login holds credentials that are not stored yet.   *)
Unsaved == {"finalize", "unlocked", "retain", "save", "cleanup"}

Init ==
    /\ server = [d \in Device |-> [status |-> "none", ver |-> 0, expired |-> "no"]]
    /\ store = [b \in Backend |-> None]
    /\ receipt = None
    /\ available \in BOOLEAN
    /\ lock = None
    /\ fence = None
    /\ at = [p \in Proc |-> Idle]
    /\ dropped = {} /\ retained = {}
    /\ spent = [commands |-> 0, faults |-> 0]

-----------------------------------------------------------------------------
(* Helpers.                                                                *)
Fault == /\ spent.faults < MaxFaults
         /\ spent' = [spent EXCEPT !.faults = @ + 1]
NoFault == UNCHANGED spent

Go(p, pc) == at' = [at EXCEPT ![p].pc = pc]
Return(p) == at' = [at EXCEPT ![p] = Idle]
Unlock == lock' = None

Live(d) == server[d].status = "live"
Stored(d) == \E b \in Backend : store[b] # None /\ store[b].dev = d
InFlight(p, d) == at[p].pc \in Unsaved /\ at[p].cred # None /\ at[p].cred.dev = d

(* Service.load: the credentials of the chosen backend, the device and the *)
(* generation of its refresh token; CredentialStore.Put and Delete.        *)
load(p) == store[at[p].backend]
Put(p) == store' = [store EXCEPT ![at[p].backend] = at[p].cred]
Delete(p) == store' = [store EXCEPT ![at[p].backend] = None]

-----------------------------------------------------------------------------
(* The API.                                                                *)
(* authenticate with an access token, and sessionAccessError.              *)
Answer(cred) ==
    LET s == server[cred.dev]
    IN  IF s.ver # cred.ver THEN "session_revoked"
        ELSE IF s.status = "device" THEN "device_revoked"
        ELSE IF s.status = "revoked" THEN "session_revoked"
        ELSE IF s.expired # "no" THEN "access_expired" ELSE "ok"

(* refreshSession finds the session only by its newest refresh token.      *)
Refreshable(cred) ==
    LET s == server[cred.dev]
    IN  s.ver = cred.ver /\ s.status = "live" /\ s.expired # "both"

Rotated(d) == [server EXCEPT ![d].ver = @ + 1, ![d].expired = "no"]

(* revokeSessionWithProof, which needs the device's key only.              *)
Revoked(d) == [server EXCEPT ![d].status = IF @ = "live" THEN "revoked" ELSE @]

DeviceRevoked(d) == [server EXCEPT ![d].status = "device"]

(* A revocation that is confirmed, or is not and may still have happened.  *)
Confirmed(d) == server' = Revoked(d) /\ NoFault
Unconfirmed(d) == server' \in {server, Revoked(d)} /\ Fault

-----------------------------------------------------------------------------
(* NewDefaultService: the backend is selected under the lock.              *)
\* Mutant of selectLinuxCredentialBackend: the receipt is not looked at.
SelectByAvailability == IF available THEN "secret-service" ELSE "protected-file"

credentialExists(b) == store[b] # None

selectLinuxCredentialBackend ==
    LET secretExists == available /\ credentialExists("secret-service")
        protectedExists == credentialExists("protected-file")
    IN  CASE receipt = "protected-file" -> IF secretExists THEN None ELSE "protected-file"
          [] receipt = "secret-service" ->
                IF available /\ ~protectedExists THEN "secret-service" ELSE None
          [] receipt = None ->
                IF protectedExists /\ secretExists THEN None
                ELSE IF secretExists \/ (~protectedExists /\ available)
                  THEN "secret-service" ELSE "protected-file"

writeBackendReceipt(b) == receipt' = b

Begin(p, command) ==
    /\ at[p].pc = "idle"
    /\ spent.commands < MaxCommands
    /\ lock = None
    /\ selectLinuxCredentialBackend # None
    /\ writeBackendReceipt(selectLinuxCredentialBackend)
    /\ at' = [at EXCEPT ![p] = [Idle EXCEPT !.pc = "begin", !.cmd = command,
                                            !.backend = selectLinuxCredentialBackend]]
    /\ spent' = [spent EXCEPT !.commands = @ + 1]
    /\ UNCHANGED <<server, store, available, lock, fence, dropped, retained>>

(* A lock that cannot be had in time.                                      *)
LockTimeout(p) ==
    /\ Fault
    /\ \/ at[p].pc = "finalize" /\ Go(p, "unlocked")
       \/ at[p].pc \in {"begin", "release"} /\ Return(p)
    /\ fence' = IF at[p].pc # "finalize" /\ fence # None /\ fence.by = p
                  THEN [fence EXCEPT !.by = None] ELSE fence
    /\ UNCHANGED <<server, store, receipt, available, lock, dropped, retained>>

-----------------------------------------------------------------------------
(* Login.                                                                  *)
(* ClaimLogin: unless the fence of a live process has not expired.         *)
Claimable == fence = None \/ ~(fence.live /\ at[fence.pid].pc # "idle")

writeLoginFence(p) == fence' = [by |-> p, pid |-> p, live |-> TRUE]

BeginLogin(p) ==
    /\ NoFault
    /\ at[p].pc = "begin" /\ at[p].cmd = "login"
    /\ lock = None
    /\ IF load(p) = None /\ Claimable
         THEN writeLoginFence(p) /\ Go(p, "authorize")
         ELSE UNCHANGED fence /\ Return(p)
    /\ UNCHANGED <<server, store, receipt, available, lock, dropped, retained>>

CreateDeviceAuthorization(p) ==
    /\ at[p].pc = "authorize"
    /\ \/ Go(p, "poll") /\ NoFault
       \/ Go(p, "release") /\ Fault
    /\ UNCHANGED <<server, store, receipt, available, lock, fence, dropped, retained>>

(* ExchangeDeviceAuthorization: approved, never approved, or approved with *)
(* the answer lost.  Polling again changes nothing.                        *)
Exchange(p) ==
    /\ at[p].pc = "poll"
    /\ \/ \E d \in Device :
             /\ server[d].status = "none"
             /\ server' = [server EXCEPT ![d].status = "live"]
             /\ \/ /\ at' = [at EXCEPT ![p].pc = "finalize", ![p].cred = [dev |-> d, ver |-> 0]]
                   /\ UNCHANGED dropped /\ NoFault
                \/ Go(p, "release") /\ dropped' = dropped \cup {d} /\ Fault
       \/ Go(p, "release") /\ UNCHANGED <<server, dropped>> /\ NoFault
    /\ UNCHANGED <<store, receipt, available, lock, fence, retained>>

VerifyLogin(p) == fence # None /\ fence.by = p /\ fence.live

Finalize(p) ==
    /\ NoFault
    /\ at[p].pc = "finalize"
    /\ lock = None
    /\ lock' = p
    /\ Go(p, IF VerifyLogin(p) THEN "save" ELSE "cleanup")
    /\ UNCHANGED <<server, store, receipt, available, fence, dropped, retained>>

(* finishLogin: save, then GetCurrentUser.                                 *)
finishLogin(p) ==
    /\ \/ /\ at[p].pc = "save"
          /\ \/ Put(p) /\ Go(p, "verify") /\ NoFault
             \/ (Put(p) \/ UNCHANGED store) /\ Go(p, "cleanup") /\ Fault
          /\ UNCHANGED lock
       \/ /\ at[p].pc = "verify" /\ Answer(at[p].cred) = "ok"
          /\ Go(p, "release") /\ Unlock /\ UNCHANGED store /\ NoFault
       \/ /\ at[p].pc = "verify"
          /\ at' = [at EXCEPT ![p].pc = "cleanup", ![p].stored = TRUE]
          /\ IF Answer(at[p].cred) = "ok" THEN Fault ELSE NoFault
          /\ UNCHANGED <<store, lock>>
    /\ UNCHANGED <<server, receipt, available, fence, dropped, retained>>

(* cleanupIssuedSession, and the same without the lock when the lock could *)
(* not be had: revoke, and keep what could not be revoked.                 *)
cleanupIssuedSession(p) ==
    /\ at[p].pc \in {"cleanup", "unlocked"}
    /\ LET d == at[p].cred.dev
       IN  \/ /\ Confirmed(d) /\ Go(p, "release")
              /\ IF at[p].stored THEN Delete(p) ELSE UNCHANGED store
           \/ /\ at[p].stored
              /\ server' = Revoked(d) /\ Fault /\ Go(p, "release") /\ UNCHANGED store
           \/ /\ Unconfirmed(d)
              /\ Go(p, IF at[p].stored THEN "release" ELSE "retain")
              /\ UNCHANGED store
    /\ lock' = IF at'[p].pc = "release" /\ lock = p THEN None ELSE lock
    /\ UNCHANGED <<receipt, available, fence, dropped, retained>>

Retain(p) ==
    /\ at[p].pc = "retain"
    /\ lock \in {None, p}
    /\ \/ Put(p) /\ retained' = retained \cup {at[p].cred.dev} /\ UNCHANGED dropped /\ NoFault
       \/ /\ dropped' = dropped \cup {at[p].cred.dev}
          /\ UNCHANGED <<store, retained>> /\ Fault
    /\ Go(p, "release")
    /\ Unlock
    /\ UNCHANGED <<server, receipt, available, fence>>

ReleaseLogin(p) ==
    /\ NoFault
    /\ at[p].pc = "release"
    /\ lock = None
    /\ fence' = IF fence # None /\ fence.by = p THEN None ELSE fence
    /\ Return(p)
    /\ UNCHANGED <<server, store, receipt, available, lock, dropped, retained>>

-----------------------------------------------------------------------------
(* Status, Logout and RevokeDevice of the own device, inside the lock.     *)
Acquire(p) == lock = None /\ lock' = p

(* credentialsLocked: the stored credentials may look expired.             *)
credentialsLocked(p) ==
    /\ NoFault
    /\ at[p].pc = "begin" /\ at[p].cmd # "login"
    /\ LET c == load(p)
           next == IF at[p].cmd = "logout" THEN "revoke" ELSE "use"
       IN  \/ /\ c # None
              /\ Acquire(p)
              /\ \E pc \in {next, "refresh"} : at' = [at EXCEPT ![p].pc = pc, ![p].cred = c]
              /\ UNCHANGED fence
           \/ /\ c = None
              /\ lock = None
              /\ Return(p)
              /\ fence' = IF at[p].cmd = "logout" THEN None ELSE fence
              /\ UNCHANGED lock
    /\ UNCHANGED <<server, store, receipt, available, dropped, retained>>

(* Status: a superseded session is revoked before it is forgotten.         *)
AfterRefusal(answer) == IF answer = "session_revoked" THEN "revoke" ELSE "delete"

(* withAccessRetryLocked: the call itself, tried again after a refresh.    *)
withAccessRetryLocked(p) ==
    /\ at[p].pc = "use"
    /\ LET c == at[p].cred
           ok == Answer(c) = "ok"
           status == at[p].cmd = "status"
       IN  \/ ok /\ status /\ Return(p) /\ Unlock /\ UNCHANGED server /\ NoFault
           \/ ok /\ ~status /\ server' = DeviceRevoked(c.dev) /\ Go(p, "delete")
              /\ UNCHANGED lock /\ NoFault
           \/ ok /\ ~status /\ server' = DeviceRevoked(c.dev) /\ Return(p) /\ Unlock /\ Fault
           \/ /\ Answer(c) = "access_expired" /\ ~at[p].tried
              /\ Go(p, "refresh") /\ UNCHANGED <<server, lock>> /\ NoFault
           \/ /\ status /\ Answer(c) \in {"session_revoked", "device_revoked"}
              /\ Go(p, AfterRefusal(Answer(c)))
              /\ UNCHANGED <<server, lock>> /\ NoFault
           \/ /\ \/ Answer(c) = "access_expired" /\ at[p].tried
                 \/ ~status /\ Answer(c) \in {"session_revoked", "device_revoked"}
              /\ Return(p) /\ Unlock /\ UNCHANGED server /\ NoFault
           \/ Return(p) /\ Unlock /\ UNCHANGED server /\ Fault
    /\ UNCHANGED <<store, receipt, available, fence, dropped, retained>>

(* refreshCredentialsLocked up to the new tokens: rotated, refused, or no  *)
(* answer, whether or not the tokens were rotated.                         *)
refreshCredentialsLocked(p) ==
    /\ at[p].pc = "refresh"
    /\ LET c == at[p].cred
       IN  \/ /\ Refreshable(c) /\ c.ver < MaxRotations
              /\ server' = Rotated(c.dev)
              /\ at' = [at EXCEPT ![p].pc = "store", ![p].cred.ver = @ + 1, ![p].tried = TRUE]
              /\ UNCHANGED lock /\ NoFault
           \/ /\ Refreshable(c) /\ c.ver < MaxRotations
              /\ server' = Rotated(c.dev)
              /\ Return(p) /\ Unlock /\ Fault
           \/ /\ ~Refreshable(c)
              /\ at' = [at EXCEPT ![p].pc = "revoke", ![p].missing = TRUE]
              /\ UNCHANGED <<server, lock>> /\ NoFault
           \/ Return(p) /\ Unlock /\ UNCHANGED server /\ Fault
    /\ UNCHANGED <<store, receipt, available, fence, dropped, retained>>

\* Mutant of StoreRotated: the new tokens are used but not stored.
KeepInMemory(p) ==
    /\ at[p].pc = "store"
    /\ Go(p, IF at[p].cmd = "logout" THEN "revoke" ELSE "use") /\ NoFault
    /\ UNCHANGED <<server, store, receipt, available, lock, fence, dropped, retained>>

StoreRotated(p) ==
    /\ at[p].pc = "store"
    /\ \/ Put(p) /\ Go(p, IF at[p].cmd = "logout" THEN "revoke" ELSE "use") /\ NoFault
       \/ (Put(p) \/ UNCHANGED store) /\ Go(p, "discard") /\ Fault
    /\ UNCHANGED <<server, receipt, available, lock, fence, dropped, retained>>

(* cleanupRotatedSession.                                                  *)
cleanupRotatedSession(p) ==
    /\ at[p].pc = "discard"
    /\ \/ Confirmed(at[p].cred.dev) /\ Delete(p)
       \/ server' = Revoked(at[p].cred.dev) /\ UNCHANGED store /\ Fault
       \/ Unconfirmed(at[p].cred.dev) /\ (Put(p) \/ UNCHANGED store)
    /\ Return(p)
    /\ Unlock
    /\ UNCHANGED <<receipt, available, fence, dropped, retained>>

\* Mutant of revokeSessionStable: what is not confirmed is deleted as well.
RevokeUnconfirmed(p) ==
    /\ at[p].pc = "revoke"
    /\ Confirmed(at[p].cred.dev) \/ Unconfirmed(at[p].cred.dev)
    /\ Go(p, "delete")
    /\ UNCHANGED <<store, receipt, available, lock, fence, dropped, retained>>

(* revokeSessionStable: local credentials are kept until it is confirmed.  *)
revokeSessionStable(p) ==
    /\ at[p].pc = "revoke"
    /\ \/ Confirmed(at[p].cred.dev) /\ Go(p, "delete") /\ UNCHANGED lock
       \/ Unconfirmed(at[p].cred.dev) /\ Return(p) /\ Unlock
    /\ UNCHANGED <<store, receipt, available, fence, dropped, retained>>

(* A logout that finds its session gone also cancels a pending login.      *)
DeleteLocal(p) ==
    /\ at[p].pc = "delete"
    /\ \/ Delete(p) /\ fence' = (IF at[p].missing /\ at[p].cmd = "logout" THEN None ELSE fence)
          /\ NoFault
       \/ (Delete(p) \/ UNCHANGED store) /\ UNCHANGED fence /\ Fault
    /\ Return(p)
    /\ Unlock
    /\ UNCHANGED <<server, receipt, available, dropped, retained>>

-----------------------------------------------------------------------------
(* The surroundings.                                                       *)
Crash(p) ==
    /\ Fault
    /\ at[p].pc # "idle"
    /\ Return(p)
    /\ lock' = IF lock = p THEN None ELSE lock
    /\ fence' = IF fence # None /\ fence.by = p THEN [fence EXCEPT !.by = None] ELSE fence
    /\ dropped' = dropped \cup {d \in Device : InFlight(p, d)}
    /\ UNCHANGED <<server, store, receipt, available, retained>>

(* Another device of the user revokes this one; time passes.               *)
Elsewhere ==
    /\ \/ \E d \in Device :
             /\ Live(d)
             /\ server' \in {DeviceRevoked(d),
                             [server EXCEPT ![d].expired = IF @ = "no" THEN "access" ELSE "both"]}
             /\ UNCHANGED <<fence, available>>
       \/ /\ fence # None /\ fence.live
          /\ fence' = [fence EXCEPT !.live = FALSE]
          /\ UNCHANGED <<server, available>>
       \/ available' = ~available /\ UNCHANGED <<server, fence>>
    /\ UNCHANGED <<store, receipt, lock, at, dropped, retained, spent>>

Step(p) ==
    \/ \E c \in Command : Begin(p, c)
    \/ LockTimeout(p)
    \/ BeginLogin(p) \/ CreateDeviceAuthorization(p) \/ Exchange(p) \/ Finalize(p)
    \/ finishLogin(p) \/ cleanupIssuedSession(p) \/ Retain(p) \/ ReleaseLogin(p)
    \/ credentialsLocked(p) \/ withAccessRetryLocked(p) \/ refreshCredentialsLocked(p)
    \/ StoreRotated(p) \/ cleanupRotatedSession(p) \/ revokeSessionStable(p) \/ DeleteLocal(p)
    \/ Crash(p)

Next == (\E p \in Proc : Step(p)) \/ Elsewhere

Spec == Init /\ [][Next]_vars

-----------------------------------------------------------------------------
(* Properties.                                                             *)

(* "Response loss and rotation cannot orphan the session" (service.go:368):*)
(* a session that is live at the API can be revoked from here, because its *)
(* device is in the store or in the hands of a running login, unless a     *)
(* crash or a failed write destroyed the only copy before it was saved, or *)
(* a login without a fence had to keep its session.                        *)
LiveIsReachable ==
    \A d \in Device :
        Live(d) => \/ Stored(d)
                   \/ \E p \in Proc : InFlight(p, d)
                   \/ d \in dropped
                   \/ retained # {}

(* However often the Secret Service comes and goes, credentials are never  *)
(* in both backends, and all processes work on the same one.               *)
OneBackend ==
    /\ \E b \in Backend : store[b] = None
    /\ \A p \in Proc : at[p].pc # "idle" => at[p].backend = receipt

(* Processes that share one refresh token rotate it one after the other:   *)
(* as long as nothing fails, what is stored outside the lock is the newest *)
(* generation and no process is signed out by another's refresh.           *)
RotationIsSerialized ==
    spent.faults = 0 /\ lock = None =>
        \A b \in Backend :
            store[b] # None /\ Live(store[b].dev) => store[b].ver = server[store[b].dev].ver
=============================================================================
