-------------------------- MODULE SessionAuthProofs --------------------------
(***************************************************************************)
(* Theorems about SessionAuth, for any number of processes, devices,       *)
(* commands, faults and rotations.                                         *)
(***************************************************************************)
EXTENDS SessionAuth, TLAPS

-----------------------------------------------------------------------------
(* The inductive invariant. *)

PC == {"idle", "begin", "authorize", "poll", "finalize", "unlocked", "retain", "save", "cleanup",
       "verify", "release", "use", "refresh", "store", "discard", "revoke", "delete"}
Using == {"use", "refresh", "store", "discard", "revoke", "delete"}
Locked == Using \cup {"save", "verify", "cleanup"}
Issued == Unsaved \cup {"verify"}
Carrying == Issued \cup Using

SessionRow ==
    [status : {"none", "live", "revoked", "device"}, ver : Nat, expired : {"no", "access", "both"}]
ProcRow == [pc : PC, cmd : Command, backend : Backend, cred : Credentials \cup {None},
            stored : BOOLEAN, tried : BOOLEAN, missing : BOOLEAN]

TypeOK ==
    /\ server \in [Device -> SessionRow]
    /\ store \in [Backend -> Credentials \cup {None}]
    /\ receipt \in Backend \cup {None}
    /\ fence \in LoginFence \cup {None}
    /\ at \in [Proc -> ProcRow]
    /\ dropped \subseteq Device /\ retained \subseteq Device
    /\ spent \in [commands : Nat, faults : Nat]

\* Only the selected backend is ever written.
Selected ==
    /\ \A b \in Backend : store[b] # None => receipt = b
    /\ \A p \in Proc : at[p].pc # "idle" => at[p].backend = receipt

\* A process that has read, or is about to write, what is stored is in the lock.
Mutex == \A p \in Proc : at[p].pc \in Locked => lock = p

\* A process that carries credentials names a session that exists or existed; a
\* process in the lock carries the session that is stored; and it deletes what it
\* carries only once the session is over.
Carries(p) ==
    at[p].pc \in Carrying =>
        at[p].cred \in Credentials /\ server[at[p].cred.dev].status # "none"
Holding(p) ==
    /\ at[p].stored => at[p].pc \in {"cleanup", "release"}
    /\ at[p].pc \in Using \cup {"verify"} \/ (at[p].pc = "cleanup" /\ at[p].stored) =>
          /\ store[at[p].backend] \in Credentials
          /\ store[at[p].backend].dev = at[p].cred.dev
    /\ at[p].pc = "delete" => server[at[p].cred.dev].status \in {"revoked", "device"}
Held ==
    /\ \A p \in Proc : Carries(p) /\ Holding(p)
    /\ \A b \in Backend : store[b] # None => server[store[b].dev].status # "none"

\* The session of a login that is not over is nobody else's.
Fresh ==
    /\ \A p, q \in Proc :
          p # q /\ at[p].pc \in Issued /\ at[q].pc \in Issued => at[p].cred.dev # at[q].cred.dev
    /\ \A p \in Proc : at[p].pc \in {"finalize", "save"} =>
          /\ \A b \in Backend : store[b] # None => store[b].dev # at[p].cred.dev
          /\ at[p].cred.ver = server[at[p].cred.dev].ver
    /\ \A d \in Device : server[d].status = "none" => server[d].ver = 0

\* While a login has the fence nothing is stored, except by a login that had to
\* keep its session without one.
Claimed(p) ==
    /\ at[p].pc = "save" => fence \in LoginFence /\ fence.by = p
    /\ /\ at[p].pc \in {"authorize", "poll", "finalize", "save"}
       /\ fence \in LoginFence /\ fence.by = p
       => retained # {} \/ \A b \in Backend : store[b] = None
Fenced == \A p \in Proc : Claimed(p)

\* What is stored is behind the API only while a process is about to store what
\* it was given for it.
Current ==
    /\ \A p \in Proc : at[p].pc = "store" => at[p].cred.ver = server[at[p].cred.dev].ver
    /\ spent.faults = 0 =>
          /\ \A p \in Proc : at[p].pc # "retain"
          /\ \A b \in Backend : store[b] # None /\ Live(store[b].dev) =>
                \/ store[b].ver = server[store[b].dev].ver
                \/ \E p \in Proc : at[p].pc = "store"

SessionInv == TypeOK /\ Selected /\ Mutex /\ Held /\ Fresh /\ Fenced /\ Current /\ LiveIsReachable

-----------------------------------------------------------------------------
(* A step as the other processes see it. *)

\* Sessions only end, and no token is rotated.
Ends ==
    /\ server' \in [Device -> SessionRow]
    /\ \A d \in Device :
          /\ server'[d].ver = server[d].ver
          /\ \/ server'[d].status = server[d].status
             \/ server[d].status # "none" /\ server'[d].status \in {"revoked", "device"}

\* What is stored stays the same session, or goes with its session.
Rewrites ==
    /\ store' \in [Backend -> Credentials \cup {None}]
    /\ \A b \in Backend :
          /\ store'[b] # None => store[b] # None /\ store'[b].dev = store[b].dev
          /\ store[b] # None /\ store'[b] = None => server'[store[b].dev].status # "live"
          /\ store'[b] # None /\ spent'.faults = 0 =>
                store'[b].ver \in {store[b].ver, server'[store'[b].dev].ver}

\* The fence of another process stays its own.
FenceKept(p) ==
    /\ fence' \in LoginFence \cup {None}
    /\ \A q \in Proc \ {p} :
          /\ fence' \in LoginFence /\ fence'.by = q => fence \in LoginFence /\ fence.by = q
          /\ at[q].pc = "save" => fence' \in LoginFence /\ fence'.by = q

Moves(p) ==
    /\ at' \in [Proc -> ProcRow] /\ \A q \in Proc \ {p} : at'[q] = at[q]
    /\ \A q \in Proc \ {p} : at[q].pc \in Locked => lock' = q /\ store' = store
    /\ receipt' = receipt /\ retained' = retained
    /\ dropped \subseteq dropped' /\ dropped' \subseteq Device
    /\ spent' \in [commands : Nat, faults : Nat] /\ (spent'.faults = 0 => spent.faults = 0)

Turn(p) == Moves(p) /\ Ends /\ Rewrites /\ FenceKept(p)

\* What the process that moves owes for its own row.
Owes(p) ==
    /\ at'[p].pc # "idle" => at'[p].backend = receipt
    /\ at'[p].pc \in Locked => lock' = p
    /\ Carries(p)' /\ Holding(p)' /\ Claimed(p)'
    /\ at'[p].pc \in Issued => at[p].pc \in Issued /\ at'[p].cred = at[p].cred
    /\ at'[p].pc \in {"finalize", "save"} => at[p].pc = "finalize"
    /\ at'[p].pc # "store"
    /\ spent'.faults = 0 =>
          /\ at'[p].pc # "retain"
          /\ at[p].pc = "store" => \A b \in Backend :
                store'[b] # None => store'[b].ver = server'[store'[b].dev].ver
    /\ \A d \in Device : InFlight(p, d) =>
          InFlight(p, d)' \/ Stored(d)' \/ server'[d].status # "live" \/ d \in dropped'

\* A turn of one process keeps the invariant, when the process pays what it owes.
LEMMA TurnKept ==
    ASSUME SessionInv, NEW p, Turn(p), p \in Proc => Owes(p)
    PROVE  SessionInv'
<1>1. /\ TypeOK /\ Selected /\ Mutex /\ Held /\ Fresh /\ Fenced /\ Current /\ LiveIsReachable
      /\ Moves(p) /\ Ends /\ Rewrites /\ FenceKept(p)
  BY DEF SessionInv, Turn
<1>2. ASSUME NEW q \in Proc PROVE q # p \/ Owes(p)
  OBVIOUS
<1>3. TypeOK'
  BY <1>1 DEF TypeOK, Moves, Ends, Rewrites, FenceKept
<1>4. Selected'
  <2>1. \A b \in Backend : store'[b] # None => receipt' = b
    BY <1>1 DEF Selected, Moves, Rewrites
  <2>2. ASSUME NEW q \in Proc, at'[q].pc # "idle" PROVE at'[q].backend = receipt'
    BY <1>1, <1>2, <2>2 DEF Selected, Moves, Owes
  <2>. QED  BY <2>1, <2>2 DEF Selected
<1>5. Mutex'
  BY <1>1, <1>2 DEF Mutex, Moves, Owes
<1>6. ASSUME NEW d \in Device, server[d].status # "none" PROVE server'[d].status # "none"
  BY <1>1, <1>6 DEF Ends
<1>7. Held'
  <2>1. ASSUME NEW q \in Proc \ {p} PROVE Carries(q)'
    BY <1>1, <1>6 DEF Held, Carries, Moves, Credentials
  <2>2. ASSUME NEW q \in Proc \ {p} PROVE Holding(q)'
    <3>1. at'[q] = at[q] /\ (at[q].pc \in Locked => store' = store)
      BY <1>1 DEF Moves
    <3>2. at[q].pc = "delete" => server'[at[q].cred.dev].status \in {"revoked", "device"}
      BY <1>1 DEF Held, Holding, Carries, Carrying, Using, Ends, Credentials
    <3>. QED  BY <1>1, <3>1, <3>2 DEF Held, Holding, Locked, Using
  <2>3. ASSUME NEW b \in Backend, store'[b] # None
        PROVE  server'[store'[b].dev].status # "none"
    <3>1. store[b] # None /\ store'[b].dev = store[b].dev /\ store[b].dev \in Device
      BY <1>1, <2>3 DEF Rewrites, TypeOK, Credentials
    <3>. QED  BY <1>1, <1>6, <3>1 DEF Held
  <2>4. ASSUME NEW q \in Proc PROVE Carries(q)' /\ Holding(q)'
    BY <1>2, <2>1, <2>2 DEF Owes
  <2>. QED  BY <2>3, <2>4 DEF Held
<1>8. Fresh'
  <2>1. ASSUME NEW q \in Proc, at'[q].pc \in Issued
        PROVE  at[q].pc \in Issued /\ at'[q].cred = at[q].cred
    BY <1>1, <1>2, <2>1 DEF Moves, Owes
  <2>2. ASSUME NEW q \in Proc, at'[q].pc \in {"finalize", "save"}
        PROVE  /\ at[q].pc \in {"finalize", "save"} /\ at'[q].cred = at[q].cred
               /\ at[q].cred.dev \in Device
    <3>1. at[q].pc \in {"finalize", "save"} /\ at'[q].pc \in Issued
      BY <1>1, <1>2, <2>2 DEF Moves, Owes, Issued, Unsaved
    <3>. QED  BY <1>1, <2>1, <3>1 DEF Held, Carries, Carrying, Issued, Credentials
  <2>3. ASSUME NEW q \in Proc, at'[q].pc \in {"finalize", "save"}
        PROVE  /\ \A b \in Backend : store'[b] # None => store'[b].dev # at'[q].cred.dev
               /\ at'[q].cred.ver = server'[at'[q].cred.dev].ver
    BY <1>1, <2>2, <2>3 DEF Fresh, Rewrites, Ends
  <2>4. \A q, r \in Proc :
           q # r /\ at'[q].pc \in Issued /\ at'[r].pc \in Issued => at'[q].cred.dev # at'[r].cred.dev
    BY <1>1, <2>1 DEF Fresh
  <2>5. \A d \in Device : server'[d].status = "none" => server'[d].ver = 0
    BY <1>1 DEF Fresh, Ends
  <2>. QED  BY <2>3, <2>4, <2>5 DEF Fresh
<1>9. Fenced'
  <2>1. ASSUME NEW q \in Proc \ {p} PROVE Claimed(q)'
    <3>1. at'[q] = at[q] /\ retained' = retained /\ Claimed(q)
      BY <1>1 DEF Moves, Fenced
    <3>2. \A b \in Backend : store[b] = None => store'[b] = None
      BY <1>1 DEF Rewrites
    <3>. QED  BY <1>1, <3>1, <3>2 DEF Claimed, FenceKept
  <2>2. ASSUME NEW q \in Proc PROVE Claimed(q)'
    BY <1>2, <2>1 DEF Owes
  <2>. QED  BY <2>2 DEF Fenced
<1>10. Current'
  <2>1. ASSUME NEW q \in Proc, at'[q].pc = "store"
        PROVE  at'[q].cred.ver = server'[at'[q].cred.dev].ver
    <3>1. at'[q] = at[q]
      BY <1>1, <1>2, <2>1 DEF Owes, Moves
    <3>2. at[q].cred.dev \in Device
      BY <1>1, <2>1, <3>1 DEF Held, Carries, Carrying, Using, Credentials
    <3>. QED  BY <1>1, <2>1, <3>1, <3>2 DEF Current, Ends
  <2>2. ASSUME spent'.faults = 0, NEW q \in Proc PROVE at'[q].pc # "retain"
    BY <1>1, <1>2, <2>2 DEF Current, Moves, Owes
  <2>3. ASSUME spent'.faults = 0, NEW b \in Backend, store'[b] # None,
               server'[store'[b].dev].status = "live"
        PROVE  store'[b].ver = server'[store'[b].dev].ver \/ \E q \in Proc : at'[q].pc = "store"
    <3>1. /\ store[b] # None /\ store'[b].dev = store[b].dev /\ store[b].dev \in Device
          /\ store'[b].ver \in {store[b].ver, server'[store'[b].dev].ver}
      BY <1>1, <2>3 DEF Rewrites, TypeOK, Credentials
    <3>2. /\ server[store[b].dev].status = "live"
          /\ server'[store[b].dev].ver = server[store[b].dev].ver
      BY <1>1, <2>3, <3>1 DEF Ends
    <3>3. store[b].ver = server[store[b].dev].ver \/ \E q \in Proc : at[q].pc = "store"
      BY <1>1, <2>3, <3>1, <3>2 DEF Current, Live, Moves
    <3>4. ASSUME NEW q \in Proc, at[q].pc = "store"
          PROVE  at'[q].pc = "store" \/ store'[b].ver = server'[store'[b].dev].ver
      BY <1>1, <1>2, <2>3, <3>4 DEF Moves, Owes
    <3>. QED  BY <3>1, <3>2, <3>3, <3>4
  <2>. QED  BY <2>1, <2>2, <2>3 DEF Current, Live
<1>11. LiveIsReachable'
  <2>. SUFFICES ASSUME NEW d \in Device, server'[d].status = "live", retained' = {}, d \notin dropped'
                PROVE  Stored(d)' \/ \E q \in Proc : InFlight(q, d)'
    BY DEF LiveIsReachable, Live
  <2>1. server[d].status = "live"
    BY <1>1 DEF Ends
  <2>2. Stored(d) \/ \E q \in Proc : InFlight(q, d)
    BY <1>1, <2>1 DEF LiveIsReachable, Live, Moves
  <2>3. CASE Stored(d)
    BY <1>1, <2>3 DEF Stored, Rewrites
  <2>4. ASSUME NEW q \in Proc, InFlight(q, d) PROVE InFlight(q, d)' \/ Stored(d)'
    <3>1. CASE q # p
      BY <1>1, <2>4, <3>1 DEF InFlight, Moves
    <3>. QED  BY <1>2, <2>4, <3>1 DEF Owes
  <2>. QED  BY <2>2, <2>3, <2>4
<1>. QED
  BY <1>3, <1>4, <1>5, <1>7, <1>8, <1>9, <1>10, <1>11 DEF SessionInv

-----------------------------------------------------------------------------
(* The parts of a step. *)

\* The row of a process that goes on, and of one that returns.
Went(p, pc) ==
    /\ at' \in [Proc -> ProcRow] /\ \A q \in Proc \ {p} : at'[q] = at[q]
    /\ at'[p].pc = pc /\ at'[p].cred = at[p].cred /\ at'[p].backend = at[p].backend
    /\ at'[p].stored = at[p].stored
Rested(p) ==
    /\ at' \in [Proc -> ProcRow] /\ \A q \in Proc \ {p} : at'[q] = at[q]
    /\ at'[p].pc = "idle" /\ ~at'[p].stored

\* Go and Return, by what they leave in the row of the process.
LEMMA Goes ==
    ASSUME TypeOK, NEW p \in Proc, NEW pc \in PC, Go(p, pc)
    PROVE  Went(p, pc)
  BY DEF TypeOK, ProcRow, Go, Went

\* ... and the end of a command, which gives up what it holds.
LEMMA Returns ==
    ASSUME TypeOK, NEW p \in Proc, Return(p)
    PROVE  Rested(p)
<1>1. Idle \in ProcRow /\ Idle.pc = "idle" /\ ~Idle.stored
  BY DEF Idle, ProcRow, PC, Command, Backend
<1>. QED  BY <1>1 DEF TypeOK, Return, Rested

\* In the lock, or with the lock free, a process is the only one to touch the store.
LEMMA Alone ==
    ASSUME Mutex, NEW p \in Proc, at[p].pc \in Locked \/ lock \in {None, p}
    PROVE  \A q \in Proc \ {p} : at[q].pc \notin Locked
  BY NoneDiffers DEF Mutex

\* A fault is counted, and nothing else uncounts it.
LEMMA Spends ==
    ASSUME TypeOK, Fault \/ NoFault
    PROVE  /\ spent' \in [commands : Nat, faults : Nat]
           /\ spent'.faults = 0 => spent.faults = 0 /\ NoFault
           /\ Fault => spent'.faults # 0
  BY DEF TypeOK, Fault, NoFault

\* What revocations do to the sessions.
LEMMA EndsSession ==
    ASSUME TypeOK, NEW d \in Device, server[d].status # "none",
           server' \in {server, Revoked(d), DeviceRevoked(d)}
    PROVE  /\ Ends
           /\ server' \in {Revoked(d), DeviceRevoked(d)} => server'[d].status \in {"revoked", "device"}
  BY DEF TypeOK, SessionRow, Ends, Revoked, DeviceRevoked

\* Without a change of the server no session ends or moves on.
LEMMA EndsNone == ASSUME TypeOK, server' = server PROVE Ends
  BY DEF TypeOK, Ends

\* What a process does to the store.
LEMMA RewritesNone == ASSUME TypeOK, store' = store PROVE Rewrites
  BY DEF TypeOK, Rewrites

\* Deleting a credential whose session has ended loses nothing.
LEMMA RewritesDelete ==
    ASSUME TypeOK, NEW p \in Proc, at[p].backend \in Backend, Delete(p),
           store[at[p].backend] # None => server'[store[at[p].backend].dev].status # "live"
    PROVE  Rewrites
  BY DEF TypeOK, Rewrites, Delete

\* Storing the next generation in place of the last loses nothing.
LEMMA RewritesPut ==
    ASSUME TypeOK, NEW p \in Proc, at[p].backend \in Backend, Put(p), at[p].cred \in Credentials,
           store[at[p].backend] \in Credentials, store[at[p].backend].dev = at[p].cred.dev,
           spent'.faults = 0 => at[p].cred.ver = server'[at[p].cred.dev].ver
    PROVE  Rewrites
  BY NoneDiffers DEF TypeOK, Rewrites, Put

\* What a process does to the fence.
LEMMA FenceSame ==
    ASSUME SessionInv, NEW p, fence' = fence
    PROVE  FenceKept(p)
  BY DEF SessionInv, TypeOK, FenceKept, Fenced, Claimed

\* The fence stays or is taken away under the lock.
LEMMA FenceCleared ==
    ASSUME SessionInv, NEW p \in Proc, lock \in {None, p}, fence' \in {fence, None}
    PROVE  FenceKept(p)
<1>1. \A q \in Proc \ {p} : at[q].pc # "save"
  BY Alone DEF SessionInv, Locked
<1>2. fence' \in LoginFence => fence' = fence
  BY NoneDiffers
<1>. QED  BY <1>1, <1>2 DEF SessionInv, TypeOK, FenceKept

\* A fence may lose the process it is of.
LEMMA FenceDropped ==
    ASSUME SessionInv, NEW p \in Proc,
           fence' = [fence EXCEPT !.by = None], fence # None, fence.by = p
    PROVE  FenceKept(p)
<1>1. fence \in LoginFence /\ fence' \in LoginFence /\ fence'.by = None
  BY DEF SessionInv, TypeOK, LoginFence
<1>2. \A q \in Proc \ {p} : at[q].pc # "save"
  BY DEF SessionInv, Fenced, Claimed
<1>. QED  BY <1>1, <1>2, NoneDiffers DEF FenceKept

\* A process that returns owes only what it carried.
LEMMA RestedOwes ==
    ASSUME SessionInv, NEW p \in Proc, Rested(p), spent'.faults = 0 => spent.faults = 0,
           at[p].pc = "store" => spent'.faults # 0,
           \A d \in Device : InFlight(p, d) => server'[d].status # "live" \/ d \in dropped'
    PROVE  Owes(p)
  BY DEF Rested, Owes, Carries, Holding, Claimed, Locked, Using, Carrying, Issued, Unsaved

\* A process that goes on with what it carries, within the lock or without.
LEMMA WentOwes ==
    ASSUME SessionInv, Ends, NEW p \in Proc, NEW pc \in PC \ {"idle", "store"}, Went(p, pc),
           at[p].pc # "idle", pc \in Locked => lock' = p,
           pc \in Carrying => at[p].pc \in Carrying,
           Holding(p)', Claimed(p)',
           pc \in Issued => at[p].pc \in Issued,
           pc \in {"finalize", "save"} => at[p].pc = "finalize",
           spent'.faults = 0 =>
              /\ pc # "retain"
              /\ at[p].pc = "store" => \A b \in Backend :
                    store'[b] # None => store'[b].ver = server'[store'[b].dev].ver,
           \A d \in Device : InFlight(p, d) =>
              pc \in Unsaved \/ Stored(d)' \/ server'[d].status # "live" \/ d \in dropped'
    PROVE  Owes(p)
<1>1. at'[p].backend = receipt /\ at'[p].pc = pc /\ at'[p].cred = at[p].cred
  BY DEF SessionInv, Selected, Went
<1>2. Carries(p)'
  BY <1>1 DEF SessionInv, Held, Carries, Ends, Credentials
<1>3. \A d \in Device : InFlight(p, d) =>
         InFlight(p, d)' \/ Stored(d)' \/ server'[d].status # "live" \/ d \in dropped'
  BY <1>1 DEF InFlight
<1>. QED  BY <1>1, <1>2, <1>3 DEF Owes

-----------------------------------------------------------------------------
(* Steps in which sessions and the store stay as they are. *)

\* Nothing but the process, the fence, the lock and the bounds change.
LEMMA Silent ==
    ASSUME SessionInv, NEW p \in Proc, server' = server, store' = store, receipt' = receipt,
           retained' = retained, dropped' = dropped, Fault \/ NoFault, FenceKept(p),
           \A q \in Proc \ {p} : at[q].pc \in Locked => lock' = q,
           at' \in [Proc -> ProcRow], \A q \in Proc \ {p} : at'[q] = at[q], Owes(p)
    PROVE  SessionInv'
<1>1. Moves(p)
  BY Spends DEF Moves, SessionInv, TypeOK
<1>2. Turn(p)
  BY <1>1, EndsNone, RewritesNone DEF Turn, SessionInv
<1>. QED  BY <1>2, TurnKept

\* A process returns from where it carries nothing new, and lets go of the lock.
LEMMA SilentReturn ==
    ASSUME SessionInv, NEW p \in Proc, server' = server, store' = store, receipt' = receipt,
           retained' = retained, dropped' = dropped, Fault \/ NoFault, FenceKept(p), Return(p),
           at[p].pc \notin Unsaved, at[p].pc = "store" => Fault,
           lock' = lock \/ at[p].pc \in Locked \/ lock = None
    PROVE  SessionInv'
<1>1. Rested(p)
  BY Returns DEF SessionInv
<1>2. Owes(p)
  BY <1>1, RestedOwes, Spends DEF SessionInv, InFlight
<1>3. \A q \in Proc \ {p} : at[q].pc \in Locked => lock' = q
  BY Alone DEF SessionInv, Mutex
<1>. QED  BY <1>1, <1>2, <1>3, Silent DEF Rested

\* A process goes on with what it carries.
LEMMA SilentGo ==
    ASSUME SessionInv, NEW p \in Proc, server' = server, store' = store, receipt' = receipt,
           retained' = retained, dropped' = dropped, Fault \/ NoFault, FenceKept(p),
           NEW pc \in PC \ {"idle", "store"}, Go(p, pc), at[p].pc # "idle",
           \A q \in Proc \ {p} : at[q].pc \in Locked => lock' = q,
           pc \in Locked => lock' = p,
           pc \in Carrying => at[p].pc \in Carrying,
           Holding(p)', Claimed(p)',
           pc \in Issued => at[p].pc \in Issued,
           pc \in {"finalize", "save"} => at[p].pc = "finalize",
           pc = "retain" \/ at[p].pc = "store" => Fault,
           at[p].pc \in Unsaved => pc \in Unsaved
    PROVE  SessionInv'
<1>1. Went(p, pc) /\ Ends
  BY Goes, EndsNone DEF SessionInv
<1>2. Owes(p)
  BY <1>1, WentOwes, Spends DEF SessionInv, InFlight
<1>. QED  BY <1>1, <1>2, Silent DEF Went

\* A command that does not get the lock leaves the sessions alone.
LEMMA LockTimeoutKept ==
    ASSUME SessionInv, NEW p \in Proc, LockTimeout(p)
    PROVE  SessionInv'
<1>1. CASE at[p].pc = "finalize" /\ Go(p, "unlocked")
  <2>1. FenceKept(p)
    BY <1>1, FenceSame DEF LockTimeout
  <2>2. "unlocked" \in PC \ {"idle", "store"} /\ Went(p, "unlocked")
    BY <1>1, Goes DEF PC, SessionInv
  <2>3. Holding(p)' /\ Claimed(p)'
    BY <1>1, <2>2 DEF Holding, Claimed, Went, SessionInv, Held, Using
  <2>4. "unlocked" \notin Locked /\ "unlocked" \in Unsaved /\ "finalize" \in Issued
    BY DEF Locked, Using, Unsaved, Issued
  <2>. QED  BY <1>1, <2>1, <2>2, <2>3, <2>4, SilentGo DEF LockTimeout, SessionInv, Mutex, Carrying
<1>2. CASE at[p].pc \in {"begin", "release"} /\ Return(p)
  <2>1. FenceKept(p)
    BY <1>2, FenceSame, FenceDropped DEF LockTimeout
  <2>. QED  BY <1>2, <2>1, SilentReturn DEF LockTimeout, Unsaved
<1>. QED  BY <1>1, <1>2 DEF LockTimeout

\* A login claims the fence only when nothing is stored.
LEMMA BeginLoginKept ==
    ASSUME SessionInv, NEW p \in Proc, BeginLogin(p)
    PROVE  SessionInv'
<1>1. CASE UNCHANGED fence /\ Return(p)
  BY <1>1, FenceSame, SilentReturn DEF BeginLogin, Unsaved
<1>2. CASE load(p) = None /\ writeLoginFence(p) /\ Go(p, "authorize")
  <2>1. \A q \in Proc \ {p} : at[q].pc \notin Locked
    BY Alone DEF BeginLogin, SessionInv
  <2>2. fence' \in LoginFence /\ fence'.by = p
    BY <1>2 DEF writeLoginFence, LoginFence
  <2>3. FenceKept(p)
    BY <2>1, <2>2 DEF FenceKept, Locked
  <2>4. "authorize" \in PC \ {"idle", "store"} /\ Went(p, "authorize")
    BY <1>2, Goes DEF PC, SessionInv
  <2>5. \A b \in Backend : store[b] = None
    BY <1>2 DEF BeginLogin, load, SessionInv, Selected
  <2>6. Claimed(p)' /\ Holding(p)'
    BY <2>4, <2>5 DEF BeginLogin, Claimed, Holding, Went, SessionInv, Held, Using
  <2>7. "authorize" \notin Locked \cup Carrying \cup Issued /\ "begin" \notin Unsaved
    BY DEF Locked, Using, Unsaved, Issued, Carrying
  <2>. QED  BY <1>2, <2>1, <2>3, <2>4, <2>6, <2>7, SilentGo DEF BeginLogin
<1>. QED  BY <1>1, <1>2 DEF BeginLogin

\* A device authorization leaves the sessions alone.
LEMMA AuthorizationKept ==
    ASSUME SessionInv, NEW p \in Proc, CreateDeviceAuthorization(p)
    PROVE  SessionInv'
<1>1. PICK pc \in {"poll", "release"} : Go(p, pc) /\ (Fault \/ NoFault)
  BY DEF CreateDeviceAuthorization
<1>2. pc \in PC \ {"idle", "store"} /\ Went(p, pc)
  BY <1>1, Goes DEF PC, SessionInv
<1>3. Claimed(p)' /\ Holding(p)'
  BY <1>2 DEF CreateDeviceAuthorization, Claimed, Holding, Went, SessionInv, Held, Fenced, Using
<1>4. pc \notin Locked \cup Carrying \cup Issued /\ "authorize" \notin Unsaved
  BY DEF Locked, Using, Unsaved, Issued, Carrying
<1>. QED
  BY <1>1, <1>2, <1>3, <1>4, FenceSame, SilentGo DEF CreateDeviceAuthorization, SessionInv, Mutex

\* A login goes on to save only with the fence.
LEMMA FinalizeKept ==
    ASSUME SessionInv, NEW p \in Proc, Finalize(p)
    PROVE  SessionInv'
<1>1. PICK pc \in {"save", "cleanup"} : Go(p, pc) /\ (pc = "save" => VerifyLogin(p))
  BY DEF Finalize
<1>2. pc \in PC \ {"idle", "store"} /\ Went(p, pc)
  BY <1>1, Goes DEF PC, SessionInv
<1>3. \A q \in Proc \ {p} : at[q].pc \notin Locked
  BY Alone DEF Finalize, SessionInv
<1>4. Claimed(p)'
  BY <1>1, <1>2 DEF Finalize, Claimed, Went, SessionInv, Fenced, VerifyLogin, TypeOK
<1>5. Holding(p)'
  BY <1>2 DEF Finalize, Holding, Went, SessionInv, Held, Using
<1>6. pc \in Unsaved /\ "finalize" \in Unsaved
  BY DEF Unsaved
<1>. QED
  BY <1>1, <1>2, <1>3, <1>4, <1>5, <1>6, FenceSame, SilentGo DEF Finalize, Carrying, Issued

\* A login gives up its claim.
LEMMA ReleaseLoginKept ==
    ASSUME SessionInv, NEW p \in Proc, ReleaseLogin(p)
    PROVE  SessionInv'
<1>1. FenceKept(p)
  BY FenceCleared DEF ReleaseLogin
<1>. QED  BY <1>1, SilentReturn DEF ReleaseLogin, Unsaved

-----------------------------------------------------------------------------
(* Steps that end a session, or write what is stored. *)

\* As SilentReturn and SilentGo, for a step that revokes or writes.
LEMMA ReturnKept ==
    ASSUME SessionInv, NEW p \in Proc, Ends, Rewrites, FenceKept(p), receipt' = receipt,
           retained' = retained, dropped' = dropped, Fault \/ NoFault, Return(p),
           at[p].pc \in Using, at[p].pc = "store" => Fault
    PROVE  SessionInv'
<1>1. Rested(p)
  BY Returns DEF SessionInv
<1>2. Owes(p)
  BY <1>1, RestedOwes, Spends DEF SessionInv, InFlight, Using, Unsaved
<1>3. \A q \in Proc \ {p} : at[q].pc \notin Locked
  BY Alone DEF SessionInv, Locked
<1>4. Moves(p)
  BY <1>1, <1>3, Spends DEF Moves, Rested, SessionInv, TypeOK
<1>. QED  BY <1>2, <1>4, TurnKept DEF Turn

\* A step that only moves one process on keeps the invariant, if what it carries stays accounted for.
LEMMA GoKept ==
    ASSUME SessionInv, NEW p \in Proc, Ends, Rewrites, FenceKept(p), receipt' = receipt,
           retained' = retained, dropped' = dropped, Fault \/ NoFault,
           NEW pc \in PC \ {"idle", "store"}, Go(p, pc), at[p].pc # "idle",
           \A q \in Proc \ {p} : at[q].pc \in Locked => lock' = q /\ store' = store,
           pc \in Locked => lock' = p,
           pc \in Carrying => at[p].pc \in Carrying,
           Holding(p)', Claimed(p)',
           pc \in Issued => at[p].pc \in Issued,
           pc \notin {"finalize", "save"},
           pc = "retain" => Fault,
           at[p].pc = "store" => Fault \/ (\A b \in Backend :
                    store'[b] # None => store'[b].ver = server'[store'[b].dev].ver),
           \A d \in Device : InFlight(p, d) =>
              pc \in Unsaved \/ Stored(d)' \/ server'[d].status # "live"
    PROVE  SessionInv'
<1>1. Went(p, pc)
  BY Goes DEF SessionInv
<1>2. Owes(p)
  BY <1>1, WentOwes, Spends DEF SessionInv
<1>3. Moves(p)
  BY <1>1, Spends DEF Moves, Went, SessionInv, TypeOK
<1>. QED  BY <1>2, <1>3, TurnKept DEF Turn

\* A process in the lock: the session it carries is the stored one.
LEMMA InLock ==
    ASSUME SessionInv, NEW p \in Proc, at[p].pc \in Using
    PROVE  /\ TypeOK /\ lock = p /\ \A q \in Proc \ {p} : at[q].pc \notin Locked
           /\ at[p].cred \in Credentials /\ at[p].cred.dev \in Device
           /\ server[at[p].cred.dev].status # "none"
           /\ at[p].backend \in Backend /\ ~at[p].stored
           /\ store[at[p].backend] \in Credentials /\ store[at[p].backend] # None
           /\ store[at[p].backend].dev = at[p].cred.dev
<1>1. at[p].pc \in Locked /\ at[p].pc \in Carrying /\ at[p].pc \notin {"cleanup", "release"}
  BY DEF Locked, Carrying, Using
<1>2. lock = p /\ \A q \in Proc \ {p} : at[q].pc \notin Locked
  BY <1>1, Alone DEF SessionInv, Mutex
<1>3. at[p].cred \in Credentials /\ at[p].cred.dev \in Device /\ server[at[p].cred.dev].status # "none"
  BY <1>1 DEF SessionInv, Held, Carries, Credentials
<1>4. at[p].backend \in Backend
  BY DEF SessionInv, TypeOK, ProcRow
<1>. QED  BY <1>1, <1>2, <1>3, <1>4, NoneDiffers DEF SessionInv, Held, Holding

\* A process in the lock goes on within it.
LEMMA UsingGo ==
    ASSUME SessionInv, NEW p \in Proc, at[p].pc \in Using, Ends, Rewrites, fence' = fence,
           receipt' = receipt, lock' = lock, retained' = retained, dropped' = dropped,
           Fault \/ NoFault, NEW pc \in Using \ {"store"}, Go(p, pc),
           store'[at[p].backend] \in Credentials, store'[at[p].backend].dev = at[p].cred.dev,
           at[p].pc = "store" => Fault \/ (\A b \in Backend :
                    store'[b] # None => store'[b].ver = server'[store'[b].dev].ver),
           pc = "delete" => server'[at[p].cred.dev].status \in {"revoked", "device"}
    PROVE  SessionInv'
<1>1. lock = p /\ ~at[p].stored /\ \A q \in Proc \ {p} : at[q].pc \notin Locked
  BY InLock
<1>2. pc \in PC \ {"idle", "store"} /\ Went(p, pc)
  BY Goes DEF PC, Using, SessionInv
<1>3. Holding(p)' /\ Claimed(p)'
  BY <1>1, <1>2 DEF Holding, Claimed, Went, Using
<1>4. /\ pc \notin Issued \cup Unsaved \cup {"finalize", "save", "retain"}
      /\ at[p].pc \notin Unsaved \cup {"idle"} /\ at[p].pc \in Carrying
  BY DEF Issued, Unsaved, Using, Carrying
<1>5. \A d \in Device : ~InFlight(p, d)
  BY <1>4 DEF InFlight
<1>. QED  BY <1>1, <1>2, <1>3, <1>4, <1>5, FenceSame, GoKept

\* withAccessRetryLocked: the call, and where its refusal leads.
LEMMA AccessKept ==
    ASSUME SessionInv, NEW p \in Proc, withAccessRetryLocked(p)
    PROVE  SessionInv'
<1>1. /\ at[p].pc = "use" /\ at[p].pc \in Using /\ store' = store /\ receipt' = receipt
      /\ fence' = fence /\ dropped' = dropped /\ retained' = retained
  BY DEF withAccessRetryLocked, Using
<1>2. /\ TypeOK /\ at[p].cred.dev \in Device /\ server[at[p].cred.dev].status # "none"
      /\ store[at[p].backend] \in Credentials /\ store[at[p].backend].dev = at[p].cred.dev
  BY <1>1, InLock
<1>3. FenceKept(p) /\ Rewrites
  BY <1>1, <1>2, FenceSame, RewritesNone
<1>4. ASSUME server' \in {server, DeviceRevoked(at[p].cred.dev)}
      PROVE  /\ Ends
             /\ server' = DeviceRevoked(at[p].cred.dev) =>
                   server'[at[p].cred.dev].status \in {"revoked", "device"}
  BY <1>2, <1>4, EndsSession
<1>5. ASSUME server' \in {server, DeviceRevoked(at[p].cred.dev)}, Return(p), Fault \/ NoFault
      PROVE  SessionInv'
  BY <1>1, <1>3, <1>4, <1>5, ReturnKept
<1>6. ASSUME NEW pc \in {"refresh", "revoke", "delete"}, Go(p, pc), lock' = lock, Fault \/ NoFault,
             server' \in {server, DeviceRevoked(at[p].cred.dev)},
             pc = "delete" => server'[at[p].cred.dev].status \in {"revoked", "device"}
      PROVE  SessionInv'
  <2>1. pc \in Using \ {"store"}
    BY DEF Using
  <2>. QED  BY <1>1, <1>2, <1>3, <1>4, <1>6, <2>1, UsingGo
<1>7. CASE /\ Answer(at[p].cred) \in {"session_revoked", "device_revoked"}
           /\ Go(p, AfterRefusal(Answer(at[p].cred))) /\ UNCHANGED <<server, lock>> /\ NoFault
  <2>1. CASE Answer(at[p].cred) = "session_revoked"
    BY <1>6, <1>7, <2>1 DEF AfterRefusal
  <2>2. CASE Answer(at[p].cred) = "device_revoked"
    <3>1. server[at[p].cred.dev].status = "device"
      BY <2>2 DEF Answer
    <3>. QED  BY <1>6, <1>7, <2>2, <3>1 DEF AfterRefusal
  <2>. QED  BY <1>7, <2>1, <2>2
<1>8. CASE server' = DeviceRevoked(at[p].cred.dev) /\ Go(p, "delete") /\ UNCHANGED lock /\ NoFault
  BY <1>4, <1>6, <1>8
<1>9. CASE Go(p, "refresh") /\ UNCHANGED <<server, lock>> /\ NoFault
  BY <1>6, <1>9
<1>. QED  BY <1>5, <1>7, <1>8, <1>9 DEF withAccessRetryLocked

\* revokeSessionStable: the server first, then the store.
LEMMA RevokeKept ==
    ASSUME SessionInv, NEW p \in Proc, revokeSessionStable(p)
    PROVE  SessionInv'
<1>1. /\ at[p].pc \in Using /\ store' = store /\ receipt' = receipt
      /\ fence' = fence /\ dropped' = dropped /\ retained' = retained /\ at[p].pc # "store"
  BY DEF revokeSessionStable, Using
<1>2. /\ TypeOK /\ at[p].cred.dev \in Device /\ server[at[p].cred.dev].status # "none"
      /\ store[at[p].backend] \in Credentials /\ store[at[p].backend].dev = at[p].cred.dev
  BY <1>1, InLock
<1>3. FenceKept(p) /\ Rewrites
  BY <1>1, <1>2, FenceSame, RewritesNone
<1>4. CASE Confirmed(at[p].cred.dev) /\ Go(p, "delete") /\ UNCHANGED lock
  <2>1. Ends /\ server'[at[p].cred.dev].status \in {"revoked", "device"}
    BY <1>2, <1>4, EndsSession DEF Confirmed
  <2>2. "delete" \in Using \ {"store"}
    BY DEF Using
  <2>. QED  BY <1>1, <1>2, <1>3, <1>4, <2>1, <2>2, UsingGo DEF Confirmed
<1>5. CASE Unconfirmed(at[p].cred.dev) /\ Return(p)
  <2>1. Ends
    BY <1>2, <1>5, EndsSession DEF Unconfirmed
  <2>. QED  BY <1>1, <1>3, <1>5, <2>1, ReturnKept DEF Unconfirmed
<1>. QED  BY <1>4, <1>5 DEF revokeSessionStable

\* The tokens a refresh returned replace the ones they came from.
LEMMA StoreRotatedKept ==
    ASSUME SessionInv, NEW p \in Proc, StoreRotated(p)
    PROVE  SessionInv'
<1>1. /\ at[p].pc = "store" /\ at[p].pc \in Using /\ server' = server /\ receipt' = receipt
      /\ lock' = lock /\ fence' = fence /\ dropped' = dropped /\ retained' = retained
  BY DEF StoreRotated, Using
<1>2. /\ TypeOK /\ at[p].cred \in Credentials /\ at[p].backend \in Backend
      /\ store[at[p].backend] \in Credentials /\ store[at[p].backend].dev = at[p].cred.dev
      /\ at[p].cred.ver = server[at[p].cred.dev].ver /\ at[p].backend = receipt
  BY <1>1, InLock DEF SessionInv, Current, Selected
<1>3. ASSUME Put(p)
      PROVE  /\ Rewrites /\ store'[at[p].backend] = at[p].cred
             /\ \A b \in Backend : store'[b] # None => store'[b].ver = server'[store'[b].dev].ver
  <2>1. Rewrites
    BY <1>1, <1>2, <1>3, RewritesPut
  <2>2. store'[at[p].backend] = at[p].cred
    BY <1>2, <1>3 DEF Put, TypeOK
  <2>3. \A b \in Backend : store'[b] # None => b = at[p].backend
    BY <1>2, <2>1 DEF Rewrites, SessionInv, Selected
  <2>. QED  BY <1>1, <1>2, <2>1, <2>2, <2>3
<1>4. Ends
  BY <1>1, <1>2, EndsNone
<1>5. CASE Put(p) /\ Go(p, IF at[p].cmd = "logout" THEN "revoke" ELSE "use") /\ NoFault
  <2>1. PICK pc \in {"revoke", "use"} : Go(p, pc)
    BY <1>5
  <2>2. pc \in Using \ {"store"} /\ pc # "delete"
    BY DEF Using
  <2>. QED  BY <1>1, <1>2, <1>3, <1>4, <1>5, <2>1, <2>2, UsingGo
<1>6. CASE (Put(p) \/ UNCHANGED store) /\ Go(p, "discard") /\ Fault
  <2>1. /\ Rewrites /\ store'[at[p].backend] \in Credentials
        /\ store'[at[p].backend].dev = at[p].cred.dev
    BY <1>2, <1>3, <1>6, RewritesNone
  <2>2. "discard" \in Using \ {"store"}
    BY DEF Using
  <2>. QED  BY <1>1, <1>4, <1>6, <2>1, <2>2, UsingGo
<1>. QED  BY <1>5, <1>6 DEF StoreRotated

\* cleanupRotatedSession: a generation that could not be stored is revoked.
LEMMA CleanupRotatedKept ==
    ASSUME SessionInv, NEW p \in Proc, cleanupRotatedSession(p)
    PROVE  SessionInv'
<1>1. /\ at[p].pc \in Using /\ at[p].pc # "store" /\ receipt' = receipt
      /\ fence' = fence /\ dropped' = dropped /\ retained' = retained /\ Return(p)
  BY DEF cleanupRotatedSession, Using
<1>2. /\ TypeOK /\ at[p].cred \in Credentials /\ at[p].backend \in Backend
      /\ at[p].cred.dev \in Device /\ server[at[p].cred.dev].status # "none"
      /\ store[at[p].backend] \in Credentials /\ store[at[p].backend].dev = at[p].cred.dev
  BY <1>1, InLock
<1>3. FenceKept(p)
  BY <1>1, FenceSame
<1>4. CASE Confirmed(at[p].cred.dev) /\ Delete(p)
  <2>1. Ends /\ server'[at[p].cred.dev].status # "live"
    BY <1>2, <1>4, EndsSession DEF Confirmed
  <2>2. Rewrites
    BY <1>2, <1>4, <2>1, RewritesDelete
  <2>. QED  BY <1>1, <1>3, <1>4, <2>1, <2>2, ReturnKept DEF Confirmed
<1>5. CASE server' = Revoked(at[p].cred.dev) /\ UNCHANGED store /\ Fault
  BY <1>1, <1>2, <1>3, <1>5, EndsSession, RewritesNone, ReturnKept
<1>6. CASE Unconfirmed(at[p].cred.dev) /\ (Put(p) \/ UNCHANGED store)
  <2>1. Ends /\ Fault
    BY <1>2, <1>6, EndsSession DEF Unconfirmed
  <2>2. Rewrites
    BY <1>2, <1>6, <2>1, RewritesPut, RewritesNone, Spends
  <2>. QED  BY <1>1, <1>3, <1>6, <2>1, <2>2, ReturnKept
<1>. QED  BY <1>4, <1>5, <1>6 DEF cleanupRotatedSession

\* What is deleted belongs to a session that is over.
LEMMA DeleteLocalKept ==
    ASSUME SessionInv, NEW p \in Proc, DeleteLocal(p)
    PROVE  SessionInv'
<1>1. /\ at[p].pc = "delete" /\ at[p].pc \in Using /\ receipt' = receipt /\ server' = server
      /\ dropped' = dropped /\ retained' = retained /\ Return(p) /\ fence' \in {fence, None}
      /\ (Delete(p) \/ UNCHANGED store) /\ (Fault \/ NoFault)
  BY DEF DeleteLocal, Using
<1>2. /\ TypeOK /\ at[p].backend \in Backend /\ lock = p
      /\ store[at[p].backend].dev = at[p].cred.dev
      /\ server[at[p].cred.dev].status \in {"revoked", "device"}
  BY <1>1, InLock DEF SessionInv, Held, Holding
<1>3. FenceKept(p) /\ Ends
  BY <1>1, <1>2, FenceCleared, EndsNone
<1>4. Rewrites
  BY <1>1, <1>2, RewritesDelete, RewritesNone
<1>. QED  BY <1>1, <1>3, <1>4, ReturnKept

\* Credentials are read in the lock.
LEMMA CredentialsKept ==
    ASSUME SessionInv, NEW p \in Proc, credentialsLocked(p)
    PROVE  SessionInv'
<1>1. /\ at[p].pc = "begin" /\ lock = None /\ server' = server /\ store' = store
      /\ receipt' = receipt /\ dropped' = dropped /\ retained' = retained /\ NoFault
  BY DEF credentialsLocked, Acquire
<1>2. CASE Return(p) /\ fence' \in {fence, None}
  BY <1>1, <1>2, FenceCleared, SilentReturn DEF Unsaved
<1>3. ASSUME load(p) # None, lock' = p, fence' = fence, NEW pc \in {"revoke", "use", "refresh"},
             at' = [at EXCEPT ![p].pc = pc, ![p].cred = load(p)]
      PROVE  SessionInv'
  <2>1. /\ TypeOK /\ at[p].backend \in Backend /\ at[p].backend = receipt /\ ~at[p].stored
    BY <1>1 DEF SessionInv, TypeOK, ProcRow, Selected, Held, Holding
  <2>2. load(p) = store[at[p].backend] /\ load(p) \in Credentials /\ load(p).dev \in Device
    BY <1>3, <2>1 DEF load, TypeOK, Credentials
  <2>3. server[load(p).dev].status # "none"
    BY <1>3, <2>1, <2>2 DEF SessionInv, Held
  <2>4. pc \in PC
    BY DEF PC
  <2>5. /\ at' \in [Proc -> ProcRow] /\ \A q \in Proc \ {p} : at'[q] = at[q]
        /\ at'[p].pc = pc /\ at'[p].cred = load(p) /\ at'[p].backend = at[p].backend
        /\ at'[p].stored = at[p].stored
    BY <1>3, <2>1, <2>2, <2>4 DEF TypeOK, ProcRow
  <2>6. Carries(p)' /\ Holding(p)' /\ Claimed(p)'
    BY <1>1, <2>1, <2>2, <2>3, <2>5 DEF Carries, Holding, Claimed, Using
  <2>7. Owes(p)
    BY <1>1, <1>3, <2>1, <2>5, <2>6 DEF Owes, InFlight, Issued, Unsaved
  <2>8. \A q \in Proc \ {p} : at[q].pc \notin Locked
    BY <1>1, Alone DEF SessionInv
  <2>. QED  BY <1>1, <1>3, <2>5, <2>7, <2>8, FenceSame, Silent
<1>. QED  BY <1>1, <1>2, <1>3 DEF credentialsLocked, Acquire

\* A crash loses what only the process had.
LEMMA CrashKept ==
    ASSUME SessionInv, NEW p \in Proc, Crash(p)
    PROVE  SessionInv'
<1>1. Rested(p) /\ TypeOK
  BY Returns DEF SessionInv, Crash
<1>2. FenceKept(p)
  BY FenceSame, FenceDropped DEF Crash
<1>3. Owes(p)
  BY <1>1, RestedOwes, Spends DEF Crash
<1>4. \A q \in Proc \ {p} : at[q].pc \in Locked => lock' = q
  BY DEF SessionInv, Mutex, Crash
<1>5. Moves(p)
  BY <1>1, <1>4, Spends DEF Moves, Rested, TypeOK, Crash
<1>6. Ends /\ Rewrites
  BY <1>1, EndsNone, RewritesNone DEF Crash
<1>. QED  BY <1>2, <1>3, <1>5, <1>6, TurnKept DEF Turn

-----------------------------------------------------------------------------
(* Saving what a login was given. *)

\* A login saves: with the fence into an empty store, or as the last resort.
LEMMA PutKept ==
    ASSUME SessionInv, NEW p \in Proc, Put(p), NEW pc \in {"verify", "cleanup", "release"},
           Went(p, pc), Fault \/ NoFault,
           server' = server, receipt' = receipt, fence' = fence, dropped' = dropped,
           \/ at[p].pc = "save" /\ pc # "release" /\ lock' = lock /\ retained' = retained
           \/ /\ at[p].pc = "retain" /\ pc = "release" /\ lock \in {None, p} /\ lock' = None
              /\ retained' = retained \cup {at[p].cred.dev}
    PROVE  SessionInv'
<1>1. /\ TypeOK /\ Selected /\ Mutex /\ Held /\ Fresh /\ Fenced /\ Current /\ LiveIsReachable
  BY DEF SessionInv
<1>2. /\ at[p].pc \in Issued /\ at[p].pc \in Carrying
      /\ at[p].pc = "save" => at[p].pc \in Locked
  BY DEF Issued, Unsaved, Carrying, Locked
<1>3. /\ at[p].cred \in Credentials /\ at[p].cred.dev \in Device /\ at[p].cred # None
      /\ server[at[p].cred.dev].status # "none"
      /\ at[p].backend \in Backend /\ at[p].backend = receipt /\ ~at[p].stored
  BY <1>1, <1>2, NoneDiffers DEF Held, Carries, Holding, Credentials, TypeOK, ProcRow, Selected
<1>4. \A q \in Proc \ {p} : at[q].pc \notin Locked
  BY <1>1, <1>2, Alone
<1>5. /\ store' \in [Backend -> Credentials \cup {None}] /\ store'[receipt] = at[p].cred
      /\ \A b \in Backend \ {receipt} : store'[b] = None
  BY <1>1, <1>3 DEF Put, TypeOK, Selected
<1>6. /\ at' \in [Proc -> ProcRow] /\ \A q \in Proc \ {p} : at'[q] = at[q]
      /\ at'[p].pc = pc /\ at'[p].cred = at[p].cred /\ at'[p].backend = receipt /\ ~at'[p].stored
  BY <1>3 DEF Went
<1>7. TypeOK'
  <2>1. retained' \subseteq Device
    BY <1>1, <1>3 DEF TypeOK
  <2>. QED  BY <1>1, <1>5, <1>6, <2>1, Spends DEF TypeOK
<1>8. Selected'
  BY <1>1, <1>5, <1>6 DEF Selected
<1>9. Mutex'
  BY <1>1, <1>2, <1>4, <1>6 DEF Mutex, Locked, Using
<1>10. Held'
  <2>1. ASSUME NEW q \in Proc \ {p} PROVE Carries(q)' /\ Holding(q)'
    BY <1>1, <1>4, <1>6 DEF Held, Carries, Holding, Locked, Using
  <2>2. Carries(p)' /\ Holding(p)'
    BY <1>3, <1>5, <1>6 DEF Carries, Holding, Using
  <2>. QED  BY <1>3, <1>5, <2>1, <2>2 DEF Held
<1>11. Fresh'
  <2>1. \A q, r \in Proc :
           q # r /\ at'[q].pc \in Issued /\ at'[r].pc \in Issued => at'[q].cred.dev # at'[r].cred.dev
    BY <1>1, <1>2, <1>6 DEF Fresh
  <2>2. ASSUME NEW q \in Proc, at'[q].pc \in {"finalize", "save"}
        PROVE  /\ q # p /\ at'[q] = at[q] /\ at[q].pc \in Issued
    BY <1>6, <2>2 DEF Issued, Unsaved
  <2>3. ASSUME NEW q \in Proc, at'[q].pc \in {"finalize", "save"}
        PROVE  /\ \A b \in Backend : store'[b] # None => store'[b].dev # at'[q].cred.dev
               /\ at'[q].cred.ver = server'[at'[q].cred.dev].ver
    BY <1>1, <1>2, <1>5, <2>2, <2>3 DEF Fresh
  <2>. QED  BY <1>1, <2>1, <2>3 DEF Fresh
<1>12. Fenced'
  <2>1. ASSUME NEW q \in Proc \ {p} PROVE Claimed(q)'
    <3>1. at'[q] = at[q] /\ at[q].pc # "save"
      BY <1>4, <1>6 DEF Locked
    <3>2. CASE at[p].pc = "save"
      BY <1>1, <3>1, <3>2 DEF Fenced, Claimed
    <3>3. CASE retained' # {}
      BY <3>1, <3>3 DEF Claimed
    <3>. QED  BY <3>2, <3>3
  <2>2. Claimed(p)'
    BY <1>6 DEF Claimed
  <2>. QED  BY <2>1, <2>2 DEF Fenced
<1>13. Current'
  <2>1. \A q \in Proc : at'[q].pc # "store"
    BY <1>4, <1>6 DEF Locked, Using
  <2>2. ASSUME spent'.faults = 0 PROVE spent.faults = 0 /\ at[p].pc = "save"
    BY <1>1, <2>2, Spends DEF Current
  <2>3. ASSUME spent'.faults = 0, NEW q \in Proc PROVE at'[q].pc # "retain"
    BY <1>1, <1>6, <2>2, <2>3 DEF Current
  <2>4. ASSUME spent'.faults = 0, NEW b \in Backend, store'[b] # None
        PROVE  store'[b].ver = server'[store'[b].dev].ver
    BY <1>1, <1>5, <2>2, <2>4 DEF Fresh
  <2>. QED  BY <2>1, <2>3, <2>4 DEF Current
<1>14. LiveIsReachable'
  <2>. SUFFICES ASSUME NEW d \in Device, server'[d].status = "live", retained' = {}, d \notin dropped'
                PROVE  Stored(d)' \/ \E q \in Proc : InFlight(q, d)'
    BY DEF LiveIsReachable, Live
  <2>1. at[p].pc = "save" /\ retained = {} /\ \A b \in Backend : store[b] = None
    BY <1>1 DEF Fenced, Claimed
  <2>2. PICK q \in Proc : InFlight(q, d)
    BY <1>1, <2>1 DEF LiveIsReachable, Live, Stored
  <2>3. CASE q = p
    BY <1>3, <1>5, <1>1, <2>2, <2>3 DEF Stored, InFlight, TypeOK
  <2>4. CASE q # p
    BY <1>6, <2>2, <2>4 DEF InFlight
  <2>. QED  BY <2>3, <2>4
<1>. QED
  BY <1>7, <1>8, <1>9, <1>10, <1>11, <1>12, <1>13, <1>14 DEF SessionInv

\* finishLogin: the new session is stored, then tried.
LEMMA FinishLoginKept ==
    ASSUME SessionInv, NEW p \in Proc, finishLogin(p)
    PROVE  SessionInv'
<1>1. /\ at[p].pc \in {"save", "verify"} /\ server' = server /\ receipt' = receipt
      /\ fence' = fence /\ dropped' = dropped /\ retained' = retained
  BY DEF finishLogin
<1>2. /\ at[p].pc \in Locked \cap Issued \cap Carrying /\ TypeOK /\ lock = p
      /\ \A q \in Proc \ {p} : at[q].pc \notin Locked
  BY <1>1, Alone DEF Locked, Issued, Unsaved, Carrying, SessionInv, Mutex
<1>3. FenceKept(p) /\ Holding(p) /\ ~at[p].stored
  BY <1>1, FenceSame DEF SessionInv, Held, Holding
<1>4. {"verify", "cleanup", "release"} \subseteq PC \ {"idle", "store"}
  BY DEF PC
<1>5. ASSUME at[p].pc = "save", Put(p), NEW pc \in {"verify", "cleanup"}, Go(p, pc),
             Fault \/ NoFault, lock' = lock
      PROVE  SessionInv'
  <2>1. Went(p, pc)
    BY <1>2, <1>4, <1>5, Goes
  <2>. QED  BY <1>1, <1>5, <2>1, PutKept
<1>6. CASE at[p].pc = "save" /\ UNCHANGED store /\ Go(p, "cleanup") /\ Fault /\ lock' = lock
  <2>1. Went(p, "cleanup") /\ "cleanup" \in Unsaved
    BY <1>2, <1>4, <1>6, Goes DEF Unsaved
  <2>2. Holding(p)' /\ Claimed(p)'
    BY <1>3, <2>1 DEF Holding, Claimed, Went, Using
  <2>. QED  BY <1>1, <1>2, <1>3, <1>4, <1>6, <2>1, <2>2, SilentGo
<1>7. CASE at[p].pc = "verify" /\ Go(p, "release") /\ Unlock /\ UNCHANGED store /\ NoFault
  <2>1. /\ Went(p, "release") /\ "release" \notin Locked \cup Carrying \cup Issued
        /\ "verify" \notin Unsaved
    BY <1>2, <1>4, <1>7, Goes DEF Locked, Carrying, Issued, Unsaved, Using
  <2>2. Holding(p)' /\ Claimed(p)'
    BY <1>3, <2>1 DEF Holding, Claimed, Went, Using
  <2>. QED  BY <1>1, <1>2, <1>3, <1>4, <1>7, <2>1, <2>2, SilentGo
<1>8. CASE /\ at[p].pc = "verify" /\ at' = [at EXCEPT ![p].pc = "cleanup", ![p].stored = TRUE]
           /\ (Fault \/ NoFault) /\ UNCHANGED <<store, lock>>
  <2>1. /\ at' \in [Proc -> ProcRow] /\ \A q \in Proc \ {p} : at'[q] = at[q]
        /\ at'[p].pc = "cleanup" /\ at'[p].cred = at[p].cred /\ at'[p].backend = at[p].backend
    BY <1>2, <1>4, <1>8 DEF TypeOK, ProcRow
  <2>2. Carries(p)' /\ Holding(p)' /\ Claimed(p)'
    BY <1>1, <1>2, <1>3, <1>8, <2>1
       DEF Carries, Holding, Claimed, SessionInv, Held, Carrying, Issued, Using
  <2>3. at'[p].backend = receipt
    BY <1>8, <2>1 DEF SessionInv, Selected
  <2>4. "cleanup" \notin {"idle", "finalize", "save", "store", "retain"} /\ "verify" \notin Unsaved
    BY DEF Unsaved
  <2>5. Owes(p)
    BY <1>2, <1>8, <2>1, <2>2, <2>3, <2>4 DEF Owes, InFlight
  <2>. QED  BY <1>1, <1>2, <1>3, <1>8, <2>1, <2>5, Silent
<1>. QED  BY <1>5, <1>6, <1>7, <1>8 DEF finishLogin

\* A login that failed revokes its session, or keeps what it could not revoke.
LEMMA CleanupIssuedKept ==
    ASSUME SessionInv, NEW p \in Proc, cleanupIssuedSession(p)
    PROVE  SessionInv'
<1>1. /\ at[p].pc \in {"cleanup", "unlocked"} /\ receipt' = receipt
      /\ fence' = fence /\ dropped' = dropped /\ retained' = retained
      /\ lock' = IF at'[p].pc = "release" /\ lock = p THEN None ELSE lock
  BY DEF cleanupIssuedSession
<1>2. /\ at[p].pc \in Issued \cap Carrying /\ TypeOK /\ at[p].pc \in Unsaved /\ at[p].pc # "idle"
      /\ at[p].stored => at[p].pc = "cleanup" /\ at[p].pc \in Locked
  BY <1>1 DEF Locked, Issued, Unsaved, Carrying, SessionInv, Held, Holding
<1>3. /\ at[p].cred.dev \in Device /\ server[at[p].cred.dev].status # "none"
      /\ at[p].backend \in Backend /\ FenceKept(p)
      /\ at[p].stored => /\ store[at[p].backend] # None
                         /\ store[at[p].backend].dev = at[p].cred.dev
  BY <1>1, <1>2, FenceSame, NoneDiffers
     DEF SessionInv, Held, Carries, Holding, Credentials, TypeOK, ProcRow
<1>4. ASSUME NEW q \in Proc \ {p}, at[q].pc \in Locked PROVE lock' = q /\ ~at[p].stored
  BY <1>1, <1>2, <1>4, Alone DEF SessionInv, Mutex
<1>5. ASSUME Go(p, "release"), Ends, Rewrites, Fault \/ NoFault, at[p].stored \/ store' = store,
             \/ server'[at[p].cred.dev].status # "live"
             \/ at[p].stored /\ store' = store
      PROVE  SessionInv'
  <2>1. /\ "release" \in PC \ {"idle", "store"} /\ Went(p, "release")
        /\ "release" \notin Locked \cup Carrying \cup Issued
    BY <1>2, <1>5, Goes DEF PC, Locked, Carrying, Issued, Unsaved, Using
  <2>2. Holding(p)' /\ Claimed(p)'
    BY <2>1 DEF Holding, Claimed, Went, Using
  <2>3. \A d \in Device : InFlight(p, d) => Stored(d)' \/ server'[d].status # "live"
    BY <1>3, <1>5 DEF InFlight, Stored
  <2>4. \A q \in Proc \ {p} : at[q].pc \in Locked => lock' = q /\ store' = store
    BY <1>4, <1>5
  <2>5. at[p].pc # "store" /\ "release" \notin {"finalize", "save", "retain"}
    BY <1>1
  <2>. QED  BY <1>1, <1>2, <1>3, <1>5, <2>1, <2>2, <2>3, <2>4, <2>5, GoKept
<1>6. CASE Go(p, "retain") /\ ~at[p].stored /\ Ends /\ Fault /\ store' = store
  <2>1. /\ "retain" \in PC \ {"idle", "store"} /\ Went(p, "retain")
        /\ "retain" \notin Locked /\ "retain" \in Unsaved
    BY <1>2, <1>6, Goes DEF PC, Locked, Carrying, Issued, Unsaved, Using
  <2>2. Holding(p)' /\ Claimed(p)'
    BY <1>6, <2>1 DEF Holding, Claimed, Went, Using
  <2>3. Rewrites
    BY <1>2, <1>6, RewritesNone
  <2>4. at[p].pc # "store" /\ "retain" \notin {"finalize", "save"}
    BY <1>1
  <2>. QED  BY <1>1, <1>2, <1>3, <1>4, <1>6, <2>1, <2>2, <2>3, <2>4, GoKept
<1>7. CASE /\ Confirmed(at[p].cred.dev) /\ Go(p, "release")
           /\ IF at[p].stored THEN Delete(p) ELSE UNCHANGED store
  <2>1. Ends /\ server'[at[p].cred.dev].status # "live"
    BY <1>2, <1>3, <1>7, EndsSession DEF Confirmed
  <2>2. Rewrites
    BY <1>2, <1>3, <1>7, <2>1, RewritesDelete, RewritesNone
  <2>. QED  BY <1>5, <1>7, <2>1, <2>2 DEF Confirmed
<1>8. CASE /\ at[p].stored /\ server' = Revoked(at[p].cred.dev) /\ Fault /\ Go(p, "release")
           /\ UNCHANGED store
  BY <1>2, <1>3, <1>5, <1>8, EndsSession, RewritesNone
<1>9. CASE /\ Unconfirmed(at[p].cred.dev) /\ UNCHANGED store
           /\ Go(p, IF at[p].stored THEN "release" ELSE "retain")
  <2>1. Ends /\ Rewrites /\ Fault
    BY <1>2, <1>3, <1>9, EndsSession, RewritesNone DEF Unconfirmed
  <2>. QED  BY <1>5, <1>6, <1>9, <2>1
<1>. QED  BY <1>7, <1>8, <1>9 DEF cleanupIssuedSession

\* Retain: what could not be cleaned up is kept for the next attempt.
LEMMA RetainKept ==
    ASSUME SessionInv, NEW p \in Proc, Retain(p)
    PROVE  SessionInv'
<1>1. /\ at[p].pc = "retain" /\ TypeOK /\ lock \in {None, p} /\ lock' = None
      /\ server' = server /\ receipt' = receipt /\ fence' = fence /\ Go(p, "release")
      /\ (Fault \/ NoFault)
  BY DEF Retain, Unlock, SessionInv
<1>2. "release" \in PC \ {"idle", "store"} /\ Went(p, "release")
  BY <1>1, Goes DEF PC
<1>3. CASE Put(p) /\ retained' = retained \cup {at[p].cred.dev} /\ UNCHANGED dropped
  BY <1>1, <1>2, <1>3, PutKept
<1>4. CASE dropped' = dropped \cup {at[p].cred.dev} /\ UNCHANGED <<store, retained>> /\ Fault
  <2>1. at[p].cred.dev \in Device
    BY <1>1 DEF SessionInv, Held, Carries, Carrying, Issued, Unsaved, Credentials
  <2>2. \A q \in Proc \ {p} : at[q].pc \notin Locked
    BY <1>1, Alone DEF SessionInv
  <2>3. Moves(p)
    BY <1>1, <1>2, <1>4, <2>1, <2>2, Spends DEF Moves, Went, TypeOK
  <2>4. Ends /\ Rewrites /\ FenceKept(p)
    BY <1>1, <1>4, EndsNone, RewritesNone, FenceSame
  <2>5. Holding(p)' /\ Claimed(p)' /\ "release" \notin Locked \cup Carrying \cup Issued
    BY <1>2 DEF Holding, Claimed, Went, Locked, Using, Carrying, Issued, Unsaved
  <2>6. \A d \in Device : InFlight(p, d) => d \in dropped'
    BY <1>4 DEF InFlight
  <2>7. at[p].pc \notin {"idle", "store"} /\ "release" \notin {"retain", "finalize", "save"}
    BY <1>1
  <2>8. Owes(p)
    BY <1>2, <2>4, <2>5, <2>6, <2>7, WentOwes
  <2>. QED  BY <2>3, <2>4, <2>8, TurnKept DEF Turn
<1>. QED  BY <1>3, <1>4 DEF Retain

-----------------------------------------------------------------------------
(* New sessions, rotations and commands. *)

\* The server rotates: only the process that holds the lock has the new generation.
LEMMA RotateKept ==
    ASSUME SessionInv, NEW p \in Proc, at[p].pc = "refresh", Refreshable(at[p].cred),
           server' = Rotated(at[p].cred.dev), store' = store, receipt' = receipt, fence' = fence,
           dropped' = dropped, retained' = retained, Fault \/ NoFault,
           at' \in [Proc -> ProcRow], \A q \in Proc \ {p} : at'[q] = at[q],
           \/ Rested(p) /\ Fault
           \/ /\ at'[p].pc = "store" /\ at'[p].cred \in Credentials
              /\ at'[p].cred.dev = at[p].cred.dev /\ at'[p].cred.ver = at[p].cred.ver + 1
              /\ at'[p].backend = at[p].backend /\ ~at'[p].stored /\ lock' = lock
    PROVE  SessionInv'
<1>1. /\ TypeOK /\ Selected /\ Mutex /\ Held /\ Fresh /\ Fenced /\ Current /\ LiveIsReachable
      /\ at[p].pc \in Using /\ at[p].pc \notin Issued
  BY DEF SessionInv, Using, Issued, Unsaved
<1>2. /\ lock = p /\ \A q \in Proc \ {p} : at[q].pc \notin Locked
      /\ at[p].cred \in Credentials /\ at[p].cred.dev \in Device
      /\ at[p].backend \in Backend /\ at[p].backend = receipt
      /\ store[receipt] \in Credentials /\ store[receipt] # None
      /\ store[receipt].dev = at[p].cred.dev
  BY <1>1, InLock DEF Selected
<1>3. /\ server' \in [Device -> SessionRow]
      /\ \A d \in Device : server'[d].status = server[d].status
      /\ \A d \in Device \ {at[p].cred.dev} : server'[d].ver = server[d].ver
      /\ server'[at[p].cred.dev].ver = at[p].cred.ver + 1
      /\ server[at[p].cred.dev].status = "live"
  BY <1>1, <1>2 DEF Rotated, Refreshable, TypeOK, SessionRow
<1>4. at'[p].pc \in {"idle", "store"} /\ (at'[p].pc = "idle" => Rested(p) /\ Fault)
  BY DEF Rested
<1>5. at'[p].pc \notin Issued \cup {"finalize", "save", "authorize", "poll", "retain"}
  BY <1>4 DEF Issued, Unsaved
<1>6. TypeOK'
  BY <1>1, <1>3, Spends DEF TypeOK
<1>7. Selected'
  BY <1>1, <1>2, <1>4 DEF Selected, Rested
<1>8. Mutex'
  BY <1>2, <1>4 DEF Mutex, Locked, Using, Rested
<1>9. Held'
  <2>1. ASSUME NEW q \in Proc \ {p} PROVE Carries(q)' /\ Holding(q)'
    BY <1>1, <1>3 DEF Held, Carries, Holding, Credentials, Carrying, Using
  <2>2. Carries(p)' /\ Holding(p)'
    BY <1>2, <1>3, <1>4 DEF Carries, Holding, Rested, Carrying, Issued, Unsaved, Using
  <2>3. \A b \in Backend : store[b] # None => store[b].dev \in Device
    BY <1>1 DEF TypeOK, Credentials
  <2>. QED  BY <1>1, <1>3, <2>1, <2>2, <2>3 DEF Held
<1>10. Fresh'
  <2>1. ASSUME NEW q \in Proc, at'[q].pc \in {"finalize", "save"}
        PROVE  /\ \A b \in Backend : store'[b] # None => store'[b].dev # at'[q].cred.dev
               /\ at'[q].cred.ver = server'[at'[q].cred.dev].ver
    <3>1. q # p /\ at'[q] = at[q] /\ at[q].cred.dev # at[p].cred.dev
      BY <1>1, <1>2, <1>5, <2>1 DEF Fresh
    <3>2. at[q].cred.dev \in Device
      BY <1>1, <2>1, <3>1 DEF Held, Carries, Carrying, Issued, Unsaved, Credentials
    <3>. QED  BY <1>1, <1>3, <2>1, <3>1, <3>2 DEF Fresh
  <2>2. \A q, r \in Proc :
           q # r /\ at'[q].pc \in Issued /\ at'[r].pc \in Issued => at'[q].cred.dev # at'[r].cred.dev
    BY <1>1, <1>5 DEF Fresh
  <2>3. \A d \in Device : server'[d].status = "none" => server'[d].ver = 0
    BY <1>1, <1>3 DEF Fresh
  <2>. QED  BY <2>1, <2>2, <2>3 DEF Fresh
<1>11. Fenced'
  <2>1. ASSUME NEW q \in Proc PROVE Claimed(q)'
    BY <1>1, <1>5 DEF Fenced, Claimed
  <2>. QED  BY <2>1 DEF Fenced
<1>12. Current'
  <2>1. ASSUME NEW q \in Proc, at'[q].pc = "store"
        PROVE  at'[q].cred.ver = server'[at'[q].cred.dev].ver
    BY <1>2, <1>3, <1>4, <2>1 DEF Locked, Using, Rested
  <2>2. spent'.faults = 0 => spent.faults = 0 /\ at'[p].pc = "store"
    BY <1>1, <1>4, Spends
  <2>. QED  BY <1>1, <1>5, <2>1, <2>2 DEF Current
<1>13. LiveIsReachable'
  <2>1. \A q \in Proc, d \in Device : InFlight(q, d) => InFlight(q, d)'
    BY <1>1 DEF InFlight, Issued
  <2>. QED  BY <1>1, <1>3, <2>1 DEF LiveIsReachable, Live, Stored
<1>. QED
  BY <1>6, <1>7, <1>8, <1>9, <1>10, <1>11, <1>12, <1>13 DEF SessionInv

\* refreshCredentialsLocked, with its losses.
LEMMA RefreshKept ==
    ASSUME SessionInv, NEW p \in Proc, refreshCredentialsLocked(p)
    PROVE  SessionInv'
<1>1. /\ at[p].pc = "refresh" /\ at[p].pc \in Using /\ store' = store /\ receipt' = receipt
      /\ fence' = fence /\ dropped' = dropped /\ retained' = retained
  BY DEF refreshCredentialsLocked, Using
<1>2. /\ TypeOK /\ lock = p /\ at[p].cred \in Credentials /\ ~at[p].stored
      /\ store[at[p].backend] \in Credentials /\ store[at[p].backend].dev = at[p].cred.dev
      /\ \A q \in Proc \ {p} : at[q].pc \notin Locked
  BY <1>1, InLock
<1>3. CASE /\ Refreshable(at[p].cred) /\ server' = Rotated(at[p].cred.dev)
           /\ at' = [at EXCEPT ![p].pc = "store", ![p].cred.ver = @ + 1, ![p].tried = TRUE]
           /\ UNCHANGED lock /\ NoFault
  <2>1. "store" \in PC /\ [at[p].cred EXCEPT !.ver = @ + 1] \in Credentials
    BY <1>2 DEF PC, Credentials
  <2>2. at'[p] = [at[p] EXCEPT !.pc = "store", !.cred = [at[p].cred EXCEPT !.ver = @ + 1],
                               !.tried = TRUE]
    BY <1>2, <1>3 DEF TypeOK, ProcRow
  <2>3. at' \in [Proc -> ProcRow] /\ \A q \in Proc \ {p} : at'[q] = at[q]
    <3>1. [at[p] EXCEPT !.pc = "store", !.cred = [at[p].cred EXCEPT !.ver = @ + 1],
                        !.tried = TRUE] \in ProcRow
      BY <1>2, <2>1 DEF TypeOK, ProcRow
    <3>2. at' = [at EXCEPT ![p] = at'[p]]
      BY <1>2, <1>3 DEF TypeOK
    <3>. QED  BY <1>2, <2>2, <3>1, <3>2 DEF TypeOK
  <2>4. /\ at'[p].pc = "store" /\ at'[p].cred \in Credentials
        /\ at'[p].cred.dev = at[p].cred.dev /\ at'[p].cred.ver = at[p].cred.ver + 1
        /\ at'[p].backend = at[p].backend /\ ~at'[p].stored
    BY <1>2, <2>1, <2>2 DEF TypeOK, ProcRow, Credentials
  <2>. QED  BY <1>1, <1>3, <2>3, <2>4, RotateKept
<1>4. CASE /\ Refreshable(at[p].cred) /\ server' = Rotated(at[p].cred.dev)
           /\ Return(p) /\ Fault
  <2>1. Rested(p)
    BY <1>2, <1>4, Returns
  <2>. QED  BY <1>1, <1>4, <2>1, RotateKept DEF Rested
<1>5. CASE /\ at' = [at EXCEPT ![p].pc = "revoke", ![p].missing = TRUE]
           /\ UNCHANGED <<server, lock>> /\ NoFault
  <2>1. Went(p, "revoke") /\ "revoke" \in PC \ {"idle", "store"}
    <3>1. "revoke" \in PC
      BY DEF PC
    <3>. QED  BY <1>2, <1>5, <3>1 DEF Went, TypeOK, ProcRow
  <2>2. Holding(p)' /\ Claimed(p)' /\ Ends
    BY <1>1, <1>2, <1>5, <2>1, EndsNone DEF Holding, Claimed, Went, Using
  <2>3. /\ "revoke" \notin Issued \cup {"finalize", "save", "retain"} /\ at[p].pc \in Carrying
        /\ \A d \in Device : ~InFlight(p, d)
    BY <1>1 DEF Issued, Unsaved, Carrying, InFlight
  <2>4. Owes(p)
    BY <1>1, <1>2, <1>5, <2>1, <2>2, <2>3, WentOwes
  <2>. QED  BY <1>1, <1>2, <1>5, <2>1, <2>4, FenceSame, Silent DEF Went
<1>6. CASE Return(p) /\ UNCHANGED server /\ Fault
  BY <1>1, <1>2, <1>6, FenceSame, EndsNone, RewritesNone, ReturnKept
<1>. QED  BY <1>3, <1>4, <1>5, <1>6 DEF refreshCredentialsLocked

\* The API hands out a device that nobody has named before.
LEMMA IssueKept ==
    ASSUME SessionInv, NEW p \in Proc, at[p].pc = "poll",
           NEW d \in Device, server[d].status = "none",
           server' = [server EXCEPT ![d].status = "live"],
           store' = store, receipt' = receipt, fence' = fence, lock' = lock, retained' = retained,
           Fault \/ NoFault, at' \in [Proc -> ProcRow], \A q \in Proc \ {p} : at'[q] = at[q],
           at'[p].backend = at[p].backend, at'[p].stored = at[p].stored,
           \/ /\ at'[p].pc = "finalize" /\ at'[p].cred = [dev |-> d, ver |-> 0]
              /\ dropped' = dropped
           \/ at'[p].pc = "release" /\ dropped' = dropped \cup {d}
    PROVE  SessionInv'
<1>1. TypeOK /\ Selected /\ Mutex /\ Held /\ Fresh /\ Fenced /\ Current /\ LiveIsReachable
  BY DEF SessionInv
<1>2. /\ server' \in [Device -> SessionRow] /\ server'[d].status = "live"
      /\ \A e \in Device \ {d} : server'[e] = server[e]
      /\ \A e \in Device : server'[e].ver = server[e].ver
  BY <1>1 DEF TypeOK, SessionRow
<1>3. [dev |-> d, ver |-> 0] \in Credentials /\ [dev |-> d, ver |-> 0] # None
  BY NoneDiffers DEF Credentials
<1>4. ASSUME NEW q \in Proc, at[q].pc \in Carrying
      PROVE  /\ q # p /\ at[q].cred \in Credentials /\ at[q].cred.dev \in Device \ {d}
  BY <1>1, <1>4 DEF Held, Carries, Carrying, Issued, Unsaved, Using, Credentials
<1>5. ASSUME NEW b \in Backend, store[b] # None PROVE store[b].dev \in Device \ {d}
  BY <1>1, <1>5 DEF Held, TypeOK, Credentials
<1>6. at'[p].pc \notin Locked \cup Using \cup {"idle", "verify", "cleanup", "store", "retain"}
  BY DEF Locked, Using
<1>7. TypeOK'
  BY <1>1, <1>2, Spends DEF TypeOK
<1>8. Selected'
  BY <1>1 DEF Selected
<1>9. Mutex'
  BY <1>1, <1>6 DEF Mutex
<1>10. Held'
  <2>1. ASSUME NEW q \in Proc \ {p} PROVE Carries(q)' /\ Holding(q)'
    BY <1>1, <1>2, <1>4 DEF Held, Carries, Holding, Carrying, Using
  <2>2. Carries(p)' /\ Holding(p)'
    BY <1>1, <1>2, <1>3, <1>6 DEF Carries, Holding, Held, Using, Carrying, Issued, Unsaved
  <2>. QED  BY <1>1, <1>2, <1>5, <2>1, <2>2 DEF Held
<1>11. Fresh'
  <2>1. ASSUME NEW q \in Proc, NEW r \in Proc, q # r, at'[q].pc \in Issued, at'[r].pc \in Issued
        PROVE  at'[q].cred.dev # at'[r].cred.dev
    <3>1. at'[p].pc \in Issued => at'[p].cred.dev = d
      BY DEF Issued, Unsaved
    <3>2. ASSUME NEW z \in Proc \ {p}, at'[z].pc \in Issued
          PROVE  at'[z] = at[z] /\ at[z].cred.dev # d
      BY <1>4, <3>2 DEF Carrying
    <3>. QED  BY <1>1, <2>1, <3>1, <3>2 DEF Fresh
  <2>2. ASSUME NEW q \in Proc, at'[q].pc \in {"finalize", "save"}
        PROVE  /\ \A b \in Backend : store'[b] # None => store'[b].dev # at'[q].cred.dev
               /\ at'[q].cred.ver = server'[at'[q].cred.dev].ver
    <3>1. CASE q = p
      BY <1>1, <1>2, <1>5, <2>2, <3>1 DEF Fresh
    <3>2. CASE q # p
      <4>1. at[q].pc \in Carrying
        BY <2>2, <3>2 DEF Carrying, Issued, Unsaved
      <4>. QED  BY <1>1, <1>2, <1>4, <2>2, <3>2, <4>1 DEF Fresh
    <3>. QED  BY <3>1, <3>2
  <2>3. \A e \in Device : server'[e].status = "none" => server'[e].ver = 0
    BY <1>1, <1>2 DEF Fresh
  <2>. QED  BY <2>1, <2>2, <2>3 DEF Fresh
<1>12. Fenced'
  <2>1. ASSUME NEW q \in Proc PROVE Claimed(q)'
    BY <1>1, <1>6 DEF Fenced, Claimed
  <2>. QED  BY <2>1 DEF Fenced
<1>13. Current'
  <2>1. ASSUME NEW q \in Proc, at'[q].pc = "store"
        PROVE  at'[q].cred.ver = server'[at'[q].cred.dev].ver
    <3>1. q # p /\ at'[q] = at[q] /\ at[q].pc \in Carrying
      BY <1>6, <2>1 DEF Carrying, Using
    <3>. QED  BY <1>1, <1>2, <1>4, <2>1, <3>1 DEF Current
  <2>2. spent'.faults = 0 => spent.faults = 0
    BY <1>1, Spends
  <2>3. ASSUME spent.faults = 0, NEW b \in Backend, store[b] # None,
               server'[store[b].dev].status = "live"
        PROVE  store[b].ver = server'[store[b].dev].ver \/ \E q \in Proc : at'[q].pc = "store"
    <3>1. server'[store[b].dev] = server[store[b].dev]
      BY <1>2, <1>5, <2>3
    <3>2. store[b].ver = server[store[b].dev].ver \/ \E q \in Proc : at[q].pc = "store"
      BY <1>1, <2>3, <3>1 DEF Current, Live
    <3>. QED  BY <3>1, <3>2
  <2>. QED  BY <1>1, <1>6, <2>1, <2>2, <2>3 DEF Current, Live
<1>14. LiveIsReachable'
  <2>1. InFlight(p, d)' \/ d \in dropped'
    BY <1>3 DEF InFlight, Unsaved
  <2>2. \A q \in Proc, e \in Device : InFlight(q, e) => InFlight(q, e)'
    BY DEF InFlight, Unsaved
  <2>3. \A e \in Device \ {d} : Live(e)' => Live(e)
    BY <1>2 DEF Live
  <2>. QED  BY <1>1, <2>1, <2>2, <2>3 DEF LiveIsReachable, Stored
<1>. QED
  BY <1>7, <1>8, <1>9, <1>10, <1>11, <1>12, <1>13, <1>14 DEF SessionInv

\* Exchange: the server makes the session of a login.
LEMMA ExchangeKept ==
    ASSUME SessionInv, NEW p \in Proc, Exchange(p)
    PROVE  SessionInv'
<1>1. /\ at[p].pc = "poll" /\ TypeOK /\ store' = store /\ receipt' = receipt /\ lock' = lock
      /\ fence' = fence /\ retained' = retained
  BY DEF Exchange, SessionInv
<1>2. "release" \in PC \ {"idle", "store"} /\ "finalize" \in PC
  BY DEF PC
<1>3. CASE Go(p, "release") /\ UNCHANGED <<server, dropped>> /\ NoFault
  <2>1. Went(p, "release")
    BY <1>1, <1>2, <1>3, Goes
  <2>2. Holding(p)' /\ Claimed(p)'
    BY <1>1, <2>1 DEF Holding, Claimed, Went, Using
  <2>3. "release" \notin Locked \cup Carrying \cup Issued /\ at[p].pc \notin Unsaved
    BY <1>1 DEF Locked, Using, Carrying, Issued, Unsaved
  <2>. QED  BY <1>1, <1>2, <1>3, <2>2, <2>3, FenceSame, SilentGo DEF SessionInv, Mutex
<1>4. ASSUME NEW d \in Device, server[d].status = "none",
             server' = [server EXCEPT ![d].status = "live"],
             at' = [at EXCEPT ![p].pc = "finalize", ![p].cred = [dev |-> d, ver |-> 0]],
             dropped' = dropped, NoFault
      PROVE  SessionInv'
  <2>1. [dev |-> d, ver |-> 0] \in Credentials
    BY DEF Credentials
  <2>2. /\ at' \in [Proc -> ProcRow] /\ \A q \in Proc \ {p} : at'[q] = at[q]
        /\ at'[p].pc = "finalize" /\ at'[p].cred = [dev |-> d, ver |-> 0]
        /\ at'[p].backend = at[p].backend /\ at'[p].stored = at[p].stored
    BY <1>1, <1>2, <1>4, <2>1 DEF TypeOK, ProcRow
  <2>. QED  BY <1>1, <1>4, <2>2, IssueKept
<1>5. ASSUME NEW d \in Device, server[d].status = "none",
             server' = [server EXCEPT ![d].status = "live"],
             Go(p, "release"), dropped' = dropped \cup {d}, Fault
      PROVE  SessionInv'
  <2>1. Went(p, "release")
    BY <1>1, <1>2, <1>5, Goes
  <2>. QED  BY <1>1, <1>5, <2>1, IssueKept DEF Went
<1>. QED  BY <1>3, <1>4, <1>5 DEF Exchange

\* A command works on the backend the first command selected.
LEMMA BeginKept ==
    ASSUME SessionInv, NEW p \in Proc, NEW command \in Command, Begin(p, command)
    PROVE  SessionInv'
<1>1. /\ TypeOK /\ Selected /\ Mutex /\ Held /\ Fresh /\ Fenced /\ Current /\ LiveIsReachable
      /\ at[p].pc = "idle" /\ server' = server /\ store' = store /\ lock' = lock /\ fence' = fence
      /\ dropped' = dropped /\ retained' = retained
      /\ spent' = [spent EXCEPT !.commands = @ + 1]
  BY DEF SessionInv, Begin
<1>2. receipt' \in Backend /\ (receipt # None => receipt' = receipt)
  BY <1>1 DEF Begin, writeBackendReceipt, selectLinuxCredentialBackend, Backend, TypeOK
<1>3. spent' \in [commands : Nat, faults : Nat] /\ spent'.faults = spent.faults
  BY <1>1 DEF TypeOK
<1>4. [Idle EXCEPT !.pc = "begin", !.cmd = command, !.backend = receipt'] \in ProcRow
  BY <1>2 DEF Idle, ProcRow, PC
<1>5. /\ at' \in [Proc -> ProcRow] /\ \A q \in Proc \ {p} : at'[q] = at[q]
      /\ at'[p].pc = "begin" /\ at'[p].backend = receipt' /\ ~at'[p].stored
  <2>1. at' = [at EXCEPT ![p] = [Idle EXCEPT !.pc = "begin", !.cmd = command,
                                             !.backend = receipt']]
    BY DEF Begin, writeBackendReceipt
  <2>. QED  BY <1>1, <1>4, <2>1 DEF TypeOK, Idle
<1>6. /\ "begin" \notin Locked \cup Carrying \cup Issued
      /\ Carries(p)' /\ Holding(p)' /\ Claimed(p)'
  BY <1>5 DEF Locked, Using, Carrying, Issued, Unsaved, Carries, Holding, Claimed
<1>7. CASE receipt' = receipt
  <2>1. Moves(p)
    BY <1>1, <1>3, <1>5, <1>7 DEF Moves, Mutex, TypeOK
  <2>2. Owes(p)
    BY <1>1, <1>5, <1>6, <1>7 DEF Owes, InFlight, Unsaved
  <2>. QED  BY <1>1, <2>1, <2>2, EndsNone, RewritesNone, FenceSame, TurnKept DEF Turn
<1>8. CASE receipt = None
  <2>1. \A q \in Proc : at[q].pc = "idle"
    BY <1>1, <1>8, NoneDiffers DEF Selected, TypeOK, ProcRow
  <2>2. \A b \in Backend : store[b] = None
    BY <1>1, <1>8, NoneDiffers DEF Selected
  <2>3. TypeOK'
    BY <1>1, <1>2, <1>3, <1>5 DEF TypeOK
  <2>4. Selected' /\ Mutex'
    BY <1>1, <1>5, <1>6, <2>1, <2>2 DEF Selected, Mutex, Locked, Using
  <2>5. ASSUME NEW q \in Proc PROVE Carries(q)' /\ Holding(q)' /\ Claimed(q)'
    <3>1. CASE q # p
      BY <1>1, <1>5, <2>1, <3>1
         DEF Held, Fenced, Carries, Holding, Claimed, Carrying, Issued, Unsaved, Using
    <3>. QED  BY <1>6, <3>1
  <2>6. Held' /\ Fenced'
    BY <1>1, <2>2, <2>5 DEF Held, Fenced
  <2>7. Fresh'
    BY <1>1, <1>5, <1>6, <2>1 DEF Fresh, Issued, Unsaved
  <2>8. Current'
    BY <1>1, <1>3, <1>5, <2>1, <2>2 DEF Current
  <2>9. LiveIsReachable'
    BY <1>1, <2>1 DEF LiveIsReachable, Live, Stored, InFlight, Unsaved
  <2>. QED  BY <2>3, <2>4, <2>6, <2>7, <2>8, <2>9 DEF SessionInv
<1>. QED  BY <1>2, <1>7, <1>8

\* Time passes, the Secret Service comes and goes, another device revokes this one.
LEMMA ElsewhereKept ==
    ASSUME SessionInv, Elsewhere
    PROVE  SessionInv'
<1>1. /\ TypeOK /\ Mutex /\ Fenced /\ store' = store /\ receipt' = receipt /\ lock' = lock
      /\ at' = at /\ dropped' = dropped /\ retained' = retained /\ spent' = spent
      /\ None \notin Proc
  BY NoneDiffers DEF SessionInv, Elsewhere
<1>2. Moves(None)
  BY <1>1 DEF Moves, Mutex, TypeOK
<1>3. FenceKept(None)
  <2>1. CASE fence' = fence
    BY <2>1, FenceSame
  <2>2. CASE fence # None /\ fence' = [fence EXCEPT !.live = FALSE]
    <3>1. fence \in LoginFence /\ fence' \in LoginFence /\ fence'.by = fence.by
      BY <1>1, <2>2 DEF TypeOK, LoginFence
    <3>. QED  BY <1>1, <3>1 DEF FenceKept, Fenced, Claimed
  <2>. QED  BY <2>1, <2>2 DEF Elsewhere
<1>4. Ends
  <2>1. CASE server' = server
    BY <1>1, <2>1, EndsNone
  <2>2. ASSUME NEW d \in Device, Live(d), server' = DeviceRevoked(d) PROVE Ends
    BY <1>1, <2>2, EndsSession DEF Live
  <2>3. ASSUME NEW d \in Device,
               server' = [server EXCEPT ![d].expired = IF @ = "no" THEN "access" ELSE "both"]
        PROVE  Ends
    BY <1>1, <2>3 DEF TypeOK, SessionRow, Ends
  <2>. QED  BY <2>1, <2>2, <2>3 DEF Elsewhere
<1>. QED  BY <1>1, <1>2, <1>3, <1>4, RewritesNone, TurnKept DEF Turn

-----------------------------------------------------------------------------
(* The session specification. *)

\* Every step keeps the invariant.
LEMMA SessionStep == SessionInv /\ [Next]_vars => SessionInv'
<1>. SUFFICES ASSUME SessionInv, [Next]_vars PROVE SessionInv'
  OBVIOUS
<1>1. CASE UNCHANGED vars
  BY <1>1 DEF vars, SessionInv, TypeOK, Selected, Mutex, Held, Carries, Holding, Fresh, Fenced,
     Claimed, Current, LiveIsReachable, Live, Stored, InFlight
<1>2. ASSUME NEW p \in Proc, Step(p) PROVE SessionInv'
  BY <1>2, BeginKept, LockTimeoutKept, BeginLoginKept, AuthorizationKept, ExchangeKept,
     FinalizeKept, FinishLoginKept, CleanupIssuedKept, RetainKept, ReleaseLoginKept,
     CredentialsKept, AccessKept, RefreshKept, StoreRotatedKept, CleanupRotatedKept, RevokeKept,
     DeleteLocalKept, CrashKept
     DEF Step
<1>. QED  BY <1>1, <1>2, ElsewhereKept DEF Next

\* It holds before anything has happened.
LEMMA SessionInit == Init => SessionInv
<1>. SUFFICES ASSUME Init PROVE SessionInv
  OBVIOUS
<1>1. Idle \in ProcRow /\ Idle.pc = "idle" /\ ~Idle.stored
  BY DEF Idle, ProcRow, PC, Command, Backend
<1>2. TypeOK
  BY <1>1 DEF Init, TypeOK, SessionRow
<1>3. \A p \in Proc : at[p].pc = "idle" /\ ~at[p].stored
  BY <1>1 DEF Init
<1>4. \A d \in Device : server[d].status = "none" /\ server[d].ver = 0
  BY DEF Init
<1>5. \A b \in Backend : store[b] = None
  BY DEF Init
<1>6. Selected /\ Mutex
  BY <1>3, <1>5 DEF Selected, Mutex, Locked, Using
<1>7. Held /\ Fenced
  BY <1>3, <1>5 DEF Held, Carries, Holding, Fenced, Claimed, Carrying, Issued, Unsaved, Using
<1>8. Fresh /\ Current /\ LiveIsReachable
  BY <1>3, <1>4, <1>5 DEF Fresh, Current, LiveIsReachable, Live, Issued, Unsaved
<1>. QED  BY <1>2, <1>6, <1>7, <1>8 DEF SessionInv

\* Processes, the store, the fence and the API agree in every reachable state.
THEOREM SessionInvariant == Spec => []SessionInv
  BY SessionInit, SessionStep, PTL DEF Spec

\* A session that is live at the API can be revoked from here, unless a fault
\* destroyed the only copy of its credentials or a login without a fence kept its own.
THEOREM SessionsAreReachable == Spec => []LiveIsReachable
<1>1. SessionInv => LiveIsReachable
  BY DEF SessionInv
<1>. QED  BY <1>1, SessionInvariant, PTL

\* Credentials are in one backend only, and every process works on that one.
THEOREM BackendIsUnique == Spec => []OneBackend
<1>1. SessionInv => OneBackend
  BY DEF SessionInv, Selected, OneBackend, Backend
<1>. QED  BY <1>1, SessionInvariant, PTL

\* Without faults, what is stored outside the lock is the newest generation.
THEOREM RotationsAreSerial == Spec => []RotationIsSerialized
<1>1. SessionInv => RotationIsSerialized
  <2>. SUFFICES ASSUME SessionInv, spent.faults = 0, lock = None PROVE RotationIsSerialized
    BY DEF RotationIsSerialized
  <2>1. \A p \in Proc : at[p].pc # "store"
    BY NoneDiffers DEF SessionInv, Mutex, Locked, Using
  <2>. QED  BY <2>1 DEF SessionInv, Current, RotationIsSerialized
<1>. QED  BY <1>1, SessionInvariant, PTL
=============================================================================
