----------------------------- MODULE ProxyProofs -----------------------------
(***************************************************************************)
(* Theorems about the proxy: its activation in a client's environment, for *)
(* any number of processes, commands, activations, variables, faults and   *)
(* edits, and its router, for any number of requests, accounts, lines of a *)
(* stream, lost writes and output indexes.                                 *)
(***************************************************************************)
EXTENDS ProxyActivation, ProxyRouter, WellFoundedInduction, TLAPS

-----------------------------------------------------------------------------
(* The inductive invariant, in operators of what they speak about: f, g are *)
(* states of the two files, d of the disk, e of the environment, t is what  *)
(* is left of a transaction and r the position of a process.                *)

OpRow == [name : {"journal", "receipt", "directory"}, value : {None} \cup Journal \cup Receipt]
InLock == Reconciling \cup {"prepare", "publishing", "activating", "undoing", "marking",
                            "stop", "restore", "clearing", "recording", "receiptonly"}
PC == InLock \cup {"idle", "start", "activate", "child", "recover"}
Prior == [Name -> Value \cup Activation]
ProcRow == [pc : PC, cmd : Command, act : Activation \cup {None}, prior : Prior \cup {None},
            goal : Activation \cup {None}, todo : Seq(OpRow), left : SUBSET Name, bad : BOOLEAN, held : BOOLEAN]
Named(r) ==
    /\ r.pc \in {"activate", "prepare", "publishing", "activating", "verify", "scope", "child"} =>
          r.act \in Activation
    /\ r.pc \in {"activate", "prepare", "publishing"} => r.prior \in Prior
    /\ r.pc = "recover" => r.goal \in Activation
Bounds == [commands : Nat, faults : Nat, edits : Nat]

TypeOK ==
    /\ env \in Prior
    /\ at \in [Proc -> ProcRow]
    /\ \A p \in Proc : Named(at[p])
    /\ lock \in Proc \cup {None}
    /\ spent \in Bounds

\* The two files, damaged or not, in every state that may survive: the pair is
\* bound, and what is out in the environment has its journal there, with prior
\* values that are the user's own.
FileRow == [journal : {None} \cup Journal \cup [was : Journal], receipt : {None} \cup Receipt \cup [was : Receipt]]
Bound(f) ==
    /\ Readable(f.journal) /\ Readable(f.receipt) => ValidateBinding(f.journal, f.receipt)
    /\ f.journal = None => f.receipt = None
Kept(f, e) ==
    \A n \in Name : e[n] \in Activation =>
        /\ f.journal # None /\ Content(f.journal).id = e[n]
        /\ \A m \in Name : Content(f.journal).prior[m] \notin Activation
Recorded(f, d, e) == f \in d /\ \A g \in d : g \in FileRow /\ Bound(g) /\ Kept(g, e)

\* What is left of a transaction is the end of a plan, written backwards.
Ends(t, plan) ==
    Len(t) <= Len(plan) /\ \A i \in 1 .. Len(t) : t[i] = plan[Len(t) + 1 - i]
Put(name, record) == [name |-> name, value |-> record]
WritePlan(name, record) == <<Sync, Put(name, record)>>
PublishingPlan(j) == <<Sync, Put("journal", j), Sync, Put("receipt", None)>>
TransitionPlan(j) ==
    <<Sync, Put("receipt", ReceiptFromJournal(j)), Sync, Put("journal", j), Sync, Put("receipt", None)>>
ClearPlan == <<Sync, Put("journal", None), Sync, Put("receipt", None)>>

\* Where the holder of the lock is in its plan, and what it has done to the files.
Clean(e) == \A n \in Name : e[n] \notin Activation
Same(j, k) == j.id = k.id /\ j.prior = k.prior
Repairing(f, t) ==
    t # <<>> => f.journal \in Journal /\ Ends(t, WritePlan("receipt", ReceiptFromJournal(f.journal)))
Preparing(f, t, j) ==
    /\ Ends(t, WritePlan("journal", j)) /\ j \in Journal /\ f.receipt = None
    /\ f.journal = IF Len(t) = 2 THEN None ELSE j
Publishing(f, d, t, j) ==
    /\ Ends(t, PublishingPlan(j)) /\ j \in Journal /\ f.journal \in Journal /\ Same(f.journal, j)
    /\ Len(t) <= 3 => f.receipt = None
    /\ Len(t) <= 1 => f.journal = j
    /\ Len(t) = 0 => d = {f}
Transiting(f, t) ==
    \E j \in Journal :
        /\ Ends(t, TransitionPlan(j)) /\ f.journal \in Journal /\ Same(f.journal, j)
        /\ Len(t) \in 2 .. 5 => f.receipt = None
        /\ Len(t) <= 3 => f.journal = j
Clearing(f, e, t) ==
    /\ Ends(t, ClearPlan) /\ Clean(e)
    /\ Len(t) <= 3 => f.receipt = None
ReceiptOnly(f, t) ==
    /\ \E r \in Receipt : Ends(t, WritePlan("receipt", r))
    /\ f.journal \in [was : Journal]
JournalOf(r, state) == [id |-> r.act, state |-> state, prior |-> r.prior]

Works(r, f, d, e) ==
    /\ r.pc \in InLock
    /\ r.pc \in Reconciling \cup {"stop"} => Repairing(f, r.todo)
    /\ r.pc \in {"stop", "restore"} => f.journal \in Journal
    /\ r.pc = "prepare" => Clean(e) /\ Preparing(f, r.todo, JournalOf(r, "prepared"))
    /\ r.pc = "publishing" => Clean(e) /\ Publishing(f, d, r.todo, JournalOf(r, "publishing"))
    /\ r.pc \in {"activating", "marking"} => Transiting(f, r.todo)
    /\ r.pc = "recording" => r.todo = <<>> \/ Transiting(f, r.todo)
    /\ r.pc \in {"undoing", "clearing"} => Clearing(f, e, r.todo)
    /\ r.pc = "receiptonly" => ReceiptOnly(f, r.todo)
    /\ r.pc = "stop" => r.left = Name
    /\ r.pc = "restore" => /\ r.todo = <<>>
                           /\ r.bad \/ \A n \in Name \ r.left : e[n] \notin Activation

ActivationInv ==
    /\ TypeOK
    /\ Recorded(file, disk, env)
    /\ \A p \in Proc : lock = p => Works(at[p], file, disk, env)

-----------------------------------------------------------------------------
(* Records. *)

\* A journal or receipt that passes its checksum can be read, ...
LEMMA GoodRecord ==
    ASSUME NEW x \in Journal \cup Receipt
    PROVE  x # None /\ ~IsDamaged(x) /\ Readable(x) /\ Content(x) = x
<1>1. x # None
  BY NoneIsNoRecord
<1>2. "was" \notin DOMAIN x
  BY DEF Journal, Receipt
<1>. QED  BY <1>1, <1>2 DEF IsDamaged, Readable, Content

\* ... one that does not cannot, and is still a file.
LEMMA BadRecord ==
    ASSUME NEW x \in Journal \cup Receipt
    PROVE  /\ Unreadable(x) \in [was : Journal \cup Receipt] /\ Unreadable(x) # None
           /\ IsDamaged(Unreadable(x)) /\ ~Readable(Unreadable(x)) /\ Content(Unreadable(x)) = x
<1>1. Unreadable(x) \in [was : Journal \cup Receipt] /\ Unreadable(x) # None
  BY NoneIsNoRecord DEF Unreadable
<1>2. "was" \in DOMAIN Unreadable(x)
  BY DEF Unreadable
<1>3. Unreadable(x).was = x
  BY DEF Unreadable
<1>. QED  BY <1>1, <1>2, <1>3 DEF IsDamaged, Readable, Content

\* What is read of a file is one of them.
LEMMA FileCases ==
    ASSUME NEW f \in FileRow
    PROVE  /\ Readable(f.journal) <=> f.journal \in Journal
           /\ Readable(f.receipt) <=> f.receipt \in Receipt
           /\ f.journal # None => Content(f.journal) \in Journal
           /\ f.journal # None /\ ~Readable(f.journal) => f.journal \in [was : Journal]
<1>1. ASSUME NEW x \in [was : Journal] \cup [was : Receipt]
      PROVE  x.was \in Journal \cup Receipt /\ x = Unreadable(x.was) /\ ~Readable(x) /\ Content(x) = x.was
  <2>1. x.was \in Journal \cup Receipt /\ x = Unreadable(x.was)
    BY DEF Unreadable
  <2>. QED  BY <2>1, BadRecord
<1>2. f.journal \in {None} \cup Journal \cup [was : Journal] /\ f.receipt \in {None} \cup Receipt \cup [was : Receipt]
  BY DEF FileRow
<1>3. ~Readable(None)
  BY DEF Readable
<1>4. ASSUME NEW x \in [was : Journal] PROVE x.was \in Journal /\ x \notin Journal
  BY <1>1, <1>4, GoodRecord
<1>5. ASSUME NEW x \in [was : Receipt] PROVE x \notin Receipt
  BY <1>1, <1>5, GoodRecord
<1>6. None \notin Journal \cup Receipt
  BY NoneIsNoRecord
<1>7. Readable(f.journal) <=> f.journal \in Journal
  BY <1>1, <1>2, <1>3, <1>4, <1>6, GoodRecord
<1>8. Readable(f.receipt) <=> f.receipt \in Receipt
  BY <1>1, <1>2, <1>3, <1>5, <1>6, GoodRecord
<1>9. f.journal # None => Content(f.journal) \in Journal
  BY <1>1, <1>2, <1>4, GoodRecord
<1>. QED  BY <1>2, <1>7, <1>8, <1>9

\* The receipt of a journal is bound to it.
LEMMA ReceiptBound ==
    ASSUME NEW j \in Journal
    PROVE  ReceiptFromJournal(j) \in Receipt /\ ValidateBinding(j, ReceiptFromJournal(j))
  BY DEF ReceiptFromJournal, ValidateBinding, Receipt, Journal

\* What the environment needs is kept by what keeps the activation and its prior values.
LEMMA KeptBySame ==
    ASSUME NEW e, NEW f \in FileRow, Kept(f, e), NEW g \in FileRow,
           \/ Clean(e)
           \/ g.journal = f.journal
           \/ f.journal \in Journal /\ g.journal \in Journal /\ Same(f.journal, g.journal)
    PROVE  Kept(g, e)
<1>1. CASE Clean(e)
  BY <1>1 DEF Clean, Kept
<1>2. CASE g.journal = f.journal
  BY <1>2 DEF Kept
<1>3. CASE f.journal \in Journal /\ g.journal \in Journal /\ Same(f.journal, g.journal)
  <2>1. /\ Content(f.journal) = f.journal /\ Content(g.journal) = g.journal
        /\ f.journal # None /\ g.journal # None
    BY <1>3, GoodRecord
  <2>. QED  BY <1>3, <2>1 DEF Kept, Same
<1>. QED  BY <1>1, <1>2, <1>3

-----------------------------------------------------------------------------
(* Plans. *)

\* The end of a plan, without its first operation.
LEMMA EndsTail ==
    ASSUME NEW t \in Seq(OpRow), NEW plan, Len(plan) \in Nat, Ends(t, plan), t # <<>>
    PROVE  /\ Tail(t) \in Seq(OpRow) /\ Len(t) \in 1 .. Len(plan) /\ Len(Tail(t)) = Len(t) - 1
           /\ Head(t) = plan[Len(t)] /\ Ends(Tail(t), plan)
<1>1. Len(t) \in Nat \ {0} /\ Tail(t) \in Seq(OpRow) /\ Len(Tail(t)) = Len(t) - 1 /\ Head(t) = t[1]
  OBVIOUS
<1>2. \A i \in 1 .. Len(t) - 1 : Tail(t)[i] = t[i + 1]
  OBVIOUS
<1>3. Len(t) <= Len(plan) /\ \A i \in 1 .. Len(t) : t[i] = plan[Len(t) + 1 - i]
  BY DEF Ends
<1>4. ASSUME NEW i \in 1 .. Len(Tail(t)) PROVE Tail(t)[i] = plan[Len(Tail(t)) + 1 - i]
  <2>1. i \in Nat /\ i >= 1 /\ i <= Len(t) - 1 /\ Len(t) \in Nat
    BY <1>1
  <2>2. i + 1 \in 1 .. Len(t) /\ Len(t) + 1 - (i + 1) = Len(t) - i
    BY <2>1
  <2>3. Len(Tail(t)) + 1 - i = Len(t) - i
    BY <1>1, <2>1
  <2>4. Tail(t)[i] = t[i + 1]
    BY <1>2, <2>1
  <2>5. t[i + 1] = plan[Len(t) + 1 - (i + 1)]
    BY <1>3, <2>2
  <2>. QED  BY <2>2, <2>3, <2>4, <2>5
<1>5. Head(t) = plan[Len(t)]
  BY <1>1, <1>3
<1>. QED  BY <1>1, <1>3, <1>4, <1>5 DEF Ends

\* The same, with names for the rest and its length.
LEMMA EndsNext ==
    ASSUME NEW t \in Seq(OpRow), NEW plan, Len(plan) \in Nat, Ends(t, plan), t # <<>>
    PROVE  \E u \in Seq(OpRow), k \in Nat :
              /\ u = Tail(t) /\ Len(u) = k /\ Len(t) = k + 1 /\ k + 1 <= Len(plan)
              /\ Head(t) = plan[k + 1] /\ Ends(u, plan)
<1>1. /\ Len(t) \in Nat \ {0} /\ Len(t) <= Len(plan) /\ Len(Tail(t)) = Len(t) - 1
      /\ Tail(t) \in Seq(OpRow) /\ Head(t) = plan[Len(t)] /\ Ends(Tail(t), plan)
  BY EndsTail
<1>2. PICK n \in Nat : n = Len(t) /\ n # 0
  BY <1>1
<1>3. n - 1 \in Nat /\ n = (n - 1) + 1
  BY <1>2
<1>4. PICK u \in Seq(OpRow) : u = Tail(t)
  BY <1>1
<1>5. Len(u) = n - 1 /\ Ends(u, plan) /\ Head(t) = plan[n] /\ n <= Len(plan)
  BY <1>1, <1>2, <1>4
<1>. QED  BY <1>2, <1>3, <1>4, <1>5

\* A write before the end of a plan.
LEMMA EndsJoin ==
    ASSUME NEW s \in Seq(OpRow), NEW u \in Seq(OpRow), NEW plan, Len(plan) \in Nat, Ends(u, plan),
           Len(s) + Len(u) <= Len(plan),
           \A i \in 1 .. Len(s) : s[i] = plan[Len(s) + Len(u) + 1 - i]
    PROVE  s \o u \in Seq(OpRow) /\ Len(s \o u) = Len(s) + Len(u) /\ Ends(s \o u, plan)
<1>1. s \o u \in Seq(OpRow) /\ Len(s \o u) = Len(s) + Len(u) /\ Len(s) \in Nat /\ Len(u) \in Nat
  OBVIOUS
<1>2. ASSUME NEW i \in 1 .. Len(s \o u) PROVE (s \o u)[i] = plan[Len(s \o u) + 1 - i]
  <2>1. i \in Nat /\ 1 <= i /\ i <= Len(s) + Len(u)
    BY <1>1
  <2>2. CASE i <= Len(s)
    <3>1. i \in 1 .. Len(s)
      BY <1>1, <2>1, <2>2
    <3>2. (s \o u)[i] = s[i]
      BY <3>1
    <3>. QED  BY <1>1, <3>1, <3>2
  <2>3. CASE ~(i <= Len(s))
    <3>1. i - Len(s) \in 1 .. Len(u) /\ Len(u) + 1 - (i - Len(s)) = Len(s) + Len(u) + 1 - i
      BY <1>1, <2>1, <2>3
    <3>2. (s \o u)[i] = u[i - Len(s)]
      BY <1>1, <2>1, <2>3
    <3>3. u[i - Len(s)] = plan[Len(u) + 1 - (i - Len(s))]
      BY <3>1 DEF Ends
    <3>. QED  BY <1>1, <3>1, <3>2, <3>3
  <2>. QED  BY <2>2, <2>3
<1>. QED  BY <1>1, <1>2 DEF Ends

\* Apply, as a relation between the files and the disk before and after.
Applied(op, f, d, g, c) ==
    IF op = Sync THEN c = {f} /\ g = f
    ELSE g = [f EXCEPT ![op.name] = op.value] /\ c = d \cup {g}

\* Synchronising the directory keeps the records.
LEMMA SyncKeeps ==
    ASSUME NEW f, NEW d, NEW e, NEW g, NEW c, Recorded(f, d, e), Applied(Sync, f, d, g, c)
    PROVE  g = f /\ c = {f} /\ Recorded(g, c, e)
  BY DEF Recorded, Applied

\* What an atomic write does.
LEMMA JournalWritten ==
    ASSUME NEW f \in FileRow, NEW d, NEW g, NEW c, NEW v \in {None} \cup Journal,
           Applied(Put("journal", v), f, d, g, c)
    PROVE  g \in FileRow /\ c = d \cup {g} /\ g.journal = v /\ g.receipt = f.receipt
<1>1. Put("journal", v) # Sync /\ Put("journal", v).name = "journal" /\ Put("journal", v).value = v
  BY DEF Put, Sync
<1>2. g = [f EXCEPT !["journal"] = v] /\ c = d \cup {g}
  BY <1>1 DEF Applied
<1>3. g \in FileRow /\ g.journal = v /\ g.receipt = f.receipt
  BY <1>2 DEF FileRow
<1>. QED  BY <1>2, <1>3

\* The same for the receipt.
LEMMA ReceiptWritten ==
    ASSUME NEW f \in FileRow, NEW d, NEW g, NEW c, NEW v \in {None} \cup Receipt,
           Applied(Put("receipt", v), f, d, g, c)
    PROVE  g \in FileRow /\ c = d \cup {g} /\ g.receipt = v /\ g.journal = f.journal
<1>1. Put("receipt", v) # Sync /\ Put("receipt", v).name = "receipt" /\ Put("receipt", v).value = v
  BY DEF Put, Sync
<1>2. g = [f EXCEPT !["receipt"] = v] /\ c = d \cup {g}
  BY <1>1 DEF Applied
<1>3. g \in FileRow /\ g.receipt = v /\ g.journal = f.journal
  BY <1>2 DEF FileRow
<1>. QED  BY <1>2, <1>3

\* The journal is written or removed while there is no receipt.
LEMMA WriteJournal ==
    ASSUME NEW f, NEW d, NEW e, NEW g, NEW c, Recorded(f, d, e), NEW v \in {None} \cup Journal,
           Applied(Put("journal", v), f, d, g, c), f.receipt = None,
           Clean(e) \/ (f.journal \in Journal /\ v \in Journal /\ Same(f.journal, v))
    PROVE  Recorded(g, c, e) /\ g \in FileRow /\ g.journal = v /\ g.receipt = None
<1>1. f \in FileRow /\ Kept(f, e)
  BY DEF Recorded
<1>2. g \in FileRow /\ c = d \cup {g} /\ g.journal = v /\ g.receipt = None
  BY <1>1, JournalWritten
<1>3. Bound(g)
  BY <1>2 DEF Bound, Readable
<1>4. Kept(g, e)
  BY <1>1, <1>2, KeptBySame
<1>. QED  BY <1>2, <1>3, <1>4 DEF Recorded

\* The receipt is removed, or written for the journal that is there.
LEMMA WriteReceipt ==
    ASSUME NEW f, NEW d, NEW e, NEW g, NEW c, Recorded(f, d, e), NEW v \in {None} \cup Receipt,
           Applied(Put("receipt", v), f, d, g, c),
           v # None => f.journal # None /\ (f.journal \in Journal => ValidateBinding(f.journal, v))
    PROVE  Recorded(g, c, e) /\ g \in FileRow /\ g.journal = f.journal /\ g.receipt = v
<1>1. f \in FileRow /\ Kept(f, e)
  BY DEF Recorded
<1>2. g \in FileRow /\ c = d \cup {g} /\ g.journal = f.journal /\ g.receipt = v
  BY <1>1, ReceiptWritten
<1>3. Bound(g)
  <2>1. Readable(g.journal) <=> g.journal \in Journal
    BY <1>2, FileCases
  <2>2. Readable(g.receipt) => v # None
    BY <1>2 DEF Readable
  <2>. QED  BY <1>2, <2>1, <2>2 DEF Bound
<1>4. Kept(g, e)
  BY <1>1, <1>2, KeptBySame
<1>. QED  BY <1>2, <1>3, <1>4 DEF Recorded

-----------------------------------------------------------------------------
(* One operation of each plan. *)

\* What an operation may do to the claim: nothing, unless no value is out.
Claim(f) == IF f.journal = None THEN None
            ELSE [id |-> Content(f.journal).id, prior |-> Content(f.journal).prior]
Claims(f, g, e) == Claim(g) = Claim(f) \/ Clean(e)

\* Journals of the same activation make the same claim.
LEMMA SameClaim ==
    ASSUME NEW f, NEW g,
           \/ g.journal = f.journal
           \/ f.journal \in Journal /\ g.journal \in Journal /\ Same(f.journal, g.journal)
    PROVE  Claim(g) = Claim(f)
<1>1. CASE g.journal = f.journal
  BY <1>1 DEF Claim
<1>2. CASE f.journal \in Journal /\ g.journal \in Journal /\ Same(f.journal, g.journal)
  <2>1. /\ Content(f.journal) = f.journal /\ Content(g.journal) = g.journal
        /\ f.journal # None /\ g.journal # None
    BY <1>2, GoodRecord
  <2>. QED  BY <1>2, <2>1 DEF Claim, Same
<1>. QED  BY <1>1, <1>2

\* The receipt is repaired.
LEMMA PerformRepair ==
    ASSUME NEW f, NEW d, NEW e, NEW g, NEW c, NEW t \in Seq(OpRow), t # <<>>,
           Recorded(f, d, e), Applied(Head(t), f, d, g, c), Repairing(f, t)
    PROVE  Recorded(g, c, e) /\ Repairing(g, Tail(t)) /\ g.journal = f.journal
<1>. DEFINE R == ReceiptFromJournal(f.journal)
            plan == WritePlan("receipt", R)
<1>1. f.journal \in Journal /\ Ends(t, plan)
  BY DEF Repairing
<1>2. Len(plan) = 2 /\ plan[1] = Sync /\ plan[2] = Put("receipt", R)
  BY DEF WritePlan
<1>. HIDE DEF plan
<1>3. PICK u \in Seq(OpRow), k \in Nat :
        /\ u = Tail(t) /\ Len(u) = k /\ Len(t) = k + 1 /\ k + 1 <= Len(plan)
        /\ Head(t) = plan[k + 1] /\ Ends(u, plan)
  <2>1. Len(plan) \in Nat
    BY <1>2
  <2>. QED  BY <1>1, <2>1, EndsNext
<1>k. Len(u) = k /\ Len(t) = k + 1
  BY <1>3
<1>l. k = 0 \/ k = 1
  BY <1>2, <1>3
<1>4. CASE k = 1
  <2>1. R \in Receipt /\ ValidateBinding(f.journal, R) /\ f.journal # None
    BY <1>1, ReceiptBound, GoodRecord
  <2>2. Applied(Put("receipt", R), f, d, g, c)
    BY <1>2, <1>3, <1>4
  <2>3. Recorded(g, c, e) /\ g.journal = f.journal
    BY <2>1, <2>2, WriteReceipt
  <2>. QED  BY <1>1, <1>3, <2>3 DEF Repairing, plan
<1>5. CASE k = 0
  <2>1. Applied(Sync, f, d, g, c)
    BY <1>2, <1>3, <1>5
  <2>2. Recorded(g, c, e) /\ g = f
    BY <2>1, SyncKeeps
  <2>. QED  BY <1>1, <1>3, <2>2 DEF Repairing, plan
<1>. QED  BY <1>l, <1>4, <1>5

\* The journal of a new activation is written.
LEMMA PerformPrepare ==
    ASSUME NEW f, NEW d, NEW e, NEW g, NEW c, NEW t \in Seq(OpRow), t # <<>>, NEW j,
           Recorded(f, d, e), Applied(Head(t), f, d, g, c), Clean(e), Preparing(f, t, j)
    PROVE  Recorded(g, c, e) /\ Preparing(g, Tail(t), j)
<1>. DEFINE plan == WritePlan("journal", j)
<1>1. Ends(t, plan) /\ j \in Journal /\ f.receipt = None
  BY DEF Preparing
<1>2. Len(plan) = 2 /\ plan[1] = Sync /\ plan[2] = Put("journal", j)
  BY DEF WritePlan
<1>. HIDE DEF plan
<1>3. PICK u \in Seq(OpRow), k \in Nat :
        /\ u = Tail(t) /\ Len(u) = k /\ Len(t) = k + 1 /\ k + 1 <= Len(plan)
        /\ Head(t) = plan[k + 1] /\ Ends(u, plan)
  <2>1. Len(plan) \in Nat
    BY <1>2
  <2>. QED  BY <1>1, <2>1, EndsNext
<1>k. Len(u) = k /\ Len(t) = k + 1
  BY <1>3
<1>l. k = 0 \/ k = 1
  BY <1>2, <1>3
<1>4. CASE k = 1
  <2>1. Applied(Put("journal", j), f, d, g, c)
    BY <1>2, <1>3, <1>4
  <2>2. Recorded(g, c, e) /\ g.journal = j /\ g.receipt = None
    <3>1. f \in FileRow
      BY DEF Recorded
    <3>2. g \in FileRow /\ c = d \cup {g} /\ g.journal = j /\ g.receipt = None
      BY <1>1, <2>1, <3>1, JournalWritten
    <3>3. Bound(g)
      BY <3>2 DEF Bound, Readable
    <3>4. Kept(g, e)
      BY DEF Kept, Clean
    <3>. QED  BY <3>2, <3>3, <3>4 DEF Recorded
  <2>3. Len(u) # 2
    BY <1>k, <1>4
  <2>. QED  BY <1>1, <1>3, <2>2, <2>3 DEF Preparing, plan
<1>5. CASE k = 0
  <2>1. Applied(Sync, f, d, g, c)
    BY <1>2, <1>3, <1>5
  <2>2. Recorded(g, c, e) /\ g = f
    BY <2>1, SyncKeeps
  <2>3. f.journal = j
    BY <1>k, <1>5 DEF Preparing
  <2>4. Len(u) # 2
    BY <1>k, <1>5
  <2>. QED  BY <1>1, <1>3, <2>2, <2>3, <2>4 DEF Preparing, plan
<1>. QED  BY <1>l, <1>4, <1>5

\* The journal is marked as publishing.
LEMMA PerformPublishing ==
    ASSUME NEW f, NEW d, NEW e, NEW g, NEW c, NEW t \in Seq(OpRow), t # <<>>, NEW j,
           Recorded(f, d, e), Applied(Head(t), f, d, g, c), Publishing(f, d, t, j)
    PROVE  Recorded(g, c, e) /\ Publishing(g, c, Tail(t), j) /\ Claims(f, g, e)
<1>. DEFINE plan == PublishingPlan(j)
<1>1. /\ Ends(t, plan) /\ j \in Journal /\ f.journal \in Journal /\ Same(f.journal, j) /\ Same(j, j)
      /\ Len(t) <= 3 => f.receipt = None
      /\ Len(t) <= 1 => f.journal = j
  BY DEF Publishing, Same
<1>2. /\ Len(plan) = 4 /\ plan[1] = Sync /\ plan[2] = Put("journal", j)
      /\ plan[3] = Sync /\ plan[4] = Put("receipt", None)
  BY DEF PublishingPlan
<1>. HIDE DEF plan
<1>3. PICK u \in Seq(OpRow), k \in Nat :
        /\ u = Tail(t) /\ Len(u) = k /\ Len(t) = k + 1 /\ k + 1 <= Len(plan)
        /\ Head(t) = plan[k + 1] /\ Ends(u, plan)
  <2>1. Len(plan) \in Nat
    BY <1>2
  <2>. QED  BY <1>1, <2>1, EndsNext
<1>k. Len(u) = k /\ Len(t) = k + 1
  BY <1>3
<1>l. k = 0 \/ k = 1 \/ k = 2 \/ k = 3
  BY <1>2, <1>3
<1>4. CASE k = 3
  <2>1. Applied(Put("receipt", None), f, d, g, c)
    BY <1>2, <1>3, <1>4
  <2>2. Recorded(g, c, e) /\ g.journal = f.journal /\ g.receipt = None
    BY <2>1, WriteReceipt
  <2>3. Claims(f, g, e)
    BY <2>2, SameClaim DEF Claims
  <2>4. ~(Len(u) <= 1) /\ Len(u) # 0
    BY <1>k, <1>4
  <2>. QED  BY <1>1, <1>3, <2>2, <2>3, <2>4 DEF Publishing, plan
<1>5. CASE k = 1
  <2>1. Applied(Put("journal", j), f, d, g, c)
    BY <1>2, <1>3, <1>5
  <2>2. f.receipt = None
    BY <1>1, <1>k, <1>5
  <2>3. Recorded(g, c, e) /\ g.journal = j /\ g.receipt = None
    BY <1>1, <2>1, <2>2, WriteJournal
  <2>4. Claims(f, g, e)
    BY <1>1, <2>3, SameClaim DEF Claims
  <2>5. Len(u) # 0
    BY <1>k, <1>5
  <2>. QED  BY <1>1, <1>3, <2>3, <2>4, <2>5 DEF Publishing, plan
<1>6. CASE k = 0 \/ k = 2
  <2>1. Applied(Sync, f, d, g, c)
    BY <1>2, <1>3, <1>6
  <2>2. Recorded(g, c, e) /\ g = f /\ c = {f}
    BY <2>1, SyncKeeps
  <2>3. Len(u) <= 3 => f.receipt = None
    BY <1>1, <1>k, <1>6
  <2>4. Len(u) <= 1 => f.journal = j
    BY <1>1, <1>k, <1>6
  <2>. QED  BY <1>1, <1>3, <2>2, <2>3, <2>4 DEF Publishing, Claims, plan
<1>. QED  BY <1>l, <1>4, <1>5, <1>6

\* The journal moves to a state with a receipt.
LEMMA PerformTransition ==
    ASSUME NEW f, NEW d, NEW e, NEW g, NEW c, NEW t \in Seq(OpRow), t # <<>>,
           Recorded(f, d, e), Applied(Head(t), f, d, g, c), Transiting(f, t)
    PROVE  Recorded(g, c, e) /\ Transiting(g, Tail(t)) /\ Claims(f, g, e)
<1>0. PICK j \in Journal :
        /\ Ends(t, TransitionPlan(j)) /\ f.journal \in Journal /\ Same(f.journal, j)
        /\ Len(t) \in 2 .. 5 => f.receipt = None
        /\ Len(t) <= 3 => f.journal = j
  BY DEF Transiting
<1>. DEFINE plan == TransitionPlan(j)
            R == ReceiptFromJournal(j)
<1>1. Same(j, j)
  BY DEF Same
<1>2. /\ Len(plan) = 6 /\ plan[1] = Sync /\ plan[2] = Put("receipt", R)
      /\ plan[3] = Sync /\ plan[4] = Put("journal", j)
      /\ plan[5] = Sync /\ plan[6] = Put("receipt", None)
  BY DEF TransitionPlan
<1>. HIDE DEF plan
<1>3. PICK u \in Seq(OpRow), k \in Nat :
        /\ u = Tail(t) /\ Len(u) = k /\ Len(t) = k + 1 /\ k + 1 <= Len(plan)
        /\ Head(t) = plan[k + 1] /\ Ends(u, plan)
  <2>1. Len(plan) \in Nat
    BY <1>2
  <2>. QED  BY <1>0, <2>1, EndsNext DEF plan
<1>k. Len(u) = k /\ Len(t) = k + 1
  BY <1>3
<1>l. k = 0 \/ k = 1 \/ k = 2 \/ k = 3 \/ k = 4 \/ k = 5
  BY <1>2, <1>3
<1>4. CASE k = 5
  <2>1. Applied(Put("receipt", None), f, d, g, c)
    BY <1>2, <1>3, <1>4
  <2>2. Recorded(g, c, e) /\ g.journal = f.journal /\ g.receipt = None
    BY <2>1, WriteReceipt
  <2>3. Claims(f, g, e)
    BY <2>2, SameClaim DEF Claims
  <2>4. ~(Len(u) <= 3)
    BY <1>k, <1>4
  <2>. QED  BY <1>0, <1>3, <2>2, <2>3, <2>4 DEF Transiting, plan
<1>5. CASE k = 3
  <2>1. Applied(Put("journal", j), f, d, g, c)
    BY <1>2, <1>3, <1>5
  <2>2. f.receipt = None
    BY <1>0, <1>k, <1>5
  <2>3. Recorded(g, c, e) /\ g.journal = j /\ g.receipt = None
    BY <1>0, <2>1, <2>2, WriteJournal
  <2>4. Claims(f, g, e)
    BY <1>0, <2>3, SameClaim DEF Claims
  <2>. QED  BY <1>0, <1>1, <1>3, <1>5, <2>3, <2>4 DEF Transiting, plan
<1>6. CASE k = 1
  <2>1. Applied(Put("receipt", R), f, d, g, c)
    BY <1>2, <1>3, <1>6
  <2>2. f.journal = j
    BY <1>0, <1>k, <1>6
  <2>3. R \in Receipt /\ ValidateBinding(f.journal, R) /\ f.journal # None
    BY <2>2, ReceiptBound, GoodRecord
  <2>4. Recorded(g, c, e) /\ g.journal = f.journal
    BY <2>1, <2>3, WriteReceipt
  <2>5. Claims(f, g, e)
    BY <2>4, SameClaim DEF Claims
  <2>6. Len(u) \notin 2 .. 5
    BY <1>k, <1>6
  <2>. QED  BY <1>0, <1>3, <2>2, <2>4, <2>5, <2>6 DEF Transiting, plan
<1>7. CASE k = 0 \/ k = 2 \/ k = 4
  <2>1. Applied(Sync, f, d, g, c)
    BY <1>2, <1>3, <1>7
  <2>2. Recorded(g, c, e) /\ g = f
    BY <2>1, SyncKeeps
  <2>3. Len(u) \in 2 .. 5 => f.receipt = None
    BY <1>0, <1>k, <1>7
  <2>4. Len(u) <= 3 => f.journal = j
    BY <1>0, <1>k, <1>7
  <2>. QED  BY <1>0, <1>3, <2>2, <2>3, <2>4 DEF Transiting, Claims, plan
<1>. QED  BY <1>l, <1>4, <1>5, <1>6, <1>7

\* Receipt and journal are removed.
LEMMA PerformClear ==
    ASSUME NEW f, NEW d, NEW e, NEW g, NEW c, NEW t \in Seq(OpRow), t # <<>>,
           Recorded(f, d, e), Applied(Head(t), f, d, g, c), Clearing(f, e, t)
    PROVE  Recorded(g, c, e) /\ Clearing(g, e, Tail(t))
<1>1. Ends(t, ClearPlan) /\ Clean(e) /\ (Len(t) <= 3 => f.receipt = None)
  BY DEF Clearing
<1>2. /\ Len(ClearPlan) = 4 /\ ClearPlan[1] = Sync /\ ClearPlan[2] = Put("journal", None)
      /\ ClearPlan[3] = Sync /\ ClearPlan[4] = Put("receipt", None)
  BY DEF ClearPlan
<1>3. PICK u \in Seq(OpRow), k \in Nat :
        /\ u = Tail(t) /\ Len(u) = k /\ Len(t) = k + 1 /\ k + 1 <= Len(ClearPlan)
        /\ Head(t) = ClearPlan[k + 1] /\ Ends(u, ClearPlan)
  <2>1. Len(ClearPlan) \in Nat
    BY <1>2
  <2>. QED  BY <1>1, <2>1, EndsNext
<1>k. Len(u) = k /\ Len(t) = k + 1
  BY <1>3
<1>l. k = 0 \/ k = 1 \/ k = 2 \/ k = 3
  BY <1>2, <1>3
<1>4. CASE k = 3
  <2>1. Applied(Put("receipt", None), f, d, g, c)
    BY <1>2, <1>3, <1>4
  <2>2. Recorded(g, c, e) /\ g.receipt = None
    BY <2>1, WriteReceipt
  <2>. QED  BY <1>1, <1>3, <2>2 DEF Clearing
<1>5. CASE k = 1
  <2>1. Applied(Put("journal", None), f, d, g, c)
    BY <1>2, <1>3, <1>5
  <2>2. f.receipt = None
    BY <1>1, <1>k, <1>5
  <2>3. Recorded(g, c, e) /\ g.receipt = None
    BY <1>1, <2>1, <2>2, WriteJournal
  <2>. QED  BY <1>1, <1>3, <2>3 DEF Clearing
<1>6. CASE k = 0 \/ k = 2
  <2>1. Applied(Sync, f, d, g, c)
    BY <1>2, <1>3, <1>6
  <2>2. Recorded(g, c, e) /\ g = f
    BY <2>1, SyncKeeps
  <2>3. f.receipt = None
    BY <1>1, <1>k, <1>6
  <2>. QED  BY <1>1, <1>3, <2>2, <2>3 DEF Clearing
<1>. QED  BY <1>l, <1>4, <1>5, <1>6

\* The receipt beside a damaged journal is written again.
LEMMA PerformReceiptOnly ==
    ASSUME NEW f, NEW d, NEW e, NEW g, NEW c, NEW t \in Seq(OpRow), t # <<>>,
           Recorded(f, d, e), Applied(Head(t), f, d, g, c), ReceiptOnly(f, t)
    PROVE  Recorded(g, c, e) /\ ReceiptOnly(g, Tail(t)) /\ g.journal = f.journal
<1>1. PICK r \in Receipt : Ends(t, WritePlan("receipt", r))
  BY DEF ReceiptOnly
<1>. DEFINE plan == WritePlan("receipt", r)
<1>2. Len(plan) = 2 /\ plan[1] = Sync /\ plan[2] = Put("receipt", r)
  BY DEF WritePlan
<1>. HIDE DEF plan
<1>3. PICK u \in Seq(OpRow), k \in Nat :
        /\ u = Tail(t) /\ Len(u) = k /\ Len(t) = k + 1 /\ k + 1 <= Len(plan)
        /\ Head(t) = plan[k + 1] /\ Ends(u, plan)
  <2>1. Len(plan) \in Nat
    BY <1>2
  <2>. QED  BY <1>1, <2>1, EndsNext DEF plan
<1>k. Len(u) = k /\ Len(t) = k + 1
  BY <1>3
<1>l. k = 0 \/ k = 1
  BY <1>2, <1>3
<1>4. f \in FileRow /\ f.journal \in [was : Journal]
  BY DEF Recorded, ReceiptOnly
<1>5. f.journal # None /\ f.journal \notin Journal
  <2>1. f.journal.was \in Journal \cup Receipt /\ f.journal = Unreadable(f.journal.was)
    BY <1>4 DEF Unreadable
  <2>2. f.journal # None /\ ~Readable(f.journal)
    BY <2>1, BadRecord
  <2>. QED  BY <2>2, <1>4, FileCases
<1>6. CASE k = 1
  <2>1. Applied(Put("receipt", r), f, d, g, c)
    BY <1>2, <1>3, <1>6
  <2>2. Recorded(g, c, e) /\ g.journal = f.journal
    BY <1>5, <2>1, WriteReceipt
  <2>. QED  BY <1>3, <1>4, <2>2 DEF ReceiptOnly, plan
<1>7. CASE k = 0
  <2>1. Applied(Sync, f, d, g, c)
    BY <1>2, <1>3, <1>7
  <2>2. Recorded(g, c, e) /\ g = f
    BY <2>1, SyncKeeps
  <2>. QED  BY <1>3, <1>4, <2>2 DEF ReceiptOnly, plan
<1>. QED  BY <1>l, <1>6, <1>7

\* One operation of whatever transaction is under way.
LEMMA PerformWorks ==
    ASSUME NEW f, NEW d, NEW e, NEW g, NEW c, NEW r \in ProcRow, NEW q \in ProcRow,
           Recorded(f, d, e), Works(r, f, d, e), r.todo # <<>>,
           Applied(Head(r.todo), f, d, g, c), q = [r EXCEPT !.todo = Tail(r.todo)]
    PROVE  Recorded(g, c, e) /\ Works(q, g, c, e) /\ Claims(f, g, e)
<1>1. PICK t \in Seq(OpRow) : t = r.todo /\ t # <<>> /\ Applied(Head(t), f, d, g, c)
  BY DEF ProcRow
<1>2. /\ q.pc = r.pc /\ q.act = r.act /\ q.prior = r.prior /\ q.left = r.left /\ q.bad = r.bad
      /\ q.todo = Tail(t)
  BY <1>1 DEF ProcRow
<1>3. \A s : JournalOf(q, s) = JournalOf(r, s)
  BY <1>2 DEF JournalOf
<1>4. r.pc \in InLock
  BY DEF Works
<1>5. CASE r.pc \in Reconciling \cup {"stop"}
  <2>1. Repairing(f, t) /\ (r.pc = "stop" => f.journal \in Journal /\ r.left = Name)
    BY <1>1, <1>5 DEF Works
  <2>2. Recorded(g, c, e) /\ Repairing(g, Tail(t)) /\ g.journal = f.journal
    BY <1>1, <2>1, PerformRepair
  <2>3. Claims(f, g, e)
    BY <2>2, SameClaim DEF Claims
  <2>. QED  BY <1>2, <1>4, <1>5, <2>1, <2>2, <2>3 DEF Works, Reconciling
<1>6. CASE r.pc = "prepare"
  <2>1. Clean(e) /\ Preparing(f, t, JournalOf(r, "prepared"))
    BY <1>1, <1>6 DEF Works
  <2>2. Recorded(g, c, e) /\ Preparing(g, Tail(t), JournalOf(r, "prepared"))
    BY <1>1, <2>1, PerformPrepare
  <2>. QED  BY <1>2, <1>3, <1>4, <1>6, <2>1, <2>2 DEF Works, Reconciling, Claims
<1>7. CASE r.pc = "publishing"
  <2>1. Clean(e) /\ Publishing(f, d, t, JournalOf(r, "publishing"))
    BY <1>1, <1>7 DEF Works
  <2>2. Recorded(g, c, e) /\ Publishing(g, c, Tail(t), JournalOf(r, "publishing"))
    BY <1>1, <2>1, PerformPublishing
  <2>. QED  BY <1>2, <1>3, <1>4, <1>7, <2>1, <2>2 DEF Works, Reconciling, Claims
<1>8. CASE r.pc \in {"activating", "marking", "recording"}
  <2>1. Transiting(f, t)
    BY <1>1, <1>8 DEF Works
  <2>2. Recorded(g, c, e) /\ Transiting(g, Tail(t)) /\ Claims(f, g, e)
    BY <1>1, <2>1, PerformTransition
  <2>. QED  BY <1>2, <1>4, <1>8, <2>2 DEF Works, Reconciling
<1>9. CASE r.pc \in {"undoing", "clearing"}
  <2>1. Clearing(f, e, t)
    BY <1>1, <1>9 DEF Works
  <2>2. Recorded(g, c, e) /\ Clearing(g, e, Tail(t))
    BY <1>1, <2>1, PerformClear
  <2>3. Claims(f, g, e)
    BY <2>1 DEF Clearing, Claims
  <2>. QED  BY <1>2, <1>4, <1>9, <2>2, <2>3 DEF Works, Reconciling
<1>10. CASE r.pc = "receiptonly"
  <2>1. ReceiptOnly(f, t)
    BY <1>1, <1>10 DEF Works
  <2>2. Recorded(g, c, e) /\ ReceiptOnly(g, Tail(t)) /\ g.journal = f.journal
    BY <1>1, <2>1, PerformReceiptOnly
  <2>3. Claims(f, g, e)
    BY <2>2, SameClaim DEF Claims
  <2>. QED  BY <1>2, <1>4, <1>10, <2>2, <2>3 DEF Works, Reconciling
<1>11. CASE r.pc = "restore"
  BY <1>11 DEF Works
<1>. QED  BY <1>4, <1>5, <1>6, <1>7, <1>8, <1>9, <1>10, <1>11 DEF InLock

-----------------------------------------------------------------------------
(* The plans the transactions make. *)

\* An atomic write is a plan.
LEMMA WriteEnds ==
    ASSUME NEW name \in {"journal", "receipt"}, NEW v \in Journal \cup Receipt
    PROVE  /\ AtomicWrite(name, v) \in Seq(OpRow) /\ Len(AtomicWrite(name, v)) = 2
           /\ AtomicWrite(name, v) = <<Put(name, v), Sync>>
           /\ Put(name, v) \in OpRow /\ Sync \in OpRow
           /\ Ends(AtomicWrite(name, v), WritePlan(name, v))
<1>1. [name |-> name, value |-> v] \in OpRow /\ Sync \in OpRow
  BY DEF OpRow, Sync
<1>2. AtomicWrite(name, v) = <<Put(name, v), Sync>> /\ WritePlan(name, v) = <<Sync, Put(name, v)>>
  BY DEF AtomicWrite, WritePlan, Put
<1>3. <<Put(name, v), Sync>> \in Seq(OpRow)
  BY <1>1 DEF Put
<1>4. ASSUME NEW i \in 1 .. 2 PROVE <<Put(name, v), Sync>>[i] = <<Sync, Put(name, v)>>[2 + 1 - i]
  <2>1. i = 1 \/ i = 2
    OBVIOUS
  <2>. QED  BY <2>1
<1>5. Ends(<<Put(name, v), Sync>>, <<Sync, Put(name, v)>>)
  BY <1>4 DEF Ends
<1>. QED  BY <1>1, <1>2, <1>3, <1>5 DEF Put

\* A removal is one, or nothing.
LEMMA RemoveRow ==
    ASSUME NEW name \in {"journal", "receipt"}
    PROVE  /\ RemoveSecureFile(name) \in Seq(OpRow)
           /\ file[name] = None => RemoveSecureFile(name) = <<>>
           /\ file[name] # None => RemoveSecureFile(name) = <<Put(name, None), Sync>>
           /\ Put(name, None) \in OpRow /\ Sync \in OpRow
<1>1. [name |-> name, value |-> None] \in OpRow /\ Sync \in OpRow
  BY DEF OpRow, Sync
<1>. QED  BY <1>1 DEF RemoveSecureFile, Put

\* Two operations after none.
LEMMA JoinNone ==
    ASSUME NEW S, NEW y \in S, NEW z \in S, NEW s, s = <<>> \o <<y, z>>
    PROVE  s \in Seq(S) /\ Len(s) = 2 /\ s[1] = y /\ s[2] = z
  OBVIOUS

\* After two others.
LEMMA JoinTwo ==
    ASSUME NEW S, NEW w \in S, NEW x \in S, NEW y \in S, NEW z \in S, NEW s, s = <<w, x>> \o <<y, z>>
    PROVE  s \in Seq(S) /\ Len(s) = 4 /\ s[1] = w /\ s[2] = x /\ s[3] = y /\ s[4] = z
  OBVIOUS

\* The receipt goes first, then the journal is replaced.
LEMMA ReplaceJournal ==
    ASSUME NEW j \in Journal, NEW s, s = RemoveSecureFile("receipt") \o AtomicWrite("journal", j)
    PROVE  /\ s \in Seq(OpRow)
           /\ file.receipt = None => Len(s) = 2 /\ s[1] = Put("journal", j) /\ s[2] = Sync
           /\ file.receipt # None => /\ Len(s) = 4 /\ s[1] = Put("receipt", None) /\ s[2] = Sync
                                     /\ s[3] = Put("journal", j) /\ s[4] = Sync
<1>1. AtomicWrite("journal", j) = <<Put("journal", j), Sync>> /\ Put("journal", j) \in OpRow /\ Sync \in OpRow
  BY WriteEnds
<1>2. Put("receipt", None) \in OpRow /\ Put("journal", j) \in OpRow /\ Sync \in OpRow
  BY <1>1, RemoveRow
<1>3. CASE file.receipt = None
  <2>1. RemoveSecureFile("receipt") = <<>>
    BY <1>3, RemoveRow
  <2>2. s = <<>> \o <<Put("journal", j), Sync>>
    BY <1>1, <2>1
  <2>3. s \in Seq(OpRow) /\ Len(s) = 2 /\ s[1] = Put("journal", j) /\ s[2] = Sync
    <3>1. PICK y \in OpRow, z \in OpRow : y = Put("journal", j) /\ z = Sync
      BY <1>2
    <3>2. PICK x : x = s
      OBVIOUS
    <3>3. x = <<>> \o <<y, z>>
      BY <2>2, <3>1, <3>2
    <3>4. x \in Seq(OpRow) /\ Len(x) = 2 /\ x[1] = y /\ x[2] = z
      BY <3>3, JoinNone, Z3
    <3>. QED  BY <3>1, <3>2, <3>4
  <2>. QED  BY <1>3, <2>3
<1>4. CASE file.receipt # None
  <2>1. RemoveSecureFile("receipt") = <<Put("receipt", None), Sync>>
    BY <1>4, RemoveRow
  <2>2. s = <<Put("receipt", None), Sync>> \o <<Put("journal", j), Sync>>
    BY <1>1, <2>1
  <2>3. /\ s \in Seq(OpRow) /\ Len(s) = 4 /\ s[1] = Put("receipt", None) /\ s[2] = Sync
        /\ s[3] = Put("journal", j) /\ s[4] = Sync
    <3>1. PICK v \in OpRow, y \in OpRow, z \in OpRow : v = Put("receipt", None) /\ y = Put("journal", j) /\ z = Sync
      BY <1>2
    <3>2. PICK x : x = s
      OBVIOUS
    <3>3. x = <<v, z>> \o <<y, z>>
      BY <2>2, <3>1, <3>2
    <3>4. x \in Seq(OpRow) /\ Len(x) = 4 /\ x[1] = v /\ x[2] = z /\ x[3] = y /\ x[4] = z
      BY <3>3, JoinTwo, Z3
    <3>. QED  BY <3>1, <3>2, <3>4
  <2>. QED  BY <1>4, <2>3
<1>. QED  BY <1>3, <1>4

\* Transition to a state with a receipt.
LEMMA TransitionEnds ==
    ASSUME file \in FileRow, file.journal \in Journal, NEW next \in {"active", "recovery_required"}
    PROVE  Transition(next) \in Seq(OpRow) /\ Transiting(file, Transition(next))
<1>1. PICK j : j = [file.journal EXCEPT !.state = next]
  OBVIOUS
<1>2. j \in Journal /\ Same(file.journal, j)
  BY <1>1 DEF Journal, JournalState, Same
<1>3. PICK s : s = RemoveSecureFile("receipt") \o AtomicWrite("journal", j)
  OBVIOUS
<1>4. PICK u : u = AtomicWrite("receipt", ReceiptFromJournal(j))
  OBVIOUS
<1>5. Transition(next) = s \o u
  BY <1>1, <1>3, <1>4 DEF Transition
<1>6. /\ s \in Seq(OpRow)
      /\ file.receipt = None => Len(s) = 2 /\ s[1] = Put("journal", j) /\ s[2] = Sync
      /\ file.receipt # None => /\ Len(s) = 4 /\ s[1] = Put("receipt", None) /\ s[2] = Sync
                                /\ s[3] = Put("journal", j) /\ s[4] = Sync
  BY <1>2, <1>3, ReplaceJournal
<1>7. u \in Seq(OpRow) /\ u = <<Put("receipt", ReceiptFromJournal(j)), Sync>> /\ Len(u) = 2
  BY <1>2, <1>4, WriteEnds, ReceiptBound
<1>. DEFINE plan == TransitionPlan(j)
<1>8. /\ Len(plan) = 6 /\ plan[1] = Sync /\ plan[2] = Put("receipt", ReceiptFromJournal(j))
      /\ plan[3] = Sync /\ plan[4] = Put("journal", j)
      /\ plan[5] = Sync /\ plan[6] = Put("receipt", None)
  BY DEF TransitionPlan
<1>. HIDE DEF plan
<1>9. Ends(u, plan)
  <2>1. u[1] = plan[2] /\ u[2] = plan[1]
    BY <1>7, <1>8
  <2>2. ASSUME NEW i \in 1 .. 2 PROVE u[i] = plan[2 + 1 - i]
    <3>1. i = 1 \/ i = 2
      OBVIOUS
    <3>. QED  BY <2>1, <3>1
  <2>3. Len(u) = 2 /\ Len(plan) = 6
    BY <1>7, <1>8
  <2>. HIDE <1>7, <1>8
  <2>. QED  BY <2>2, <2>3 DEF Ends
<1>10. CASE file.receipt = None
  <2>1. Len(s) = 2 /\ s[1] = plan[4] /\ s[2] = plan[3] /\ Len(u) = 2 /\ Len(plan) = 6
    BY <1>6, <1>7, <1>8, <1>10
  <2>2. ASSUME NEW i \in 1 .. Len(s) PROVE s[i] = plan[Len(s) + Len(u) + 1 - i]
    <3>1. i = 1 \/ i = 2
      BY <2>1
    <3>. QED  BY <2>1, <3>1
  <2>3. Transition(next) \in Seq(OpRow) /\ Len(Transition(next)) = 4 /\ Ends(Transition(next), plan)
    <3>1. s \in Seq(OpRow) /\ u \in Seq(OpRow) /\ Len(plan) \in Nat /\ Len(s) + Len(u) <= Len(plan)
      BY <1>6, <1>7, <2>1
    <3>2. s \o u \in Seq(OpRow) /\ Len(s \o u) = Len(s) + Len(u) /\ Ends(s \o u, plan)
      BY <1>9, <2>2, <3>1, EndsJoin
    <3>3. Len(s) + Len(u) = 4
      BY <2>1
    <3>. QED  BY <1>5, <3>2, <3>3
  <2>4. ~(Len(Transition(next)) <= 3)
    BY <2>3
  <2>. QED  BY <1>2, <1>10, <2>3, <2>4 DEF Transiting, plan
<1>11. CASE file.receipt # None
  <2>1. /\ Len(s) = 4 /\ s[1] = plan[6] /\ s[2] = plan[5] /\ s[3] = plan[4] /\ s[4] = plan[3]
        /\ Len(u) = 2 /\ Len(plan) = 6
    BY <1>6, <1>7, <1>8, <1>11
  <2>2. ASSUME NEW i \in 1 .. Len(s) PROVE s[i] = plan[Len(s) + Len(u) + 1 - i]
    <3>1. i = 1 \/ i = 2 \/ i = 3 \/ i = 4
      BY <2>1
    <3>. QED  BY <2>1, <3>1
  <2>3. Transition(next) \in Seq(OpRow) /\ Len(Transition(next)) = 6 /\ Ends(Transition(next), plan)
    <3>1. s \in Seq(OpRow) /\ u \in Seq(OpRow) /\ Len(plan) \in Nat /\ Len(s) + Len(u) <= Len(plan)
      BY <1>6, <1>7, <2>1
    <3>2. s \o u \in Seq(OpRow) /\ Len(s \o u) = Len(s) + Len(u) /\ Ends(s \o u, plan)
      BY <1>9, <2>2, <3>1, EndsJoin
    <3>3. Len(s) + Len(u) = 6
      BY <2>1
    <3>. QED  BY <1>5, <3>2, <3>3
  <2>4. ~(Len(Transition(next)) <= 3) /\ Len(Transition(next)) \notin 2 .. 5
    BY <2>3
  <2>. QED  BY <1>2, <2>3, <2>4 DEF Transiting, plan
<1>. QED  BY <1>10, <1>11

\* Transition to publishing, which writes no receipt.
LEMMA PublishingEnds ==
    ASSUME file \in FileRow, file.journal \in Journal, NEW j, j = [file.journal EXCEPT !.state = "publishing"]
    PROVE  Transition("publishing") \in Seq(OpRow) /\ Publishing(file, disk, Transition("publishing"), j)
<1>1. j \in Journal /\ Same(file.journal, j)
  BY DEF Journal, JournalState, Same
<1>2. PICK s : s = RemoveSecureFile("receipt") \o AtomicWrite("journal", j)
  OBVIOUS
<1>3. PICK u : u = <<>>
  OBVIOUS
<1>4. Transition("publishing") = s \o u
  BY <1>2, <1>3 DEF Transition
<1>5. /\ s \in Seq(OpRow)
      /\ file.receipt = None => Len(s) = 2 /\ s[1] = Put("journal", j) /\ s[2] = Sync
      /\ file.receipt # None => /\ Len(s) = 4 /\ s[1] = Put("receipt", None) /\ s[2] = Sync
                                /\ s[3] = Put("journal", j) /\ s[4] = Sync
  BY <1>1, <1>2, ReplaceJournal
<1>. DEFINE plan == PublishingPlan(j)
<1>6. /\ Len(plan) = 4 /\ plan[1] = Sync /\ plan[2] = Put("journal", j)
      /\ plan[3] = Sync /\ plan[4] = Put("receipt", None)
  BY DEF PublishingPlan
<1>. HIDE DEF plan
<1>7. u \in Seq(OpRow) /\ Len(u) = 0
  BY <1>3
<1>8. Ends(u, plan)
  BY <1>6, <1>7 DEF Ends
<1>9. CASE file.receipt = None
  <2>1. Len(s) = 2 /\ s[1] = plan[2] /\ s[2] = plan[1] /\ Len(u) = 0 /\ Len(plan) = 4
    BY <1>5, <1>6, <1>7, <1>9
  <2>2. ASSUME NEW i \in 1 .. Len(s) PROVE s[i] = plan[Len(s) + Len(u) + 1 - i]
    <3>1. i = 1 \/ i = 2
      BY <2>1
    <3>. QED  BY <2>1, <3>1
  <2>3. Transition("publishing") \in Seq(OpRow) /\ Len(Transition("publishing")) = 2 /\ Ends(Transition("publishing"), plan)
    <3>1. s \in Seq(OpRow) /\ u \in Seq(OpRow) /\ Len(plan) \in Nat /\ Len(s) + Len(u) <= Len(plan)
      BY <1>5, <1>7, <2>1
    <3>2. s \o u \in Seq(OpRow) /\ Len(s \o u) = Len(s) + Len(u) /\ Ends(s \o u, plan)
      BY <1>8, <2>2, <3>1, EndsJoin
    <3>3. Len(s) + Len(u) = 2
      BY <2>1
    <3>. QED  BY <1>4, <3>2, <3>3
  <2>4. ~(Len(Transition("publishing")) <= 1) /\ Len(Transition("publishing")) # 0
    <3>1. Len(Transition("publishing")) = 2
      BY <2>3
    <3>. QED  BY <3>1
  <2>. QED  BY <1>1, <1>9, <2>3, <2>4 DEF Publishing, plan
<1>10. CASE file.receipt # None
  <2>1. /\ Len(s) = 4 /\ s[1] = plan[4] /\ s[2] = plan[3] /\ s[3] = plan[2] /\ s[4] = plan[1]
        /\ Len(u) = 0 /\ Len(plan) = 4
    BY <1>5, <1>6, <1>7, <1>10
  <2>2. ASSUME NEW i \in 1 .. Len(s) PROVE s[i] = plan[Len(s) + Len(u) + 1 - i]
    <3>1. i = 1 \/ i = 2 \/ i = 3 \/ i = 4
      BY <2>1
    <3>. QED  BY <2>1, <3>1
  <2>3. Transition("publishing") \in Seq(OpRow) /\ Len(Transition("publishing")) = 4 /\ Ends(Transition("publishing"), plan)
    <3>1. s \in Seq(OpRow) /\ u \in Seq(OpRow) /\ Len(plan) \in Nat /\ Len(s) + Len(u) <= Len(plan)
      BY <1>5, <1>7, <2>1
    <3>2. s \o u \in Seq(OpRow) /\ Len(s \o u) = Len(s) + Len(u) /\ Ends(s \o u, plan)
      BY <1>8, <2>2, <3>1, EndsJoin
    <3>3. Len(s) + Len(u) = 4
      BY <2>1
    <3>. QED  BY <1>4, <3>2, <3>3
  <2>4. ~(Len(Transition("publishing")) <= 3) /\ ~(Len(Transition("publishing")) <= 1) /\ Len(Transition("publishing")) # 0
    <3>1. Len(Transition("publishing")) = 4
      BY <2>3
    <3>. QED  BY <3>1
  <2>. QED  BY <1>1, <2>3, <2>4 DEF Publishing, plan
<1>. QED  BY <1>9, <1>10

\* Clear, when no value is out.
LEMMA ClearEnds ==
    ASSUME file \in FileRow, Bound(file), NEW e, Clean(e)
    PROVE  Clear \in Seq(OpRow) /\ Clearing(file, e, Clear)
<1>1. /\ Len(ClearPlan) = 4 /\ ClearPlan[1] = Sync /\ ClearPlan[2] = Put("journal", None)
      /\ ClearPlan[3] = Sync /\ ClearPlan[4] = Put("receipt", None)
  BY DEF ClearPlan
<1>2. Put("journal", None) \in OpRow /\ Put("receipt", None) \in OpRow /\ Sync \in OpRow
  BY RemoveRow
<1>3. PICK t : t = Clear
  OBVIOUS
<1>4. t = RemoveSecureFile("receipt") \o RemoveSecureFile("journal")
  BY <1>3 DEF Clear
<1>5. CASE file.journal = None
  <2>1. RemoveSecureFile("receipt") = <<>> /\ RemoveSecureFile("journal") = <<>> /\ file.receipt = None
    BY <1>5, RemoveRow DEF Bound
  <2>2. t \in Seq(OpRow) /\ Len(t) = 0
    BY <1>4, <2>1
  <2>3. Ends(t, ClearPlan)
    BY <1>1, <2>2 DEF Ends
  <2>. QED  BY <1>3, <2>1, <2>2, <2>3 DEF Clearing
<1>6. CASE file.journal # None /\ file.receipt = None
  <2>1. RemoveSecureFile("receipt") = <<>> /\ RemoveSecureFile("journal") = <<Put("journal", None), Sync>>
    BY <1>6, RemoveRow
  <2>2. t \in Seq(OpRow) /\ Len(t) = 2 /\ t[1] = ClearPlan[2] /\ t[2] = ClearPlan[1]
    <3>1. t = <<>> \o <<Put("journal", None), Sync>>
      BY <1>4, <2>1
    <3>2. t \in Seq(OpRow) /\ Len(t) = 2 /\ t[1] = Put("journal", None) /\ t[2] = Sync
      BY <1>2, <3>1, JoinNone, Z3
    <3>. QED  BY <1>1, <3>2
  <2>3. ASSUME NEW i \in 1 .. 2 PROVE t[i] = ClearPlan[2 + 1 - i]
    <3>1. i = 1 \/ i = 2
      OBVIOUS
    <3>. QED  BY <2>2, <3>1
  <2>4. Ends(t, ClearPlan)
    BY <1>1, <2>2, <2>3 DEF Ends
  <2>. QED  BY <1>3, <1>6, <2>2, <2>4 DEF Clearing
<1>7. CASE file.journal # None /\ file.receipt # None
  <2>1. /\ RemoveSecureFile("receipt") = <<Put("receipt", None), Sync>>
        /\ RemoveSecureFile("journal") = <<Put("journal", None), Sync>>
    BY <1>7, RemoveRow
  <2>2. /\ t \in Seq(OpRow) /\ Len(t) = 4 /\ t[1] = ClearPlan[4] /\ t[2] = ClearPlan[3]
        /\ t[3] = ClearPlan[2] /\ t[4] = ClearPlan[1]
    <3>1. t = <<Put("receipt", None), Sync>> \o <<Put("journal", None), Sync>>
      BY <1>4, <2>1
    <3>2. /\ t \in Seq(OpRow) /\ Len(t) = 4 /\ t[1] = Put("receipt", None) /\ t[2] = Sync
          /\ t[3] = Put("journal", None) /\ t[4] = Sync
      BY <1>2, <3>1, JoinTwo, Z3
    <3>. QED  BY <1>1, <3>2
  <2>3. ASSUME NEW i \in 1 .. 4 PROVE t[i] = ClearPlan[4 + 1 - i]
    <3>1. i = 1 \/ i = 2 \/ i = 3 \/ i = 4
      OBVIOUS
    <3>. QED  BY <2>2, <3>1
  <2>4. Ends(t, ClearPlan) /\ ~(Len(t) <= 3)
    BY <1>1, <2>2, <2>3 DEF Ends
  <2>. QED  BY <1>3, <2>2, <2>4 DEF Clearing
<1>. QED  BY <1>5, <1>6, <1>7

\* Repair, whatever is there.
LEMMA RepairEnds ==
    ASSUME file \in FileRow
    PROVE  Repair \in Seq(OpRow) /\ Repairing(file, Repair)
<1>1. CASE Readable(file.journal) /\ ~Readable(file.receipt)
  <2>1. file.journal \in Journal
    BY <1>1, FileCases
  <2>2. ReceiptFromJournal(file.journal) \in Receipt
    BY <2>1, ReceiptBound
  <2>3. Repair = AtomicWrite("receipt", ReceiptFromJournal(file.journal))
    BY <1>1 DEF Repair
  <2>. QED  BY <2>1, <2>2, <2>3, WriteEnds DEF Repairing
<1>2. CASE ~(Readable(file.journal) /\ ~Readable(file.receipt))
  BY <1>2 DEF Repair, Repairing
<1>. QED  BY <1>1, <1>2

-----------------------------------------------------------------------------
(* Steps in general. *)

\* A step that changes no variable, and no claim unless no value is out.
Quiet == /\ env' = env /\ spent'.edits = spent.edits
         /\ Claims(file, file', env)

\* The bounds that a step uses.
Spends == spent' \in Bounds /\ spent'.edits = spent.edits

\* A fault, or none, leaves the count of edits alone.
LEMMA FaultSpends ==
    ASSUME spent \in Bounds, Fault \/ NoFault
    PROVE  Spends
<1>1. CASE NoFault
  BY <1>1 DEF NoFault, Spends
<1>2. CASE Fault
  BY <1>2 DEF Fault, Spends, Bounds
<1>. QED  BY <1>1, <1>2

\* The places of a command.
LEMMA Places ==
    /\ "reconcile" \in PC /\ "again" \in PC /\ "verify" \in PC /\ "scope" \in PC
    /\ "prepare" \in PC /\ "publishing" \in PC /\ "activating" \in PC /\ "undoing" \in PC
    /\ "marking" \in PC /\ "stop" \in PC /\ "restore" \in PC /\ "clearing" \in PC
    /\ "recording" \in PC /\ "receiptonly" \in PC /\ "idle" \in PC /\ "start" \in PC
    /\ "activate" \in PC /\ "child" \in PC /\ "recover" \in PC
  BY DEF PC, InLock, Reconciling

\* Where the process goes.
Goes(p, row) == row \in ProcRow /\ Named(row) /\ at' = [at EXCEPT ![p] = row]

\* The parts of the invariant again, after a step of process p.
LEMMA Assemble ==
    ASSUME ActivationInv, NEW p \in Proc, NEW row, Goes(p, row), spent' \in Bounds, env' \in Prior,
           Recorded(file', disk', env'),
           lock' = p => Works(row, file', disk', env'),
           lock' # p => lock' = None \/ (lock' = lock /\ UNCHANGED <<file, disk, env>>),
           lock' \in Proc \cup {None}
    PROVE  ActivationInv'
<1>1. at \in [Proc -> ProcRow] /\ (\A q \in Proc : Named(at[q]))
  BY DEF ActivationInv, TypeOK
<1>2. /\ at' \in [Proc -> ProcRow] /\ at'[p] = row
      /\ \A q \in Proc : q # p => at'[q] = at[q]
  BY <1>1 DEF Goes
<1>3. \A q \in Proc : Named(at'[q])
  BY <1>1, <1>2 DEF Goes
<1>4. ASSUME NEW q \in Proc, lock' = q PROVE Works(at'[q], file', disk', env')
  <2>1. CASE q = p
    BY <1>2, <1>4, <2>1
  <2>2. CASE q # p
    <3>1. lock' # None
      BY <1>4, ConstantsDiffer
    <3>2. lock = q /\ file' = file /\ disk' = disk /\ env' = env
      BY <1>4, <2>2, <3>1
    <3>3. Works(at[q], file, disk, env)
      BY <3>2 DEF ActivationInv
    <3>. QED  BY <1>2, <2>2, <3>2, <3>3
  <2>. QED  BY <2>1, <2>2
<1>. QED  BY <1>2, <1>3, <1>4 DEF ActivationInv, TypeOK

\* A step that leaves the lock, or is taken without it.
LEMMA Outside ==
    ASSUME ActivationInv, NEW p \in Proc, \E row : Goes(p, row), Spends,
           UNCHANGED <<file, disk, env>>,
           lock' = None \/ (lock' = lock /\ lock # p)
    PROVE  ActivationInv' /\ Quiet
<1>1. PICK row : Goes(p, row)
  OBVIOUS
<1>2. env' \in Prior /\ Recorded(file', disk', env') /\ lock' \in Proc \cup {None}
  BY DEF ActivationInv, TypeOK
<1>3. p # None
  BY ConstantsDiffer
<1>4. ActivationInv'
  BY <1>1, <1>2, <1>3, Assemble DEF Spends
<1>. QED  BY <1>4 DEF Quiet, Spends, Claims

\* A step under the lock that changes no file and no variable.
LEMMA Inside ==
    ASSUME ActivationInv, NEW p \in Proc, NEW row, Goes(p, row), Spends,
           UNCHANGED <<file, disk, env>>, lock' = p, Works(row, file, disk, env)
    PROVE  ActivationInv' /\ Quiet
<1>2. env' \in Prior /\ Recorded(file', disk', env') /\ lock' \in Proc \cup {None}
  BY DEF ActivationInv, TypeOK
<1>3. Works(row, file', disk', env')
  OBVIOUS
<1>4. ActivationInv'
  BY <1>2, <1>3, Assemble DEF Spends
<1>. QED  BY <1>4 DEF Quiet, Spends, Claims

\* The command ends.
LEMMA Returns ==
    ASSUME NEW p \in Proc, Return(p)
    PROVE  \E row : Goes(p, row)
<1>1. Idle \in ProcRow
  <2>1. <<>> \in Seq(OpRow)
    OBVIOUS
  <2>. QED  BY <2>1 DEF Idle, ProcRow, PC, Command
<1>2. Named(Idle)
  BY DEF Idle, Named
<1>. QED  BY <1>1, <1>2 DEF Return, Goes

\* recoverExpected of one's own activation.
LEMMA RecoversOwn ==
    ASSUME ActivationInv, NEW p \in Proc, at[p].pc \in {"verify", "scope"}, RecoverOwn(p)
    PROVE  \E row : Goes(p, row)
<1>1. at \in [Proc -> ProcRow] /\ Named(at[p])
  BY DEF ActivationInv, TypeOK
<1>2. PICK row : row = [at[p] EXCEPT !.pc = "recover", !.goal = at[p].act, !.held = FALSE, !.todo = <<>>]
  OBVIOUS
<1>3. at[p].act \in Activation
  BY <1>1 DEF Named
<1>4. row \in ProcRow /\ row.pc = "recover" /\ row.goal \in Activation
  <2>1. <<>> \in Seq(OpRow)
    OBVIOUS
  <2>. QED  BY <1>1, <1>2, <1>3, <2>1, Places DEF ProcRow
<1>5. at' = [at EXCEPT ![p] = row]
  BY <1>1, <1>2 DEF RecoverOwn
<1>. QED  BY <1>4, <1>5 DEF Goes, Named

\* The process that holds the lock is in a section under it.
LEMMA NotHolding ==
    ASSUME ActivationInv, NEW p \in Proc, at[p].pc \notin InLock
    PROVE  lock # p
  BY DEF ActivationInv, Works

-----------------------------------------------------------------------------
(* The steps without the lock. *)

\* A command is given.
LEMMA BeginStep ==
    ASSUME ActivationInv, NEW p \in Proc, NEW command \in Command, Begin(p, command)
    PROVE  ActivationInv' /\ Quiet
<1>1. at \in [Proc -> ProcRow] /\ Named(at[p]) /\ spent \in Bounds
  BY DEF ActivationInv, TypeOK
<1>2. \E row : Goes(p, row)
  <2>1. PICK row : row = [at[p] EXCEPT !.pc = "reconcile", !.cmd = command]
    OBVIOUS
  <2>2. row \in ProcRow /\ row.pc = "reconcile"
    BY <1>1, <2>1, Places DEF ProcRow
  <2>3. Named(row)
    BY <1>1, <2>2 DEF Named
  <2>4. at' = [at EXCEPT ![p] = row]
    BY <1>1, <2>1 DEF Begin
  <2>. QED  BY <2>2, <2>3, <2>4 DEF Goes
<1>3. Spends
  BY <1>1 DEF Begin, Spends, Bounds
<1>4. lock # p
  BY NotHolding DEF Begin, InLock, Reconciling
<1>. QED  BY <1>2, <1>3, <1>4, Outside DEF Begin

\* A reservation is made.
LEMMA MakeReservationStep ==
    ASSUME ActivationInv, NEW p \in Proc, MakeReservation(p)
    PROVE  ActivationInv' /\ Quiet
<1>1. at \in [Proc -> ProcRow] /\ Named(at[p]) /\ spent \in Bounds
  BY DEF ActivationInv, TypeOK
<1>2. \E row : Goes(p, row)
  <2>1. PICK row : row = [at[p] EXCEPT !.held = TRUE]
    OBVIOUS
  <2>2. row \in ProcRow /\ row.pc = at[p].pc /\ row.act = at[p].act /\ row.prior = at[p].prior /\ row.goal = at[p].goal
    BY <1>1, <2>1 DEF ProcRow
  <2>3. Named(row)
    BY <1>1, <2>2 DEF Named
  <2>4. at' = [at EXCEPT ![p] = row]
    BY <1>1, <2>1 DEF MakeReservation
  <2>. QED  BY <2>2, <2>3, <2>4 DEF Goes
<1>3. Spends
  BY <1>1, FaultSpends DEF MakeReservation
<1>4. lock # p
  BY ConstantsDiffer DEF MakeReservation, Reserve
<1>. QED  BY <1>2, <1>3, <1>4, Outside DEF MakeReservation

\* A reservation is refused: the command tries again or ends, ...
LEMMA GiveUpStep ==
    ASSUME ActivationInv, NEW p \in Proc, GiveUp(p)
    PROVE  ActivationInv' /\ Quiet
<1>1. at \in [Proc -> ProcRow] /\ Named(at[p]) /\ spent \in Bounds
  BY DEF ActivationInv, TypeOK
<1>2. CASE at' = [at EXCEPT ![p].held = FALSE]
  <2>1. PICK row : row = [at[p] EXCEPT !.held = FALSE]
    OBVIOUS
  <2>2. row \in ProcRow /\ row.pc = at[p].pc
    BY <1>1, <2>1 DEF ProcRow
  <2>3. Named(row)
    BY <2>2 DEF Named, GiveUp
  <2>4. at' = [at EXCEPT ![p] = row]
    BY <1>1, <1>2, <2>1
  <2>5. \E r : Goes(p, r)
    BY <2>2, <2>3, <2>4 DEF Goes
  <2>6. Spends /\ lock # p
    BY <1>1, FaultSpends, ConstantsDiffer DEF GiveUp, Refused
  <2>. QED  BY <2>5, <2>6, Outside DEF GiveUp
<1>3. CASE Return(p)
  <2>1. Spends /\ lock # p
    BY <1>1, FaultSpends, ConstantsDiffer DEF GiveUp, Refused
  <2>. QED  BY <1>3, <2>1, Returns, Outside DEF GiveUp
<1>. QED  BY <1>2, <1>3 DEF GiveUp

\* ... the activation is withdrawn, ...
LEMMA LoseActivationStep ==
    ASSUME ActivationInv, NEW p \in Proc, LoseActivation(p)
    PROVE  ActivationInv' /\ Quiet
<1>1. at \in [Proc -> ProcRow] /\ Named(at[p]) /\ spent \in Bounds
  BY DEF ActivationInv, TypeOK
<1>2. at[p].pc \in {"verify", "scope"} /\ (RecoverOwn(p) \/ Return(p)) /\ (Fault \/ NoFault)
  BY DEF LoseActivation, Withdraw
<1>3. \E row : Goes(p, row)
  BY <1>2, RecoversOwn, Returns
<1>4. Spends /\ lock # p
  BY <1>1, <1>2, FaultSpends, ConstantsDiffer DEF LoseActivation, Refused
<1>. QED  BY <1>3, <1>4, Outside DEF LoseActivation

\* ... or not recovered.
LEMMA LoseRecoveryStep ==
    ASSUME ActivationInv, NEW p \in Proc, LoseRecovery(p)
    PROVE  ActivationInv' /\ Quiet
<1>1. at \in [Proc -> ProcRow] /\ Named(at[p]) /\ spent \in Bounds
  BY DEF ActivationInv, TypeOK
<1>2. Spends /\ lock # p
  BY <1>1, FaultSpends, ConstantsDiffer DEF LoseRecovery, Refused
<1>. QED  BY <1>2, Returns, Outside DEF LoseRecovery

\* The listener is started and the environment read.
LEMMA StartStep ==
    ASSUME ActivationInv, NEW p \in Proc, Start(p)
    PROVE  ActivationInv' /\ Quiet
<1>1. at \in [Proc -> ProcRow] /\ Named(at[p]) /\ spent \in Bounds
  BY DEF ActivationInv, TypeOK
<1>2. Spends
  BY <1>1, FaultSpends DEF Start
<1>3. lock # p
  BY NotHolding DEF Start, InLock, Reconciling
<1>4. ASSUME NEW a \in Activation, at' = [at EXCEPT ![p].pc = "activate", ![p].act = a, ![p].prior = env]
      PROVE  \E row : Goes(p, row)
  <2>1. PICK row : row = [at[p] EXCEPT !.pc = "activate", !.act = a, !.prior = env]
    OBVIOUS
  <2>2. env \in Prior
    BY DEF ActivationInv, TypeOK
  <2>3. row \in ProcRow /\ row.pc = "activate" /\ row.act = a /\ row.prior = env
    BY <1>1, <2>1, <2>2, Places DEF ProcRow
  <2>4. Named(row)
    BY <2>2, <2>3 DEF Named
  <2>5. at' = [at EXCEPT ![p] = row]
    BY <1>1, <1>4, <2>1
  <2>. QED  BY <2>3, <2>4, <2>5 DEF Goes
<1>5. \E row : Goes(p, row)
  BY <1>4, Returns DEF Start
<1>. QED  BY <1>2, <1>3, <1>5, Outside DEF Start

\* Another activation won.
LEMMA RaceLostStep ==
    ASSUME ActivationInv, NEW p \in Proc, RaceLost(p)
    PROVE  ActivationInv' /\ Quiet
<1>1. at \in [Proc -> ProcRow] /\ Named(at[p]) /\ spent \in Bounds
  BY DEF ActivationInv, TypeOK
<1>2. \E row : Goes(p, row)
  <2>1. PICK row : row = [at[p] EXCEPT !.pc = "again", !.held = FALSE]
    OBVIOUS
  <2>2. row \in ProcRow /\ row.pc = "again"
    BY <1>1, <2>1, Places DEF ProcRow
  <2>3. Named(row)
    BY <1>1, <2>2 DEF Named
  <2>4. at' = [at EXCEPT ![p] = row]
    BY <1>1, <2>1 DEF RaceLost, LoseRace
  <2>. QED  BY <2>2, <2>3, <2>4 DEF Goes
<1>3. Spends /\ lock # p
  BY <1>1, FaultSpends, ConstantsDiffer DEF RaceLost, Refused
<1>. QED  BY <1>2, <1>3, Outside DEF RaceLost, LoseRace

\* The records cannot be read.
LEMMA PrepareAmbiguousStep ==
    ASSUME ActivationInv, NEW p \in Proc, PrepareAmbiguous(p)
    PROVE  ActivationInv' /\ Quiet
<1>1. at \in [Proc -> ProcRow] /\ Named(at[p]) /\ spent \in Bounds
  BY DEF ActivationInv, TypeOK
<1>2. Spends
  BY <1>1, FaultSpends DEF PrepareAmbiguous
<1>. QED  BY <1>2, Returns, Outside DEF PrepareAmbiguous, Abort

\* The child of run ends.
LEMMA ChildEndsStep ==
    ASSUME ActivationInv, NEW p \in Proc, ChildEnds(p)
    PROVE  ActivationInv' /\ Quiet
<1>1. at \in [Proc -> ProcRow] /\ Named(at[p]) /\ spent \in Bounds
  BY DEF ActivationInv, TypeOK
<1>2. at[p].act \in Activation
  BY <1>1 DEF ChildEnds, Named
<1>3. \E row : Goes(p, row)
  <2>1. PICK row : row = [at[p] EXCEPT !.pc = "recover", !.cmd = "unscope", !.goal = at[p].act]
    OBVIOUS
  <2>2. row \in ProcRow /\ row.pc = "recover" /\ row.goal \in Activation
    BY <1>1, <2>1, <1>2, Places DEF ProcRow, Command
  <2>3. Named(row)
    BY <1>1, <2>2 DEF Named
  <2>4. at' = [at EXCEPT ![p] = row]
    BY <1>1, <2>1 DEF ChildEnds
  <2>. QED  BY <2>2, <2>3, <2>4 DEF Goes
<1>4. Spends
  BY <1>1, FaultSpends DEF ChildEnds
<1>5. lock # p
  BY NotHolding DEF ChildEnds, InLock, Reconciling
<1>. QED  BY <1>3, <1>4, <1>5, Outside DEF ChildEnds

\* Another activation is found where one is to be recovered.
LEMMA WrongActivationStep ==
    ASSUME ActivationInv, NEW p \in Proc, WrongActivation(p)
    PROVE  ActivationInv' /\ Quiet
<1>1. at \in [Proc -> ProcRow] /\ Named(at[p]) /\ spent \in Bounds
  BY DEF ActivationInv, TypeOK
<1>2. Spends /\ lock # p
  BY <1>1, FaultSpends, ConstantsDiffer DEF WrongActivation
<1>. QED  BY <1>2, Returns, Outside DEF WrongActivation

-----------------------------------------------------------------------------
(* The steps that leave the lock. *)

\* What a reconciliation finds is an activation or nothing.
LEMMA FoundActivation ==
    ASSUME ActivationInv
    PROVE  Reconciled.id \in Activation \cup {None}
<1>1. file \in FileRow
  BY DEF ActivationInv, Recorded
<1>2. /\ Readable(file.journal) => file.journal.id \in Activation
      /\ Readable(file.receipt) => file.receipt.id \in Activation
  BY <1>1, FileCases DEF Journal, Receipt
<1>. QED  BY <1>2 DEF Reconciled

\* The end of a reconciliation: the command starts, recovers or answers.
LEMMA FinishReconcileStep ==
    ASSUME ActivationInv, NEW p \in Proc, FinishReconcile(p)
    PROVE  ActivationInv' /\ Quiet
<1>1. at \in [Proc -> ProcRow] /\ Named(at[p]) /\ spent \in Bounds
  BY DEF ActivationInv, TypeOK
<1>2. CASE at' = [at EXCEPT ![p].pc = "start", ![p].held = FALSE]
  <2>1. PICK row : row = [at[p] EXCEPT !.pc = "start", !.held = FALSE]
    OBVIOUS
  <2>2. row \in ProcRow /\ row.pc = "start"
    BY <1>1, <2>1, Places DEF ProcRow
  <2>3. Named(row)
    BY <1>1, <2>2 DEF Named
  <2>4. at' = [at EXCEPT ![p] = row]
    BY <1>1, <1>2, <2>1
  <2>5. \E r : Goes(p, r)
    BY <2>2, <2>3, <2>4 DEF Goes
  <2>6. Spends
    BY <1>1, FaultSpends DEF FinishReconcile
  <2>. QED  BY <2>5, <2>6, Outside DEF FinishReconcile
<1>3. CASE Reconciled.id # None /\ at' = [at EXCEPT ![p].pc = "recover", ![p].goal = Reconciled.id, ![p].held = FALSE]
  <2>0. PICK a \in Activation : a = Reconciled.id
    BY <1>3, FoundActivation
  <2>1. PICK row : row = [at[p] EXCEPT !.pc = "recover", !.goal = a, !.held = FALSE]
    OBVIOUS
  <2>2. row \in ProcRow /\ row.pc = "recover" /\ row.goal \in Activation
    BY <1>1, <2>1, Places DEF ProcRow
  <2>3. Named(row)
    BY <1>1, <2>2 DEF Named
  <2>4. at' = [at EXCEPT ![p] = row]
    BY <1>1, <1>3, <2>0, <2>1
  <2>5. \E r : Goes(p, r)
    BY <2>2, <2>3, <2>4 DEF Goes
  <2>6. Spends
    BY <1>1, FaultSpends DEF FinishReconcile
  <2>. QED  BY <2>5, <2>6, Outside DEF FinishReconcile
<1>4. CASE Return(p)
  <2>1. Spends
    BY <1>1, FaultSpends DEF FinishReconcile
  <2>. QED  BY <1>4, <2>1, Returns, Outside DEF FinishReconcile
<1>. QED  BY <1>2, <1>3, <1>4 DEF FinishReconcile, Recovers

\* The end of a verification.
LEMMA FinishVerifyStep ==
    ASSUME ActivationInv, NEW p \in Proc, FinishVerify(p)
    PROVE  ActivationInv' /\ Quiet
<1>1. at \in [Proc -> ProcRow] /\ Named(at[p]) /\ spent \in Bounds
  BY DEF ActivationInv, TypeOK
<1>2. at[p].pc = "verify" /\ at[p].act \in Activation
  BY <1>1 DEF FinishVerify, Finished, Named
<1>3. Spends
  BY <1>1, FaultSpends DEF FinishVerify, Withdraw
<1>4. ASSUME at' = [at EXCEPT ![p].pc = "scope", ![p].held = FALSE] PROVE \E row : Goes(p, row)
  <2>1. PICK row : row = [at[p] EXCEPT !.pc = "scope", !.held = FALSE]
    OBVIOUS
  <2>2. row \in ProcRow /\ row.pc = "scope" /\ row.act \in Activation
    BY <1>1, <2>1, <1>2, Places DEF ProcRow
  <2>3. Named(row)
    BY <1>1, <2>2 DEF Named
  <2>4. at' = [at EXCEPT ![p] = row]
    BY <1>1, <1>4, <2>1
  <2>. QED  BY <2>2, <2>3, <2>4 DEF Goes
<1>5. \E row : Goes(p, row)
  BY <1>2, <1>4, Returns, RecoversOwn DEF FinishVerify, Withdraw
<1>. QED  BY <1>3, <1>5, Outside DEF FinishVerify

\* The scope is taken, or the activation recovered.
LEMMA FinishScopeStep ==
    ASSUME ActivationInv, NEW p \in Proc, FinishScope(p)
    PROVE  ActivationInv' /\ Quiet
<1>1. at \in [Proc -> ProcRow] /\ Named(at[p]) /\ spent \in Bounds
  BY DEF ActivationInv, TypeOK
<1>2. at[p].pc = "scope" /\ at[p].act \in Activation
  BY <1>1 DEF FinishScope, Finished, Named
<1>3. Spends
  BY <1>1, FaultSpends DEF FinishScope
<1>4. ASSUME at' = [at EXCEPT ![p].pc = "child"] PROVE \E row : Goes(p, row)
  <2>1. PICK row : row = [at[p] EXCEPT !.pc = "child"]
    OBVIOUS
  <2>2. row \in ProcRow /\ row.pc = "child" /\ row.act \in Activation
    BY <1>1, <2>1, <1>2, Places DEF ProcRow
  <2>3. Named(row)
    BY <1>1, <2>2 DEF Named
  <2>4. at' = [at EXCEPT ![p] = row]
    BY <1>1, <1>4, <2>1
  <2>. QED  BY <2>2, <2>3, <2>4 DEF Goes
<1>5. \E row : Goes(p, row)
  BY <1>2, <1>4, RecoversOwn DEF FinishScope
<1>. QED  BY <1>3, <1>5, Outside DEF FinishScope

\* A reconciliation fails.
LEMMA FailReconcileStep ==
    ASSUME ActivationInv, NEW p \in Proc, FailReconcile(p)
    PROVE  ActivationInv' /\ Quiet
<1>1. at \in [Proc -> ProcRow] /\ Named(at[p]) /\ spent \in Bounds
  BY DEF ActivationInv, TypeOK
<1>2. Spends
  BY <1>1, FaultSpends DEF FailReconcile
<1>3. \E row : Goes(p, row)
  BY Returns, RecoversOwn DEF FailReconcile
<1>. QED  BY <1>2, <1>3, Outside DEF FailReconcile

\* The activation is complete.
LEMMA FinishActivateStep ==
    ASSUME ActivationInv, NEW p \in Proc, FinishActivate(p)
    PROVE  ActivationInv' /\ Quiet
<1>1. at \in [Proc -> ProcRow] /\ Named(at[p]) /\ spent \in Bounds
  BY DEF ActivationInv, TypeOK
<1>2. at[p].act \in Activation
  BY <1>1 DEF FinishActivate, Finished, Named
<1>3. Spends
  BY <1>1, FaultSpends DEF FinishActivate
<1>4. \E row : Goes(p, row)
  <2>0. PICK b \in BOOLEAN : b = (host[at[p].act] # p)
    OBVIOUS
  <2>1. PICK row : row = [at[p] EXCEPT !.pc = "verify", !.held = FALSE, !.bad = b]
    OBVIOUS
  <2>2. row \in ProcRow /\ row.pc = "verify" /\ row.act \in Activation
    BY <1>1, <2>1, <1>2, Places DEF ProcRow
  <2>3. Named(row)
    BY <1>1, <2>2 DEF Named
  <2>4. at' = [at EXCEPT ![p] = row]
    BY <1>1, <2>0, <2>1 DEF FinishActivate
  <2>. QED  BY <2>2, <2>3, <2>4 DEF Goes
<1>. QED  BY <1>3, <1>4, Outside DEF FinishActivate

\* An activation that was undone or marked ends with an error.
LEMMA FinishUndoStep ==
    ASSUME ActivationInv, NEW p \in Proc, FinishUndo(p)
    PROVE  ActivationInv' /\ Quiet
<1>1. at \in [Proc -> ProcRow] /\ Named(at[p]) /\ spent \in Bounds
  BY DEF ActivationInv, TypeOK
<1>2. Spends
  BY <1>1, FaultSpends DEF FinishUndo
<1>. QED  BY <1>2, Returns, Outside DEF FinishUndo, Abort

\* A recovery ends ...
LEMMA FinishRecoverStep ==
    ASSUME ActivationInv, NEW p \in Proc, FinishRecover(p)
    PROVE  ActivationInv' /\ Quiet
<1>1. at \in [Proc -> ProcRow] /\ Named(at[p]) /\ spent \in Bounds
  BY DEF ActivationInv, TypeOK
<1>2. Spends
  BY <1>1, FaultSpends DEF FinishRecover
<1>. QED  BY <1>2, Returns, Outside DEF FinishRecover

\* ... or fails.
LEMMA FailRecoverStep ==
    ASSUME ActivationInv, NEW p \in Proc, FailRecover(p)
    PROVE  ActivationInv' /\ Quiet
<1>1. at \in [Proc -> ProcRow] /\ Named(at[p]) /\ spent \in Bounds
  BY DEF ActivationInv, TypeOK
<1>2. Spends
  BY <1>1, FaultSpends DEF FailRecover
<1>. QED  BY <1>2, Returns, Outside DEF FailRecover

-----------------------------------------------------------------------------
(* The steps that take the lock. *)

\* The files as they are read are among those that may survive.
LEMMA FileIsRecorded ==
    ASSUME ActivationInv
    PROVE  file \in FileRow /\ Bound(file) /\ Kept(file, env)
  BY DEF ActivationInv, Recorded

\* A reconciliation begins.
LEMMA EnterReconcileStep ==
    ASSUME ActivationInv, NEW p \in Proc, EnterReconcile(p)
    PROVE  ActivationInv' /\ Quiet
<1>1. at \in [Proc -> ProcRow] /\ Named(at[p]) /\ spent \in Bounds
  BY DEF ActivationInv, TypeOK
<1>2. PICK t \in Seq(OpRow) : t = Repair /\ Repairing(file, t)
  BY FileIsRecorded, RepairEnds
<1>3. PICK row : row = [at[p] EXCEPT !.todo = t]
  OBVIOUS
<1>4. /\ row \in ProcRow /\ row.pc = at[p].pc /\ row.act = at[p].act /\ row.prior = at[p].prior
      /\ row.goal = at[p].goal /\ row.todo = t
  BY <1>1, <1>3 DEF ProcRow
<1>5. Named(row)
  BY <1>1, <1>4 DEF Named
<1>6. at' = [at EXCEPT ![p] = row]
  BY <1>1, <1>2, <1>3 DEF EnterReconcile
<1>7. Works(row, file, disk, env)
  BY <1>2, <1>4 DEF Works, EnterReconcile, Reconciling, InLock
<1>8. Spends
  BY <1>1, FaultSpends DEF EnterReconcile
<1>9. Goes(p, row)
  BY <1>4, <1>5, <1>6 DEF Goes
<1>. QED  BY <1>7, <1>8, <1>9, Inside DEF EnterReconcile, Enter

\* An activation begins: there is no record, so no value is out.
LEMMA EnterActivateStep ==
    ASSUME ActivationInv, NEW p \in Proc, EnterActivate(p)
    PROVE  ActivationInv' /\ Quiet
<1>1. at \in [Proc -> ProcRow] /\ Named(at[p]) /\ spent \in Bounds
  BY DEF ActivationInv, TypeOK
<1>2. Clean(env)
  BY FileIsRecorded DEF EnterActivate, Kept, Clean
<1>3. PICK j : j = JournalOf(at[p], "prepared")
  OBVIOUS
<1>4. j \in Journal
  BY <1>1, <1>3 DEF JournalOf, EnterActivate, Named, Journal, JournalState, Prior
<1>5. PICK t \in Seq(OpRow) : t = AtomicWrite("journal", j) /\ Len(t) = 2 /\ Ends(t, WritePlan("journal", j))
  BY <1>4, WriteEnds
<1>6. PICK row : row = [at[p] EXCEPT !.pc = "prepare", !.todo = t]
  OBVIOUS
<1>7. /\ row \in ProcRow /\ row.pc = "prepare" /\ row.act = at[p].act /\ row.prior = at[p].prior
      /\ row.todo = t
  BY <1>1, <1>6, Places DEF ProcRow
<1>8. Named(row)
  BY <1>1, <1>7 DEF Named, EnterActivate
<1>9. at' = [at EXCEPT ![p] = row]
  BY <1>1, <1>3, <1>5, <1>6 DEF EnterActivate, Prepare, NewJournal, JournalOf
<1>10. JournalOf(row, "prepared") = j
  BY <1>3, <1>7 DEF JournalOf
<1>11. Preparing(file, t, j)
  BY <1>4, <1>5 DEF Preparing, EnterActivate
<1>12. Works(row, file, disk, env)
  BY <1>2, <1>7, <1>10, <1>11 DEF Works, Reconciling, InLock
<1>13. Spends
  BY <1>1, FaultSpends DEF EnterActivate
<1>14. Goes(p, row)
  BY <1>7, <1>8, <1>9 DEF Goes
<1>. QED  BY <1>12, <1>13, <1>14, Inside DEF EnterActivate, Enter

\* A recovery begins.
LEMMA EnterRecoverStep ==
    ASSUME ActivationInv, NEW p \in Proc, EnterRecover(p)
    PROVE  ActivationInv' /\ Quiet
<1>1. at \in [Proc -> ProcRow] /\ Named(at[p]) /\ spent \in Bounds
  BY DEF ActivationInv, TypeOK
<1>2. PICK t \in Seq(OpRow) : t = Repair /\ Repairing(file, t)
  BY FileIsRecorded, RepairEnds
<1>3. file.journal \in Journal
  BY FileIsRecorded, FileCases DEF EnterRecover
<1>4. PICK row : row = [at[p] EXCEPT !.pc = "stop", !.todo = t, !.left = Name, !.bad = FALSE]
  OBVIOUS
<1>5. row \in ProcRow /\ row.pc = "stop" /\ row.todo = t /\ row.left = Name
  BY <1>1, <1>4, Places DEF ProcRow
<1>6. Named(row)
  BY <1>5 DEF Named
<1>7. at' = [at EXCEPT ![p] = row]
  BY <1>1, <1>2, <1>4 DEF EnterRecover
<1>8. Works(row, file, disk, env)
  BY <1>2, <1>3, <1>5 DEF Works, Reconciling, InLock
<1>9. Spends
  BY <1>1, FaultSpends DEF EnterRecover
<1>10. Goes(p, row)
  BY <1>5, <1>6, <1>7 DEF Goes
<1>. QED  BY <1>8, <1>9, <1>10, Inside DEF EnterRecover, Enter

\* A recovery without a readable journal begins: the receipt is readable, the journal damaged.
LEMMA EnterReceiptOnlyStep ==
    ASSUME ActivationInv, NEW p \in Proc, EnterReceiptOnly(p)
    PROVE  ActivationInv' /\ Quiet
<1>1. at \in [Proc -> ProcRow] /\ Named(at[p]) /\ spent \in Bounds
  BY DEF ActivationInv, TypeOK
<1>2. at[p].goal \in Activation
  BY <1>1 DEF Named, EnterReceiptOnly
<1>3. Readable(file.receipt) /\ ~Readable(file.journal)
  BY <1>2, ConstantsDiffer DEF EnterReceiptOnly, Expected
<1>4. file.receipt \in Receipt /\ file.journal \in [was : Journal]
  <2>1. file.receipt \in Receipt /\ file.receipt # None
    BY <1>3, FileIsRecorded, FileCases DEF Readable
  <2>2. file.journal # None
    BY <2>1, FileIsRecorded DEF Bound
  <2>. QED  BY <1>3, <2>1, <2>2, FileIsRecorded, FileCases
<1>5. PICK r : r = [file.receipt EXCEPT !.state = "recovery_required"]
  OBVIOUS
<1>6. r \in Receipt
  BY <1>4, <1>5 DEF Receipt
<1>7. PICK t \in Seq(OpRow) : t = AtomicWrite("receipt", r) /\ Ends(t, WritePlan("receipt", r))
  BY <1>6, WriteEnds
<1>8. PICK row : row = [at[p] EXCEPT !.pc = "receiptonly", !.todo = t]
  OBVIOUS
<1>9. row \in ProcRow /\ row.pc = "receiptonly" /\ row.todo = t
  BY <1>1, <1>8, Places DEF ProcRow
<1>10. Named(row)
  BY <1>9 DEF Named
<1>11. at' = [at EXCEPT ![p] = row]
  BY <1>1, <1>5, <1>7, <1>8 DEF EnterReceiptOnly
<1>12. ReceiptOnly(file, t)
  BY <1>4, <1>6, <1>7 DEF ReceiptOnly
<1>13. Works(row, file, disk, env)
  BY <1>9, <1>12 DEF Works, Reconciling, InLock
<1>14. Spends
  BY <1>1, FaultSpends DEF EnterReceiptOnly
<1>15. Goes(p, row)
  BY <1>9, <1>10, <1>11 DEF Goes
<1>. QED  BY <1>13, <1>14, <1>15, Inside DEF EnterReceiptOnly, Enter

-----------------------------------------------------------------------------
(* The steps under the lock. *)

\* What the holder of the lock has done so far.
LEMMA Holding ==
    ASSUME ActivationInv, NEW p \in Proc, lock = p
    PROVE  Works(at[p], file, disk, env)
  BY DEF ActivationInv

\* An operation of the transaction.
LEMMA PerformStep ==
    ASSUME ActivationInv, NEW p \in Proc, Perform(p)
    PROVE  ActivationInv' /\ Quiet
<1>1. at \in [Proc -> ProcRow] /\ Named(at[p]) /\ spent \in Bounds
  BY DEF ActivationInv, TypeOK
<1>2. at[p].todo # <<>> /\ lock = p /\ lock' = lock /\ env' = env
  BY DEF Perform, Locked
<1>3. PICK row : row = [at[p] EXCEPT !.todo = Tail(at[p].todo)]
  OBVIOUS
<1>4. Tail(at[p].todo) \in Seq(OpRow)
  <2>1. at[p].todo \in Seq(OpRow)
    BY <1>1 DEF ProcRow
  <2>. QED  BY <1>2, <2>1
<1>5. /\ row \in ProcRow /\ row.pc = at[p].pc /\ row.act = at[p].act /\ row.prior = at[p].prior
      /\ row.goal = at[p].goal
  BY <1>1, <1>3, <1>4 DEF ProcRow
<1>6. Goes(p, row)
  <2>1. Named(row)
    BY <1>1, <1>5 DEF Named
  <2>2. at' = [at EXCEPT ![p] = row]
    BY <1>1, <1>3 DEF Perform
  <2>. QED  BY <1>5, <2>1, <2>2 DEF Goes
<1>7. Applied(Head(at[p].todo), file, disk, file', disk')
  BY DEF Perform, Apply, Applied
<1>8. PICK r, f, d, e, g, c : r = at[p] /\ f = file /\ d = disk /\ e = env /\ g = file' /\ c = disk'
  OBVIOUS
<1>9. Recorded(f, d, e) /\ Works(r, f, d, e) /\ r \in ProcRow /\ r.todo # <<>>
  BY <1>1, <1>2, <1>8 DEF ActivationInv
<1>10. Applied(Head(r.todo), f, d, g, c) /\ row = [r EXCEPT !.todo = Tail(r.todo)]
  BY <1>3, <1>7, <1>8
<1>11. Recorded(g, c, e) /\ Works(row, g, c, e) /\ Claims(f, g, e)
  <2>1. row \in ProcRow
    BY <1>5
  <2>. QED  BY <1>9, <1>10, <2>1, PerformWorks, Z3
<1>12. Spends
  BY <1>1, FaultSpends DEF Perform
<1>13. env' \in Prior
  BY <1>2 DEF ActivationInv, TypeOK
<1>14. Recorded(file', disk', env') /\ Works(row, file', disk', env') /\ Claims(file, file', env)
  BY <1>2, <1>8, <1>11
<1>15. ActivationInv'
  BY <1>2, <1>6, <1>12, <1>13, <1>14, Assemble DEF Spends
<1>. QED  BY <1>2, <1>12, <1>14, <1>15 DEF Quiet, Spends

\* A finished transaction has nothing left.
LEMMA NothingLeft ==
    ASSUME NEW t, t = <<>>
    PROVE  Len(t) = 0 /\ Len(t) # 2 /\ Len(t) <= 1 /\ Len(t) <= 3
  OBVIOUS

\* The journal is there: it is marked as publishing.
LEMMA FinishPrepareStep ==
    ASSUME ActivationInv, NEW p \in Proc, FinishPrepare(p)
    PROVE  ActivationInv' /\ Quiet
<1>1. at \in [Proc -> ProcRow] /\ Named(at[p]) /\ spent \in Bounds
  BY DEF ActivationInv, TypeOK
<1>2. /\ lock = p /\ at[p].pc = "prepare" /\ at[p].todo = <<>> /\ lock' = lock
      /\ UNCHANGED <<file, disk, env>>
  BY DEF FinishPrepare, Finished, Locked
<1>3. Clean(env) /\ Preparing(file, at[p].todo, JournalOf(at[p], "prepared"))
  BY <1>2, Holding DEF Works
<1>4. file.journal = JournalOf(at[p], "prepared") /\ file.journal \in Journal
  BY <1>2, <1>3, NothingLeft DEF Preparing
<1>5. PICK j : j = [file.journal EXCEPT !.state = "publishing"]
  OBVIOUS
<1>6. PICK t \in Seq(OpRow) : t = Transition("publishing") /\ Publishing(file, disk, t, j)
  BY <1>4, <1>5, FileIsRecorded, PublishingEnds
<1>7. PICK row : row = [at[p] EXCEPT !.pc = "publishing", !.todo = t]
  OBVIOUS
<1>8. /\ row \in ProcRow /\ row.pc = "publishing" /\ row.act = at[p].act /\ row.prior = at[p].prior
      /\ row.todo = t
  BY <1>1, <1>7, Places DEF ProcRow
<1>9. Goes(p, row)
  <2>1. Named(row)
    BY <1>1, <1>2, <1>8 DEF Named
  <2>2. at' = [at EXCEPT ![p] = row]
    BY <1>1, <1>6, <1>7 DEF FinishPrepare
  <2>. QED  BY <1>8, <2>1, <2>2 DEF Goes
<1>10. JournalOf(row, "publishing") = j
  BY <1>4, <1>5, <1>8 DEF JournalOf
<1>11. Works(row, file, disk, env)
  BY <1>3, <1>6, <1>8, <1>10 DEF Works, Reconciling, InLock
<1>12. Spends
  BY <1>1, FaultSpends DEF FinishPrepare
<1>. QED  BY <1>2, <1>9, <1>11, <1>12, Inside

\* A transition to a state with a receipt begins.
LEMMA GoesTransit ==
    ASSUME ActivationInv, NEW p \in Proc, file.journal \in Journal,
           NEW place \in {"activating", "marking", "recording"}, NEW next \in {"active", "recovery_required"},
           place = "activating" => at[p].act \in Activation,
           at' = [at EXCEPT ![p].pc = place, ![p].todo = Transition(next)]
    PROVE  \E row : Goes(p, row) /\ row.pc = place /\ Transiting(file, row.todo)
<1>1. at \in [Proc -> ProcRow] /\ Named(at[p]) /\ spent \in Bounds
  BY DEF ActivationInv, TypeOK
<1>2. PICK t \in Seq(OpRow) : t = Transition(next) /\ Transiting(file, t)
  BY FileIsRecorded, TransitionEnds
<1>3. PICK row : row = [at[p] EXCEPT !.pc = place, !.todo = t]
  OBVIOUS
<1>4. row \in ProcRow /\ row.pc = place /\ row.act = at[p].act /\ row.todo = t
  BY <1>1, <1>3, Places DEF ProcRow
<1>5. Named(row)
  BY <1>4 DEF Named
<1>6. at' = [at EXCEPT ![p] = row]
  BY <1>1, <1>2, <1>3
<1>. QED  BY <1>2, <1>4, <1>5, <1>6 DEF Goes

\* A value is given, taken back or lost: what is left of the activation's values.
Fewer(e, h) == \A n \in Name : h[n] \in Activation => h[n] = e[n]

\* With fewer values out, everything recorded and planned is as good as before.
LEMMA FewerKeeps ==
    ASSUME NEW e, NEW h, Fewer(e, h), NEW f, NEW d
    PROVE  /\ Recorded(f, d, e) => Recorded(f, d, h)
           /\ Clean(e) => Clean(h)
           /\ \A r : Works(r, f, d, e) => Works(r, f, d, h)
<1>1. ASSUME NEW g, Kept(g, e) PROVE Kept(g, h)
  BY <1>1 DEF Kept, Fewer
<1>2. Clean(e) => Clean(h)
  BY DEF Clean, Fewer
<1>3. ASSUME NEW t, Clearing(f, e, t) PROVE Clearing(f, h, t)
  BY <1>2, <1>3 DEF Clearing
<1>4. ASSUME NEW S, \A n \in Name \ S : e[n] \notin Activation PROVE \A n \in Name \ S : h[n] \notin Activation
  BY <1>4 DEF Fewer
<1>5. ASSUME NEW r, Works(r, f, d, e) PROVE Works(r, f, d, h)
  BY <1>2, <1>3, <1>4, <1>5 DEF Works
<1>. QED  BY <1>1, <1>2, <1>5 DEF Recorded

\* The claim of a readable journal.
LEMMA ClaimRead ==
    ASSUME NEW f, f.journal \in Journal
    PROVE  Claim(f).id = f.journal.id /\ Claim(f).prior = f.journal.prior /\ Claim(f) \in Promise!Claim
<1>1. f.journal # None /\ Content(f.journal) = f.journal
  BY GoodRecord
<1>. QED  BY <1>1 DEF Claim, Promise!Claim, Promise!Value, Journal, Value

\* All variables are replaced at once.
Published == /\ Claim(file) \in Promise!Claim
             /\ env = Claim(file).prior /\ env' = [n \in Name |-> Claim(file).id]
             /\ file' = file /\ spent'.edits = spent.edits

\* Environment.Publish replaces them, finds them changed, or fails.
LEMMA PublishStep ==
    ASSUME ActivationInv, NEW p \in Proc, Publish(p)
    PROVE  ActivationInv' /\ (Quiet \/ Published)
<1>1. at \in [Proc -> ProcRow] /\ Named(at[p]) /\ spent \in Bounds
  BY DEF ActivationInv, TypeOK
<1>2. /\ lock = p /\ at[p].pc = "publishing" /\ at[p].todo = <<>> /\ lock' = lock
      /\ UNCHANGED <<file, disk>>
  BY DEF Publish, Finished, Locked
<1>3. Clean(env) /\ Publishing(file, disk, at[p].todo, JournalOf(at[p], "publishing"))
  BY <1>2, Holding DEF Works
<1>4. file.journal = JournalOf(at[p], "publishing") /\ file.journal \in Journal /\ disk = {file}
  BY <1>2, <1>3, NothingLeft DEF Publishing
<1>5. at[p].act \in Activation
  BY <1>1, <1>2 DEF Named
<1>6. Spends
  BY <1>1, FaultSpends DEF Publish
<1>7. CASE /\ env = at[p].prior /\ env' = [n \in Name |-> at[p].act]
           /\ \/ at' = [at EXCEPT ![p].pc = "activating", ![p].todo = Transition("active")]
              \/ at' = [at EXCEPT ![p].pc = "marking", ![p].todo = Transition("recovery_required")]
  <2>1. PICK row : /\ Goes(p, row) /\ row.pc \in {"activating", "marking"} /\ Transiting(file, row.todo)
    BY <1>4, <1>5, <1>7, GoesTransit
  <2>2. Works(row, file', disk', env')
    BY <1>2, <2>1 DEF Works, Reconciling, InLock
  <2>3. env' \in Prior
    BY <1>5, <1>7 DEF Prior
  <2>4. file.journal.id = at[p].act /\ file.journal.prior = env
    BY <1>4, <1>7 DEF JournalOf
  <2>5. Kept(file, env')
    <3>1. file.journal # None /\ Content(file.journal) = file.journal
      BY <1>4, GoodRecord
    <3>2. \A n \in Name : env'[n] = at[p].act
      BY <1>7
    <3>. QED  BY <1>3, <2>4, <3>1, <3>2 DEF Kept, Clean
  <2>6. Recorded(file', disk', env')
    BY <1>2, <1>4, <2>5, FileIsRecorded DEF Recorded
  <2>7. ActivationInv'
    BY <1>2, <1>6, <2>1, <2>2, <2>3, <2>6, Assemble DEF Spends
  <2>8. Published
    BY <1>2, <1>4, <1>6, <1>7, <2>4, ClaimRead DEF Published, Spends
  <2>. QED  BY <2>7, <2>8
<1>8. CASE env' = env /\ at' = [at EXCEPT ![p].pc = "undoing", ![p].todo = Clear]
  <2>1. PICK t \in Seq(OpRow) : t = Clear /\ Clearing(file, env, t)
    BY <1>3, FileIsRecorded, ClearEnds
  <2>2. PICK row : row = [at[p] EXCEPT !.pc = "undoing", !.todo = t]
    OBVIOUS
  <2>3. row \in ProcRow /\ row.pc = "undoing" /\ row.todo = t
    BY <1>1, <2>2, Places DEF ProcRow
  <2>4. Goes(p, row)
    <3>1. Named(row)
      BY <2>3 DEF Named
    <3>2. at' = [at EXCEPT ![p] = row]
      BY <1>1, <1>8, <2>1, <2>2
    <3>. QED  BY <2>3, <3>1, <3>2 DEF Goes
  <2>5. Works(row, file, disk, env)
    BY <2>1, <2>3 DEF Works, Reconciling, InLock
  <2>. QED  BY <1>2, <1>6, <1>8, <2>4, <2>5, Inside
<1>9. CASE env' = env /\ at' = [at EXCEPT ![p].pc = "marking", ![p].todo = Transition("recovery_required")]
  <2>1. PICK row : Goes(p, row) /\ row.pc = "marking" /\ Transiting(file, row.todo)
    BY <1>4, <1>9, GoesTransit
  <2>2. Works(row, file, disk, env)
    BY <2>1 DEF Works, Reconciling, InLock
  <2>. QED  BY <1>2, <1>6, <1>9, <2>1, <2>2, Inside
<1>. QED  BY <1>7, <1>8, <1>9 DEF Publish

\* An operation of the activation fails.
LEMMA FailActivateStep ==
    ASSUME ActivationInv, NEW p \in Proc, FailActivate(p)
    PROVE  ActivationInv' /\ Quiet
<1>1. at \in [Proc -> ProcRow] /\ Named(at[p]) /\ spent \in Bounds
  BY DEF ActivationInv, TypeOK
<1>2. Spends /\ lock = p
  BY <1>1, FaultSpends DEF FailActivate, Locked
<1>3. CASE Abort(p)
  BY <1>2, <1>3, Returns, Outside DEF Abort
<1>4. CASE /\ at[p].pc = "activating" /\ UNCHANGED <<file, disk, lock, env>>
           /\ at' = [at EXCEPT ![p].pc = "marking", ![p].todo = Transition("recovery_required")]
  <2>1. file.journal \in Journal
    BY <1>2, <1>4, Holding DEF Works, Transiting
  <2>2. PICK row : Goes(p, row) /\ row.pc = "marking" /\ Transiting(file, row.todo)
    BY <1>4, <2>1, GoesTransit
  <2>3. Works(row, file, disk, env)
    BY <2>2 DEF Works, Reconciling, InLock
  <2>. QED  BY <1>2, <1>4, <2>2, <2>3, Inside
<1>. QED  BY <1>3, <1>4 DEF FailActivate

\* The listener is stopped, or that could not be seen.
LEMMA StopVerifiedStep ==
    ASSUME ActivationInv, NEW p \in Proc, StopVerified(p)
    PROVE  ActivationInv' /\ Quiet
<1>1. at \in [Proc -> ProcRow] /\ Named(at[p]) /\ spent \in Bounds
  BY DEF ActivationInv, TypeOK
<1>2. /\ lock = p /\ at[p].pc = "stop" /\ at[p].todo = <<>> /\ lock' = lock
      /\ UNCHANGED <<file, disk, env>>
  BY DEF StopVerified, Finished, Locked
<1>3. file.journal \in Journal
  BY <1>2, Holding DEF Works
<1>4. Spends
  BY <1>1, FaultSpends DEF StopVerified
<1>5. at[p].left = Name
  BY <1>2, Holding DEF Works
<1>6. PICK b \in BOOLEAN : at' = [at EXCEPT ![p] = [at[p] EXCEPT !.pc = "restore", !.bad = b]]
  <2>1. CASE at' = [at EXCEPT ![p].pc = "restore"]
    <3>1. at[p].bad \in BOOLEAN /\ [at[p] EXCEPT !.pc = "restore"] = [at[p] EXCEPT !.pc = "restore", !.bad = at[p].bad]
      BY <1>1 DEF ProcRow
    <3>2. at' = [at EXCEPT ![p] = [at[p] EXCEPT !.pc = "restore"]]
      BY <1>1, <2>1
    <3>. QED  BY <3>1, <3>2
  <2>2. CASE at' = [at EXCEPT ![p].pc = "restore", ![p].bad = TRUE]
    BY <1>1, <2>2
  <2>. QED  BY <2>1, <2>2 DEF StopVerified
<1>7. PICK row : row = [at[p] EXCEPT !.pc = "restore", !.bad = b]
  OBVIOUS
<1>8. row \in ProcRow /\ row.pc = "restore" /\ row.todo = at[p].todo /\ row.left = at[p].left
  BY <1>1, <1>7, Places DEF ProcRow
<1>9. Goes(p, row)
  <2>1. Named(row)
    BY <1>8 DEF Named
  <2>. QED  BY <1>6, <1>7, <1>8, <2>1 DEF Goes
<1>10. Works(row, file, disk, env)
  BY <1>2, <1>3, <1>5, <1>8 DEF Works, Reconciling, InLock
<1>. QED  BY <1>2, <1>4, <1>9, <1>10, Inside

\* One variable is given back.
Restored(n) == /\ n \in Name /\ Claim(file) \in Promise!Claim
               /\ env[n] = Claim(file).id /\ env' = [env EXCEPT ![n] = Claim(file).prior[n]]
               /\ file' = file /\ spent'.edits = spent.edits

\* CompareAndSet gives the variable back, leaves it, or fails.
LEMMA CompareAndSetStep ==
    ASSUME ActivationInv, NEW p \in Proc, NEW n \in Name, CompareAndSet(p, n)
    PROVE  ActivationInv' /\ (Quiet \/ Restored(n))
<1>1. at \in [Proc -> ProcRow] /\ Named(at[p]) /\ spent \in Bounds
  BY DEF ActivationInv, TypeOK
<1>2. /\ lock = p /\ at[p].pc = "restore" /\ at[p].todo = <<>> /\ lock' = lock
      /\ UNCHANGED <<file, disk>>
  BY DEF CompareAndSet, Finished, Locked
<1>3. file.journal \in Journal /\ (at[p].bad \/ \A m \in Name \ at[p].left : env[m] \notin Activation)
  BY <1>2, Holding DEF Works
<1>4. Spends
  BY <1>1, FaultSpends DEF CompareAndSet
<1>5. env \in Prior /\ file.journal.prior \in Prior
  BY <1>3 DEF ActivationInv, TypeOK, Journal, Prior
<1>6. Content(file.journal) = file.journal
  BY <1>3, GoodRecord
<1>7. env[n] \in Activation => env[n] = file.journal.id /\ file.journal.prior[n] \notin Activation
  BY <1>6, FileIsRecorded DEF Kept
<1>8. CASE /\ env[n] = file.journal.id /\ env' = [env EXCEPT ![n] = file.journal.prior[n]]
           /\ at' = [at EXCEPT ![p].left = at[p].left \ {n}]
  <2>1. PICK row : row = [at[p] EXCEPT !.left = at[p].left \ {n}]
    OBVIOUS
  <2>2. /\ row \in ProcRow /\ row.pc = "restore" /\ row.todo = at[p].todo /\ row.bad = at[p].bad
        /\ row.left = at[p].left \ {n}
    BY <1>1, <1>2, <2>1 DEF ProcRow
  <2>3. Goes(p, row)
    <3>1. Named(row)
      BY <2>2 DEF Named
    <3>2. at' = [at EXCEPT ![p] = row]
      BY <1>1, <1>8, <2>1
    <3>. QED  BY <2>2, <3>1, <3>2 DEF Goes
  <2>4. env[n] \in Activation
    BY <1>3, <1>8 DEF Journal
  <2>5. env' \in Prior /\ env'[n] \notin Activation /\ \A m \in Name : m # n => env'[m] = env[m]
    BY <1>5, <1>7, <1>8, <2>4 DEF Prior
  <2>6. Fewer(env, env')
    BY <2>5 DEF Fewer
  <2>7. Recorded(file', disk', env')
    BY <1>2, <2>6, FewerKeeps DEF ActivationInv
  <2>8. at[p].bad \/ \A m \in Name \ row.left : env'[m] \notin Activation
    BY <1>3, <2>2, <2>5
  <2>9. Works(row, file', disk', env')
    BY <1>2, <1>3, <2>2, <2>8 DEF Works, Reconciling, InLock
  <2>10. ActivationInv'
    BY <1>2, <1>4, <2>3, <2>5, <2>7, <2>9, Assemble DEF Spends
  <2>11. Restored(n)
    BY <1>2, <1>3, <1>4, <1>8, ClaimRead DEF Restored, Spends
  <2>. QED  BY <2>10, <2>11
<1>9. ASSUME env[n] \notin Activation \/ at[p].bad, env' = env,
             at' = [at EXCEPT ![p].left = at[p].left \ {n}]
      PROVE  ActivationInv' /\ Quiet
  <2>1. PICK row : row = [at[p] EXCEPT !.left = at[p].left \ {n}]
    OBVIOUS
  <2>2. /\ row \in ProcRow /\ row.pc = "restore" /\ row.todo = at[p].todo /\ row.bad = at[p].bad
        /\ row.left = at[p].left \ {n}
    BY <1>1, <1>2, <2>1 DEF ProcRow
  <2>3. Goes(p, row)
    <3>1. Named(row)
      BY <2>2 DEF Named
    <3>2. at' = [at EXCEPT ![p] = row]
      BY <1>1, <1>9, <2>1
    <3>. QED  BY <2>2, <3>1, <3>2 DEF Goes
  <2>4. at[p].bad \/ \A m \in Name \ row.left : env[m] \notin Activation
    BY <1>3, <1>9, <2>2
  <2>5. Works(row, file, disk, env)
    BY <1>2, <1>3, <2>2, <2>4 DEF Works, Reconciling, InLock
  <2>. QED  BY <1>2, <1>4, <1>9, <2>3, <2>5, Inside
<1>10. CASE env' = env /\ at' = [at EXCEPT ![p].left = at[p].left \ {n}, ![p].bad = TRUE]
  <2>1. PICK row : row = [at[p] EXCEPT !.left = at[p].left \ {n}, !.bad = TRUE]
    OBVIOUS
  <2>2. row \in ProcRow /\ row.pc = "restore" /\ row.todo = at[p].todo /\ row.bad
    BY <1>1, <1>2, <2>1 DEF ProcRow
  <2>3. Goes(p, row)
    <3>1. Named(row)
      BY <2>2 DEF Named
    <3>2. at' = [at EXCEPT ![p] = row]
      BY <1>1, <1>10, <2>1
    <3>. QED  BY <2>2, <3>1, <3>2 DEF Goes
  <2>4. Works(row, file, disk, env)
    BY <1>2, <1>3, <2>2 DEF Works, Reconciling, InLock
  <2>. QED  BY <1>2, <1>4, <1>10, <2>3, <2>4, Inside
<1>. QED  BY <1>7, <1>8, <1>9, <1>10 DEF CompareAndSet

\* All variables have been tried: the records are removed, or kept for the next attempt.
LEMMA FinishRestoreStep ==
    ASSUME ActivationInv, NEW p \in Proc, FinishRestore(p)
    PROVE  ActivationInv' /\ Quiet
<1>1. at \in [Proc -> ProcRow] /\ Named(at[p]) /\ spent \in Bounds
  BY DEF ActivationInv, TypeOK
<1>2. /\ lock = p /\ at[p].pc = "restore" /\ at[p].left = {} /\ lock' = lock
      /\ UNCHANGED <<file, disk, env>>
  BY DEF FinishRestore, Finished, Locked
<1>3. file.journal \in Journal /\ (at[p].bad \/ \A m \in Name \ at[p].left : env[m] \notin Activation)
  BY <1>2, Holding DEF Works
<1>4. Spends
  BY <1>1, FaultSpends DEF FinishRestore
<1>5. CASE ~at[p].bad /\ at' = [at EXCEPT ![p].pc = "clearing", ![p].todo = Clear]
  <2>1. Clean(env)
    BY <1>2, <1>3, <1>5 DEF Clean
  <2>2. PICK t \in Seq(OpRow) : t = Clear /\ Clearing(file, env, t)
    BY <2>1, FileIsRecorded, ClearEnds
  <2>3. PICK row : row = [at[p] EXCEPT !.pc = "clearing", !.todo = t]
    OBVIOUS
  <2>4. row \in ProcRow /\ row.pc = "clearing" /\ row.todo = t
    BY <1>1, <2>3, Places DEF ProcRow
  <2>5. Goes(p, row)
    <3>1. Named(row)
      BY <2>4 DEF Named
    <3>2. at' = [at EXCEPT ![p] = row]
      BY <1>1, <1>5, <2>2, <2>3
    <3>. QED  BY <2>4, <3>1, <3>2 DEF Goes
  <2>6. Works(row, file, disk, env)
    BY <2>2, <2>4 DEF Works, Reconciling, InLock
  <2>. QED  BY <1>2, <1>4, <2>5, <2>6, Inside
<1>6. CASE at' = [at EXCEPT ![p].pc = "recording", ![p].todo = Transition("recovery_required")]
  <2>1. PICK row : Goes(p, row) /\ row.pc = "recording" /\ Transiting(file, row.todo)
    BY <1>3, <1>6, GoesTransit
  <2>2. Works(row, file, disk, env)
    BY <2>1 DEF Works, Reconciling, InLock
  <2>. QED  BY <1>2, <1>4, <2>1, <2>2, Inside
<1>7. CASE at' = [at EXCEPT ![p].pc = "recording", ![p].todo = <<>>]
  <2>1. PICK row : row = [at[p] EXCEPT !.pc = "recording", !.todo = <<>>]
    OBVIOUS
  <2>2. row \in ProcRow /\ row.pc = "recording" /\ row.todo = <<>>
    <3>1. <<>> \in Seq(OpRow)
      OBVIOUS
    <3>. QED  BY <1>1, <2>1, <3>1, Places DEF ProcRow
  <2>3. Goes(p, row)
    <3>1. Named(row)
      BY <2>2 DEF Named
    <3>2. at' = [at EXCEPT ![p] = row]
      BY <1>1, <1>7, <2>1
    <3>. QED  BY <2>2, <3>1, <3>2 DEF Goes
  <2>4. Works(row, file, disk, env)
    BY <2>2 DEF Works, Reconciling, InLock
  <2>. QED  BY <1>2, <1>4, <2>3, <2>4, Inside
<1>. QED  BY <1>5, <1>6, <1>7 DEF FinishRestore

-----------------------------------------------------------------------------
(* The surroundings. *)

\* Nothing changes but listeners, reservations and bounds.
LEMMA Bystander ==
    ASSUME ActivationInv, spent' \in Bounds, UNCHANGED <<file, disk, lock, env, at>>
    PROVE  ActivationInv'
  BY DEF ActivationInv, TypeOK

\* A process crashes.
LEMMA CrashStep ==
    ASSUME ActivationInv, NEW p \in Proc, Crash(p)
    PROVE  ActivationInv' /\ Quiet
<1>1. Spends
  BY FaultSpends DEF Crash, ActivationInv, TypeOK
<1>2. lock' = None \/ (lock' = lock /\ lock # p)
  BY DEF Crash
<1>. QED  BY <1>1, <1>2, Returns, Outside DEF Crash

\* A listener dies, or a reservation expires.
LEMMA OthersStep ==
    ASSUME ActivationInv,
           \/ \E a \in Activation : ListenerDies(a)
           \/ Expire /\ NoFault /\ UNCHANGED <<env, host, at>>
    PROVE  ActivationInv' /\ Quiet
<1>1. UNCHANGED <<file, disk, lock, env, at>> /\ (Fault \/ NoFault)
  BY DEF ListenerDies, Expire
<1>2. Spends
  BY <1>1, FaultSpends DEF ActivationInv, TypeOK
<1>. QED  BY <1>1, <1>2, Bystander DEF Quiet, Spends, Claims

\* Power is lost.
Lost == /\ env' = [n \in Name |-> IF env[n] \in Activation THEN None ELSE env[n]]
        /\ spent'.edits = spent.edits

\* The files are one of the states on disk; the session's values are gone.
LEMMA PowerLossStep ==
    ASSUME ActivationInv, PowerLoss
    PROVE  ActivationInv' /\ Lost
<1>1. env \in Prior /\ spent \in Bounds
  BY DEF ActivationInv, TypeOK
<1>2. Spends
  BY <1>1, FaultSpends DEF PowerLoss
<1>3. None \notin Activation
  BY ConstantsDiffer
<1>4. env' = [n \in Name |-> IF env[n] \in Activation THEN None ELSE env[n]]
  BY DEF PowerLoss
<1>5. env' \in Prior /\ \A n \in Name : env'[n] \notin Activation
  BY <1>1, <1>3, <1>4 DEF Prior, Value
<1>6. file' \in disk /\ disk' = {file'} /\ lock' = None /\ at' = [p \in Proc |-> Idle]
  BY DEF PowerLoss, LosePower
<1>7. Idle \in ProcRow /\ Named(Idle)
  <2>1. <<>> \in Seq(OpRow)
    OBVIOUS
  <2>2. Idle \in ProcRow
    BY <2>1 DEF Idle, ProcRow, PC, Command
  <2>. QED  BY <2>2 DEF Idle, Named
<1>8. at' \in [Proc -> ProcRow] /\ \A p \in Proc : Named(at'[p])
  BY <1>6, <1>7
<1>9. Recorded(file', disk', env')
  <2>1. file' \in FileRow /\ Bound(file')
    BY <1>6 DEF ActivationInv, Recorded
  <2>2. Kept(file', env')
    BY <1>5 DEF Kept
  <2>. QED  BY <1>6, <2>1, <2>2 DEF Recorded
<1>10. \A p \in Proc : lock' # p
  BY <1>6, ConstantsDiffer
<1>11. ActivationInv'
  BY <1>2, <1>5, <1>6, <1>8, <1>9, <1>10 DEF ActivationInv, TypeOK, Spends
<1>. QED  BY <1>2, <1>4, <1>11 DEF Lost, Spends

\* The user edits a variable.
Edited(n, v) == /\ env' = [env EXCEPT ![n] = v] /\ spent'.edits = spent.edits + 1 /\ file' = file

\* An edit takes a value of the activation away and adds none.
LEMMA UserEditsStep ==
    ASSUME ActivationInv, NEW n \in Name, NEW v \in Value, UserEdits(n, v)
    PROVE  ActivationInv' /\ Edited(n, v)
<1>1. env \in Prior /\ spent \in Bounds /\ at \in [Proc -> ProcRow] /\ lock \in Proc \cup {None}
  BY DEF ActivationInv, TypeOK
<1>2. spent' \in Bounds /\ spent'.edits = spent.edits + 1
  BY <1>1 DEF UserEdits, Bounds
<1>3. v \notin Activation
  BY ConstantsDiffer DEF Value
<1>4. env' \in Prior /\ env'[n] = v /\ \A m \in Name : m # n => env'[m] = env[m]
  BY <1>1 DEF UserEdits, Prior
<1>5. Fewer(env, env')
  BY <1>3, <1>4 DEF Fewer
<1>6. UNCHANGED <<file, disk, lock, at>>
  BY DEF UserEdits
<1>7. Recorded(file', disk', env')
  BY <1>5, <1>6, FewerKeeps DEF ActivationInv
<1>8. \A p \in Proc : lock' = p => Works(at'[p], file', disk', env')
  BY <1>5, <1>6, FewerKeeps DEF ActivationInv
<1>9. ActivationInv'
  BY <1>2, <1>4, <1>6, <1>7, <1>8 DEF ActivationInv, TypeOK
<1>. QED  BY <1>2, <1>6, <1>9 DEF Edited, UserEdits

\* A record that stops passing its checksum keeps what it says.
LEMMA JournalDamaged ==
    ASSUME NEW e, NEW f \in FileRow, Bound(f), Kept(f, e), f.journal \in Journal,
           NEW g, g = [f EXCEPT !.journal = Unreadable(f.journal)]
    PROVE  g \in FileRow /\ Bound(g) /\ Kept(g, e) /\ Claim(g) = Claim(f)
<1>1. /\ Unreadable(f.journal) # None /\ ~Readable(Unreadable(f.journal))
      /\ Content(Unreadable(f.journal)) = f.journal
      /\ f.journal # None /\ Content(f.journal) = f.journal
  BY GoodRecord, BadRecord
<1>2. Unreadable(f.journal) \in [was : Journal]
  BY DEF Unreadable
<1>3. g \in FileRow /\ g.journal = Unreadable(f.journal) /\ g.receipt = f.receipt
  BY <1>2 DEF FileRow
<1>4. Bound(g)
  BY <1>1, <1>3 DEF Bound
<1>5. Kept(g, e)
  BY <1>1, <1>3 DEF Kept
<1>6. Claim(g) = Claim(f)
  BY <1>1, <1>3 DEF Claim
<1>. QED  BY <1>3, <1>4, <1>5, <1>6

\* The same for the receipt.
LEMMA ReceiptDamaged ==
    ASSUME NEW e, NEW f \in FileRow, Bound(f), Kept(f, e), f.receipt \in Receipt,
           NEW g, g = [f EXCEPT !.receipt = Unreadable(f.receipt)]
    PROVE  g \in FileRow /\ Bound(g) /\ Kept(g, e) /\ Claim(g) = Claim(f)
<1>1. ~Readable(Unreadable(f.receipt)) /\ f.receipt # None
  BY GoodRecord, BadRecord
<1>2. Unreadable(f.receipt) \in [was : Receipt]
  BY DEF Unreadable
<1>3. g \in FileRow /\ g.receipt = Unreadable(f.receipt) /\ g.journal = f.journal
  BY <1>2 DEF FileRow
<1>4. Bound(g)
  BY <1>1, <1>3 DEF Bound
<1>5. Kept(g, e)
  BY <1>3, KeptBySame
<1>6. Claim(g) = Claim(f)
  BY <1>3, SameClaim
<1>. QED  BY <1>3, <1>4, <1>5, <1>6

\* Storage damage, in the states that may survive as in the one that is read.
LEMMA DamageStep ==
    ASSUME ActivationInv, NEW name \in {"journal", "receipt"}, Damage(name), Fault, UNCHANGED <<env, host, at>>
    PROVE  ActivationInv' /\ Quiet
<1>1. Spends /\ env' = env
  BY FaultSpends DEF ActivationInv, TypeOK
<1>. DEFINE hit(f) == [f EXCEPT ![name] = IF f[name] = file[name] THEN Unreadable(f[name]) ELSE f[name]]
<1>2. ASSUME NEW f \in FileRow, Bound(f), Kept(f, env)
      PROVE  hit(f) \in FileRow /\ Bound(hit(f)) /\ Kept(hit(f), env) /\ (f = file => Claim(hit(f)) = Claim(f))
  <2>1. CASE f[name] # file[name]
    <3>1. hit(f) = f
      BY <2>1 DEF FileRow
    <3>. QED  BY <1>2, <3>1
  <2>2. CASE name = "journal" /\ f.journal = file.journal
    <3>1. f.journal \in Journal
      BY <2>2, FileIsRecorded, FileCases DEF Damage
    <3>2. PICK g : g = hit(f)
      OBVIOUS
    <3>3. g = [f EXCEPT !.journal = Unreadable(f.journal)]
      BY <2>2, <3>2
    <3>. QED  BY <1>2, <3>1, <3>2, <3>3, JournalDamaged
  <2>3. CASE name = "receipt" /\ f.receipt = file.receipt
    <3>1. f.receipt \in Receipt
      BY <2>3, FileIsRecorded, FileCases DEF Damage
    <3>2. PICK g : g = hit(f)
      OBVIOUS
    <3>3. g = [f EXCEPT !.receipt = Unreadable(f.receipt)]
      BY <2>3, <3>2
    <3>. QED  BY <1>2, <3>1, <3>2, <3>3, ReceiptDamaged
  <2>. QED  BY <2>1, <2>2, <2>3
<1>3. file' = hit(file) /\ disk' = {hit(f) : f \in disk}
  BY DEF Damage
<1>. HIDE DEF hit
<1>4. Recorded(file', disk', env)
  BY <1>2, <1>3 DEF ActivationInv, Recorded
<1>5. Claim(file') = Claim(file)
  BY <1>2, <1>3, FileIsRecorded
<1>6. lock' = None /\ lock = None /\ at' = at
  BY DEF Damage
<1>7. \A p \in Proc : lock' # p
  BY <1>6, ConstantsDiffer
<1>8. TypeOK'
  BY <1>1, <1>6 DEF ActivationInv, TypeOK, Spends
<1>9. ActivationInv'
  BY <1>1, <1>4, <1>7, <1>8 DEF ActivationInv
<1>. QED  BY <1>1, <1>5, <1>9 DEF Quiet, Spends, Claims

-----------------------------------------------------------------------------
(* The theorems. *)

\* The processes start with nothing recorded and nothing out.
LEMMA InitOK == Init => ActivationInv
<1>. SUFFICES ASSUME Init PROVE ActivationInv
  OBVIOUS
<1>1. Idle \in ProcRow /\ Named(Idle)
  <2>1. <<>> \in Seq(OpRow)
    OBVIOUS
  <2>2. Idle \in ProcRow
    BY <2>1 DEF Idle, ProcRow, PC, Command
  <2>. QED  BY <2>2 DEF Idle, Named
<1>2. env \in [Name -> Value] /\ spent \in Bounds /\ lock = None /\ at = [p \in Proc |-> Idle]
  BY DEF Init, StateInit, Bounds
<1>3. \A n \in Name : env[n] \notin Activation
  BY <1>2, ConstantsDiffer DEF Value
<1>4. TypeOK
  BY <1>1, <1>2 DEF TypeOK, Prior
<1>5. file = [journal |-> None, receipt |-> None] /\ disk = {file}
  BY DEF Init, StateInit
<1>6. file \in FileRow /\ Bound(file) /\ Kept(file, env)
  BY <1>3, <1>5 DEF FileRow, Bound, Readable, Kept
<1>7. Recorded(file, disk, env)
  BY <1>5, <1>6 DEF Recorded
<1>8. \A p \in Proc : lock # p
  BY <1>2, ConstantsDiffer
<1>. QED  BY <1>4, <1>7, <1>8 DEF ActivationInv

\* Every step keeps the invariant and does one of five things to the user's variables.
LEMMA StepOK ==
    ASSUME ActivationInv, Next
    PROVE  /\ ActivationInv'
           /\ \/ Quiet \/ Published \/ Lost
              \/ \E n \in Name : Restored(n)
              \/ \E n \in Name, v \in Value : Edited(n, v)
<1>1. ASSUME NEW p \in Proc, Step(p) PROVE ActivationInv' /\ (Quiet \/ Published \/ \E n \in Name : Restored(n))
  <2>1. CASE \/ \E c \in {"on", "run", "off", "status"} : Begin(p, c)
             \/ MakeReservation(p) \/ GiveUp(p) \/ LoseActivation(p) \/ LoseRecovery(p)
             \/ Start(p) \/ RaceLost(p) \/ PrepareAmbiguous(p) \/ ChildEnds(p) \/ WrongActivation(p)
    <3>1. {"on", "run", "off", "status"} \subseteq Command
      BY DEF Command
    <3>2. ASSUME \E c \in {"on", "run", "off", "status"} : Begin(p, c) PROVE ActivationInv' /\ Quiet
      BY <3>1, <3>2, BeginStep
    <3>. QED  BY <2>1, <3>2, MakeReservationStep, GiveUpStep, LoseActivationStep, LoseRecoveryStep, StartStep,
                 RaceLostStep, PrepareAmbiguousStep, ChildEndsStep, WrongActivationStep
  <2>2. CASE \/ FinishReconcile(p) \/ FinishVerify(p) \/ FinishScope(p) \/ FailReconcile(p)
             \/ FinishActivate(p) \/ FinishUndo(p) \/ FailActivate(p) \/ FinishRecover(p) \/ FailRecover(p)
    BY <2>2, FinishReconcileStep, FinishVerifyStep, FinishScopeStep, FailReconcileStep, FinishActivateStep,
       FinishUndoStep, FailActivateStep, FinishRecoverStep, FailRecoverStep
  <2>3. CASE \/ EnterReconcile(p) \/ EnterActivate(p) \/ EnterRecover(p) \/ EnterReceiptOnly(p)
             \/ Perform(p) \/ FinishPrepare(p) \/ StopVerified(p) \/ FinishRestore(p)
    BY <2>3, EnterReconcileStep, EnterActivateStep, EnterRecoverStep, EnterReceiptOnlyStep,
       PerformStep, FinishPrepareStep, StopVerifiedStep, FinishRestoreStep
  <2>4. CASE Publish(p)
    BY <2>4, PublishStep
  <2>5. CASE \E n \in Name : CompareAndSet(p, n)
    BY <2>5, CompareAndSetStep
  <2>. QED  BY <1>1, <2>1, <2>2, <2>3, <2>4, <2>5 DEF Step
<1>2. ASSUME Surroundings
      PROVE  ActivationInv' /\ (Quiet \/ Lost \/ \E n \in Name, v \in Value : Edited(n, v))
  BY <1>2, CrashStep, OthersStep, PowerLossStep, UserEditsStep, DamageStep DEF Surroundings
<1>. QED  BY <1>1, <1>2 DEF Next

\* Nothing happens at all.
LEMMA Stutters ==
    ASSUME ActivationInv, UNCHANGED vars
    PROVE  ActivationInv'
<1>1. UNCHANGED <<file, disk, lock, env, at>> /\ spent' \in Bounds
  BY DEF vars, ActivationInv, TypeOK
<1>. QED  BY <1>1, Bystander

\* The invariant of the records and of the process that works on them: in every
\* state of the two files that may survive, the pair is bound and what is out has
\* its journal, and what the holder of the lock has left is the end of a plan.
THEOREM ActivationInvariant == Spec => []ActivationInv
<1>1. ActivationInv /\ [Next]_vars => ActivationInv'
  BY StepOK, Stutters
<1>. QED  BY <1>1, InitOK, PTL DEF Spec

\* A readable receipt never stands beside a journal it does not belong to, nor
\* alone, whatever crashes, fails, is damaged or loses power (Store.Transition).
THEOREM PairsAreBound == Spec => []PairIsBound
<1>1. ActivationInv => PairIsBound
  BY FileIsRecorded DEF PairIsBound, Bound
<1>. QED  BY <1>1, ActivationInvariant, PTL

\* A value that is out has its journal in every state of the disk that may
\* survive (PersistentStore.Activate: the journal before Environment.Publish).
THEOREM PublishedStaysDurable == Spec => []PublishedIsDurable
<1>1. ActivationInv => PublishedIsDurable
  BY DEF PublishedIsDurable, ActivationInv, Recorded, Kept
<1>. QED  BY <1>1, ActivationInvariant, PTL

\* The claim of a file.
LEMMA ClaimTyped ==
    ASSUME NEW f \in FileRow
    PROVE  Claim(f) \in Promise!Claim \cup {None}
<1>1. CASE f.journal = None
  BY <1>1 DEF Claim
<1>2. CASE f.journal # None
  <2>1. Content(f.journal) \in Journal
    BY <1>2, FileCases
  <2>. QED  BY <1>2, <2>1 DEF Claim, Promise!Claim, Promise!Value, Journal, Value
<1>. QED  BY <1>1, <1>2

\* The records, locks and processes implement what the user is promised: every
\* step of the service takes a step of ProxyPublication or none.
THEOREM ActivationImplementsPublication == Spec => ImplementsPublication
<1>1. Init => Promise!Init
  BY DEF Init, StateInit, Promise!Init, Promise!Value, Value
<1>2. ASSUME ActivationInv, [Next]_vars
      PROVE  [Promise!Next]_<<env, Claim(file), spent.edits>>
  <2>1. Claim(file) \in Promise!Claim \cup {None} /\ Claim(file') \in Promise!Claim \cup {None}
    <3>1. ActivationInv'
      BY <1>2, StepOK, Stutters
    <3>2. file \in FileRow /\ file' \in FileRow
      BY <1>2, <3>1 DEF ActivationInv, Recorded
    <3>. QED  BY <3>2, ClaimTyped
  <2>2. CASE UNCHANGED vars
    BY <2>2 DEF vars
  <2>3. CASE Quiet
    <3>1. CASE Claim(file') = Claim(file)
      BY <2>3, <3>1 DEF Quiet
    <3>2. CASE Clean(env)
      <4>1. CASE Claim(file') = None
        <5>1. Promise!Drop
          BY <2>3, <3>2, <4>1 DEF Promise!Drop, Promise!Carries, Quiet, Clean, Claim
        <5>. QED  BY <5>1 DEF Promise!Next
      <4>2. CASE Claim(file') \in Promise!Claim
        <5>1. Promise!Take
          BY <2>3, <3>2, <4>2 DEF Promise!Take, Promise!Carries, Quiet, Clean, Claim
        <5>. QED  BY <5>1 DEF Promise!Next
      <4>. QED  BY <2>1, <4>1, <4>2
    <3>. QED  BY <2>3, <3>1, <3>2 DEF Quiet, Claims
  <2>4. CASE Published
    <3>1. Promise!Publish
      BY <2>4 DEF Promise!Publish, Published, Claim
    <3>. QED  BY <3>1 DEF Promise!Next
  <2>5. CASE Lost
    <3>1. Promise!Logout
      BY <2>1, <2>5 DEF Promise!Logout, Lost, Claim
    <3>. QED  BY <3>1 DEF Promise!Next
  <2>6. ASSUME NEW n \in Name, Restored(n) PROVE Promise!Next
    <3>1. Promise!Restore(n)
      BY <2>6 DEF Promise!Restore, Promise!Carries, Restored, Claim
    <3>. QED  BY <3>1 DEF Promise!Next
  <2>7. ASSUME NEW n \in Name, NEW v \in Value, Edited(n, v) PROVE Promise!Next
    <3>1. Promise!Edit(n, v) /\ v \in Promise!Value
      BY <2>7 DEF Promise!Edit, Promise!Value, Value, Edited, Claim
    <3>. QED  BY <3>1 DEF Promise!Next
  <2>. QED  BY <1>2, <2>2, <2>3, <2>4, <2>5, <2>6, <2>7, StepOK
<1>3. Promise!Spec <=> Promise!Init /\ [][Promise!Next]_<<env, Claim(file), spent.edits>>
  BY DEF Promise!Spec, Claim
<1>. QED  BY <1>1, <1>2, <1>3, ActivationInvariant, PTL DEF Spec, ImplementsPublication

-----------------------------------------------------------------------------
(* The router: the inductive invariant. *)

Before == {"idle", "loop", "connect", "failed", "end"}
Trying == {"sent", "prepare", "prepared"}
Serving == {"begin", "stream", "read", "answer"}

\* The timer, the watcher, the context and the body at each place of the handler.
Resources ==
    /\ pc \in Before \cup Trying \cup Serving \cup {"panic"}
    /\ timer \in {"none", "armed", "firing", "fired", "stopped"} /\ watch \in {"on", "off"}
    /\ upstream \in [ctx : {"none", "live", "cancelled"}, body : {"none", "open", "closed"}]
    /\ pc \in Before => upstream.ctx # "live" /\ upstream.body # "open" /\ timer # "armed" /\ watch = "off"
    /\ pc \in Trying => /\ timer \in {"armed", "firing", "fired"}
                        /\ timer = "armed" => upstream.ctx = "live"
    /\ pc = "sent" => watch = "off" /\ upstream.body = "none"
    /\ pc \in {"prepare", "prepared"} /\ timer # "fired" => upstream.body = "open"
    /\ pc \in Serving => timer = "stopped" /\ watch = "off" /\ upstream = [ctx |-> "live", body |-> "open"]

\* Every route selected carries what the request needs.
Routed ==
    /\ req.needs \subseteq {"stop", "reasoning"}
    /\ routes \in Seq(Protocols) /\ \A i \in 1 .. Len(routes) : routePreservesRequest(routes[i], req.needs)
    /\ attempt \in 0 .. Len(routes) /\ (pc = "idle" => attempt = 0)
    /\ pc \in {"connect"} \cup Trying \cup Serving => attempt \in 1 .. Len(routes)
    /\ pc = "answer" => ~req.stream

\* What the client has been told, and what was reported of it.
Item == Call \cup Thought \cup {Message}
ClientRow == [bytes : BOOLEAN, added : SUBSET (Item \X Int), used : SUBSET (Item \X Int),
              ends : Seq({"complete", "failed", "refused"})]
EventRow == [type : {"request_started", "route_selected", "attempt_finished", "request_finished",
                     "request_cancelled"},
             attempt : Nat, outcome : {"success", "failed", "fallback", "cancelled"}]
Succeeded(event) == event.type = "request_finished" /\ event.outcome = "success"

Told ==
    /\ client \in ClientRow /\ events \in Seq(EventRow)
    /\ pc \notin {"stream", "read", "end"} => client = NewClient /\ enc = NewEncoder
    /\ pc # "end" => client.ends = <<>> /\ \A i \in 1 .. Len(events) : ~Succeeded(events[i])

\* The normaliser, the encoder and the items announced.
Hint == Index \cup {Unset}
NormRow == [started : BOOLEAN, terminal : BOOLEAN, known : SUBSET Call, called : SUBSET Call,
            textAt : Hint, callAt : [Call -> Hint], thoughtAt : [Thought -> Hint],
            thoughtDone : SUBSET Thought, lines : Nat]
EncRow == [callAt : [Call -> Int], nextCall : Nat, textStarted : BOOLEAN, textAt : Int,
           nextIndex : Nat, usage : BOOLEAN, finish : BOOLEAN]

\* An event names a call if it is about one; a line yields at most two.
Kinds == {"start", "text", "call", "args", "usage", "end", "error"}
EventFits(event) == event.k \in Kinds /\ (event.k \in {"call", "args"} => event.id \in Call)
EventsFit(s) == Len(s) \in 0 .. 2 /\ \A i \in 1 .. Len(s) : EventFits(s[i])

\* An item announced claims an output index.
ClaimsIndex(i, e, n) ==
    \/ i \in Thought /\ n.thoughtAt[i] # Unset
    \/ i \in Call /\ e.callAt[i] # Unset
    \/ i = Message /\ e.textStarted
Announced(c, e, n) == \A x \in c.added : ClaimsIndex(x[1], e, n)

Translated ==
    /\ norm \in NormRow /\ enc \in EncRow /\ EventsFit(buffered)
    /\ req.source = "responses" => Announced(client, enc, norm)

RouterInv == Resources /\ Routed /\ Told /\ Translated /\ CompleteIsComplete

\* A step of a stream ends it or goes on.
Over == pc' = "end" /\ upstream' = Released
GoesOn == pc' = "stream" /\ upstream' = upstream

LEMMA StreamEnding == ASSUME NEW err, StreamEnds(err) PROVE Over
BY DEF StreamEnds, Over

LEMMA Delivers == ASSUME NEW e, NEW c, NEW evs, Deliver(e, c, evs) PROVE Over \/ GoesOn
<1>1. PICK ok \in BOOLEAN :
        LET done == consumeAll(req.source, e, c, evs, ok)
        IN  IF done.err = "none" THEN Sent(done) ELSE StreamEnds(done.err)
  BY DEF Deliver
<1> QED BY <1>1, StreamEnding DEF Sent, GoesOn

LEMMA Shows == ASSUME NEW e, NEW thoughts, Show(e, thoughts) PROVE Over \/ GoesOn
<1>1. PICK ok \in BOOLEAN :
        LET done == emitReasoning(req.source, e, client, thoughts, ok)
        IN  IF done.err = "none" THEN Sent(done) ELSE StreamEnds(done.err)
  BY DEF Show
<1> QED BY <1>1, StreamEnding DEF Sent, GoesOn

LEMMA Dones == ASSUME NEW n, StreamDone(n) PROVE Over
<1>1. \E err : StreamEnds(err) BY DEF StreamDone
<1> QED BY <1>1, StreamEnding

LEMMA StreamStarts == StreamStart => Over \/ GoesOn
<1> SUFFICES ASSUME StreamStart PROVE Over \/ GoesOn OBVIOUS
<1>1. StreamEnds("plain") \/ Deliver(applyIndexHints(enc, norm), [client EXCEPT !.bytes = TRUE], buffered)
  BY DEF StreamStart
<1> QED BY <1>1, StreamEnding, Delivers

\* What StreamRead does with one line read.
Handled(read) ==
    \/ read.err = "done" /\ StreamDone(read.n) /\ UNCHANGED enc
    \/ /\ read.err \in {"plain", "broken"} /\ FailClient(client) /\ UNCHANGED <<enc, faults>>
       /\ \E err \in {"plain", "context"} : StreamEnds(err)
    \/ read.thoughts # <<>> /\ Show(applyIndexHints(enc, read.n), read.thoughts)
    \/ Deliver(applyIndexHints(enc, read.n), client, read.events)

LEMMA Handling ==
    ASSUME StreamRead
    PROVE  \E line \in Line(routes[attempt]) :
              LET read == nextStreamEvents(routes[attempt], norm, line) IN norm' = read.n /\ Handled(read)
<1>1. PICK line \in Line(routes[attempt]) :
        LET read == nextStreamEvents(routes[attempt], norm, line)
        IN  /\ norm' = read.n
            /\ IF read.err = "done" THEN StreamDone(read.n) /\ UNCHANGED enc
               ELSE IF read.err = "plain"
               THEN FailClient(client) /\ StreamEnds("plain") /\ UNCHANGED <<enc, faults>>
               ELSE IF read.err = "broken"
               THEN /\ FailClient(client) /\ UNCHANGED <<enc, faults>>
                    /\ \E err \in ReadError : StreamEnds(IF err = "connection" THEN "plain" ELSE "context")
               ELSE IF read.thoughts # <<>>
               THEN Show(applyIndexHints(enc, read.n), read.thoughts)
               ELSE Deliver(applyIndexHints(enc, read.n), client, read.events)
  BY DEF StreamRead
<1> DEFINE read == nextStreamEvents(routes[attempt], norm, line)
<1> HIDE DEF read
<1>2. norm' = read.n BY <1>1 DEF read
<1>3. CASE read.err = "done"
  <2>1. StreamDone(read.n) /\ UNCHANGED enc BY <1>1, <1>3 DEF read
  <2> QED BY <1>2, <1>3, <2>1 DEF Handled, read
<1>4. CASE read.err = "plain"
  <2>1. FailClient(client) /\ StreamEnds("plain") /\ UNCHANGED <<enc, faults>> BY <1>1, <1>4 DEF read
  <2> QED BY <1>2, <1>4, <2>1 DEF Handled, read
<1>5. CASE read.err = "broken"
  <2>1. FailClient(client) /\ UNCHANGED <<enc, faults>> BY <1>1, <1>5 DEF read
  <2>2. \E err \in ReadError : StreamEnds(IF err = "connection" THEN "plain" ELSE "context") BY <1>1, <1>5 DEF read
  <2>3. StreamEnds("plain") \/ StreamEnds("context") BY <2>2
  <2> QED BY <1>2, <1>5, <2>1, <2>3 DEF Handled, read
<1>6. CASE read.err \notin {"done", "plain", "broken"}
  <2>1. IF read.thoughts # <<>> THEN Show(applyIndexHints(enc, read.n), read.thoughts)
        ELSE Deliver(applyIndexHints(enc, read.n), client, read.events) BY <1>1, <1>6 DEF read
  <2> QED BY <1>2, <1>6, <2>1 DEF Handled, read
<1> QED BY <1>3, <1>4, <1>5, <1>6

LEMMA StreamReads == StreamRead => Over \/ GoesOn
<1> SUFFICES ASSUME StreamRead PROVE Over \/ GoesOn OBVIOUS
<1>1. PICK read : Handled(read) BY Handling
<1> QED BY <1>1, StreamEnding, Dones, Shows, Delivers DEF Handled

\* The attempts keep their timer, watcher, context and body in order.
LEMMA ResourcesKept == Resources /\ RouterNext => Resources'
<1> SUFFICES ASSUME Resources, RouterNext PROVE Resources' OBVIOUS
<1> USE DEF Resources, Before, Trying, Serving
<1>1. CASE StartListener \/ ShutdownListener \/ Stopped \/ ContextEnds
  BY <1>1 DEF StartListener, ShutdownListener, Stopped, ContextEnds
<1>2. CASE Admit
  <2>1. pc = "idle" /\ pc' \in {"end", "loop"} /\ UNCHANGED <<timer, watch, upstream>> BY <1>2 DEF Admit
  <2> QED BY <2>1
<1>3. CASE Refuse BY <1>3 DEF Refuse
<1>4. CASE Select
  <2>1. pc = "loop" /\ pc' \in {"failed", "connect"} /\ UNCHANGED <<timer, watch, upstream>> BY <1>4 DEF Select
  <2> QED BY <2>1
<1>5. CASE Exhausted BY <1>5 DEF Exhausted
<1>6. CASE ResolveFails BY <1>6 DEF ResolveFails, Again
<1>7. CASE CredentialFails \/ EncodeFails BY <1>7 DEF CredentialFails, EncodeFails
<1>8. CASE Connect BY <1>8 DEF Connect
<1>9. CASE TimerFires BY <1>9 DEF TimerFires
<1>10. CASE WatchCloses BY <1>10 DEF WatchCloses
<1>11. CASE DoFails
  <2>1. pc = "sent" /\ pc' \in {"failed", "loop"} BY <1>11 DEF DoFails, Again
  <2>2. timer # "firing" /\ timer' = (IF timer = "armed" THEN "stopped" ELSE timer)
    BY <1>11 DEF DoFails, timerDidFire
  <2>3. upstream' = [upstream EXCEPT !.ctx = "cancelled"] /\ watch' = watch BY <1>11 DEF DoFails
  <2> QED BY <2>1, <2>2, <2>3
<1>12. CASE Rejected BY <1>12 DEF Rejected, Again, Released
<1>13. CASE Answered
  <2>1. pc = "sent" /\ timer # "firing" /\ timer' = (IF timer = "armed" THEN "stopped" ELSE timer) /\ watch' = watch
    BY <1>13 DEF Answered, timerDidFire
  <2>2. CASE timer = "fired"
    <3>1. pc' = "loop" /\ upstream' = Released BY <1>13, <2>2 DEF Answered, Again, TimedOut
    <3> QED BY <2>1, <2>2, <3>1 DEF Released
  <2>3. CASE timer # "fired"
    <3>1. pc' = "answer" /\ upstream' = [upstream EXCEPT !.body = "open"] BY <1>13, <2>3 DEF Answered, TimedOut
    <3> QED BY <2>1, <2>3, <3>1
  <2> QED BY <2>2, <2>3
<1>14. CASE StreamOpened BY <1>14 DEF StreamOpened
<1>15. CASE FirstRead
  <2>1. pc = "prepare" /\ UNCHANGED <<timer, watch, upstream>> BY <1>15 DEF FirstRead
  <2>2. pc' \in {"prepare", "panic", "prepared"} BY <1>15 DEF FirstRead, prepareStream
  <2> QED BY <2>1, <2>2
<1>16. CASE Commit
  <2>1. pc = "prepared" /\ timer # "firing" /\ timer' = (IF timer = "armed" THEN "stopped" ELSE timer) /\ watch' = "off"
    BY <1>16 DEF Commit, timerDidFire
  <2>2. \/ pc' = "loop" /\ upstream' = Released
        \/ timer # "fired" /\ pc' = "begin" /\ upstream' = upstream
    BY <1>16 DEF Commit, Again, TimedOut
  <2> QED BY <2>1, <2>2 DEF Released
<1>17. CASE StreamStart \/ StreamRead
  <2>1. UNCHANGED <<timer, watch>> /\ pc \in {"begin", "read"} BY <1>17 DEF StreamStart, StreamRead
  <2>2. Over \/ GoesOn BY <1>17, StreamStarts, StreamReads
  <2> QED BY <2>1, <2>2 DEF Over, GoesOn, Released
<1>18. CASE StreamLoop BY <1>18 DEF StreamLoop, StreamEnds, Released
<1>19. CASE Answer BY <1>19 DEF Answer, Released
<1>20. CASE Failed BY <1>20 DEF Failed
<1>21. CASE Rest BY <1>21 DEF Rest, routerVars
<1> QED BY <1>1, <1>2, <1>3, <1>4, <1>5, <1>6, <1>7, <1>8, <1>9, <1>10, <1>11, <1>12, <1>13, <1>14, <1>15,
           <1>16, <1>17, <1>18, <1>19, <1>20, <1>21 DEF RouterNext

\* Of one or two candidates only routes that preserve the request are selected.
LEMMA Selection ==
    ASSUME NEW k \in 1 .. 2, NEW candidates \in [1 .. k -> Protocols], NEW needs
    PROVE  LET s == selectRoutesFor(candidates, needs)
           IN  s \in Seq(Protocols) /\ \A i \in 1 .. Len(s) : routePreservesRequest(s[i], needs)
<1> DEFINE P(x) == routePreservesRequest(x, needs)
           kept(i) == IF i <= Len(candidates) /\ P(candidates[i]) THEN <<candidates[i]>> ELSE <<>>
<1>0. Len(candidates) = k OBVIOUS
<1>1. ASSUME NEW i \in 1 .. 2
      PROVE  kept(i) \in Seq(Protocols) /\ \A j \in 1 .. Len(kept(i)) : P(kept(i)[j])
  <2> HIDE DEF P
  <2>1. CASE i <= Len(candidates) /\ P(candidates[i])
    <3>1. candidates[i] \in Protocols BY <1>0, <2>1
    <3>2. kept(i) = <<candidates[i]>> BY <2>1
    <3> QED BY <3>1, <3>2, <2>1
  <2>2. CASE ~(i <= Len(candidates) /\ P(candidates[i]))
    <3>1. kept(i) = <<>> BY <2>2
    <3> QED BY <3>1
  <2> QED BY <2>1, <2>2
<1>2. selectRoutesFor(candidates, needs) = kept(1) \o kept(2) BY DEF selectRoutesFor
<1> HIDE DEF kept, P
<1>3. /\ kept(1) \o kept(2) \in Seq(Protocols)
      /\ \A i \in 1 .. Len(kept(1) \o kept(2)) : P((kept(1) \o kept(2))[i])
  BY <1>1
<1> QED BY <1>2, <1>3 DEF P

LEMMA RoutedKept == Routed /\ Resources /\ RouterNext => Routed'
<1> SUFFICES ASSUME Routed, Resources, RouterNext PROVE Routed' OBVIOUS
<1>1. CASE Admit
  <2>1. PICK request \in ChatRequest \cup ResponsesRequest \cup MessagesRequest,
             candidates \in UNION {[1..k -> Protocols] : k \in 1..2}, elapsed \in BOOLEAN :
            /\ req' = request /\ routes' = selectRoutesFor(candidates, request.needs)
            /\ pc' = IF elapsed THEN "end" ELSE "loop"
    BY <1>1 DEF Admit
  <2>2. request.needs \subseteq {"stop", "reasoning"}
    BY DEF ChatRequest, ResponsesRequest, MessagesRequest, parseStop, inspectResponsesMetadata
  <2>3. \E k \in 1..2 : candidates \in [1..k -> Protocols] OBVIOUS
  <2>4. routes' \in Seq(Protocols) /\ \A i \in 1 .. Len(routes') : routePreservesRequest(routes'[i], req'.needs)
    BY <2>1, <2>3, Selection
  <2>5. attempt' = attempt /\ pc = "idle" /\ pc' \in {"end", "loop"} BY <1>1, <2>1 DEF Admit
  <2>6. attempt' \in 0 .. Len(routes') BY <2>4, <2>5 DEF Routed
  <2> QED BY <2>1, <2>2, <2>4, <2>5, <2>6 DEF Routed, Trying, Serving
<1>2. CASE Select
  <2>1. /\ pc = "loop" /\ pc' \in {"failed", "connect"} /\ attempt < Len(routes) /\ attempt' = attempt + 1
        /\ UNCHANGED <<req, routes>>
    BY <1>2 DEF Select
  <2> QED BY <2>1 DEF Routed, Trying, Serving
<1>3. CASE UNCHANGED <<req, routes, attempt>> /\ pc # "idle" /\ pc' # "idle"
           /\ (pc' \in {"connect"} \cup Trying \cup Serving => pc \in {"connect"} \cup Trying \cup Serving)
           /\ (pc' = "answer" => pc = "answer" \/ ~req.stream)
  BY <1>3 DEF Routed
<1>4. CASE UNCHANGED <<req, routes, attempt, pc>> BY <1>4 DEF Routed
<1>5. CASE Refuse BY <1>5 DEF Refuse, Routed, Trying, Serving
<1>6. CASE StartListener \/ ShutdownListener \/ Stopped \/ ContextEnds \/ TimerFires \/ WatchCloses \/ Rest
  <2>1. UNCHANGED <<req, routes, attempt, pc>>
    BY <1>6 DEF StartListener, ShutdownListener, Stopped, ContextEnds, TimerFires, WatchCloses, Rest, routerVars
  <2> QED BY <2>1, <1>4
<1>7. CASE Exhausted \/ ResolveFails \/ CredentialFails \/ EncodeFails \/ DoFails \/ Rejected \/ Answer \/ Failed
  <2>1. pc' \in {"failed", "loop", "end"} /\ pc # "idle" /\ UNCHANGED <<req, routes, attempt>>
    BY <1>7 DEF Exhausted, ResolveFails, CredentialFails, EncodeFails, DoFails, Rejected, Answer, Failed, Again
  <2> QED BY <2>1, <1>3 DEF Trying, Serving
<1>8. CASE Connect \/ StreamOpened
  <2>1. pc' \in {"sent", "prepare"} /\ pc \in {"connect", "sent"} /\ UNCHANGED <<req, routes, attempt>>
    BY <1>8 DEF Connect, StreamOpened
  <2> QED BY <2>1, <1>3 DEF Trying, Serving
<1>9. CASE Answered
  <2>1. pc' \in {"loop", "answer"} /\ pc = "sent" /\ ~req.stream /\ UNCHANGED <<req, routes, attempt>>
    BY <1>9 DEF Answered, Again
  <2> QED BY <2>1, <1>3 DEF Trying, Serving
<1>10. CASE FirstRead
  <2>1. pc = "prepare" /\ UNCHANGED <<req, routes, attempt>> BY <1>10 DEF FirstRead
  <2>2. pc' \in {"prepare", "panic", "prepared"} BY <1>10 DEF FirstRead, prepareStream
  <2> QED BY <2>1, <2>2, <1>3 DEF Trying, Serving
<1>11. CASE Commit
  <2>1. pc = "prepared" /\ pc' \in {"loop", "begin"} /\ UNCHANGED <<req, routes, attempt>> BY <1>11 DEF Commit, Again
  <2> QED BY <2>1, <1>3 DEF Trying, Serving
<1>12. CASE StreamStart \/ StreamRead
  <2>1. pc \in {"begin", "read"} /\ UNCHANGED <<req, routes, attempt>> BY <1>12 DEF StreamStart, StreamRead
  <2>2. pc' \in {"end", "stream"} BY <1>12, StreamStarts, StreamReads DEF Over, GoesOn
  <2> QED BY <2>1, <2>2, <1>3 DEF Trying, Serving
<1>13. CASE StreamLoop
  <2>1. pc = "stream" /\ pc' \in {"read", "end"} /\ UNCHANGED <<req, routes, attempt>>
    BY <1>13 DEF StreamLoop, StreamEnds
  <2> QED BY <2>1, <1>3 DEF Trying, Serving
<1> QED BY <1>1, <1>2, <1>5, <1>6, <1>7, <1>8, <1>9, <1>10, <1>11, <1>12, <1>13 DEF RouterNext

-----------------------------------------------------------------------------
(* The normaliser. *)

\* What reading one line gives: the hints stay, and a line about reasoning
\* leaves the index of its item.
ReadFits(r, n) ==
    /\ r.n \in NormRow /\ EventsFit(r.events)
    /\ \A t \in Thought : n.thoughtAt[t] # Unset => r.n.thoughtAt[t] # Unset
    /\ r.thoughts # <<>> =>
          /\ r.thoughts[1].id \in Thought /\ r.thoughts[1].ix \in Index
          /\ r.n.thoughtAt[r.thoughts[1].id] # Unset

LEMMA NoHint == \A i \in Index : i # Unset /\ i \in Hint /\ i \in Nat
BY StreamAssumption DEF Index, Unset, Hint

LEMMA NoEvents == EventsFit(<<>>)
BY DEF EventsFit

LEMMA OneEvent == ASSUME NEW event, EventFits(event) PROVE EventsFit(<<event>>)
<1>1. Len(<<event>>) = 1 /\ <<event>>[1] = event OBVIOUS
<1> QED BY <1>1 DEF EventsFit

LEMMA TwoEvents == ASSUME NEW a, NEW b, EventFits(a), EventFits(b) PROVE EventsFit(<<a, b>>)
<1>1. Len(<<a, b>>) = 2 /\ <<a, b>>[1] = a /\ <<a, b>>[2] = b OBVIOUS
<1>2. \A i \in 1 .. 2 : i = 1 \/ i = 2 OBVIOUS
<1> QED BY <1>1, <1>2 DEF EventsFit

LEMMA NormalizedFits ==
    ASSUME NEW n \in NormRow, NEW m \in NormRow, NEW s, EventsFit(s), m.thoughtAt = n.thoughtAt
    PROVE  ReadFits(Normalized(m, s), n)
<1> DEFINE r == Normalized(m, s)
<1>1. r.n = m /\ r.events = s /\ r.thoughts = <<>> BY DEF Normalized
<1> HIDE DEF r
<1> QED BY <1>1 DEF ReadFits, r

LEMMA StartedFits == ASSUME NEW n \in NormRow PROVE ReadFits(Started(n), n)
<1>1. [n EXCEPT !.started = TRUE] \in NormRow /\ [n EXCEPT !.started = TRUE].thoughtAt = n.thoughtAt BY DEF NormRow
<1>2. EventFits([k |-> "start"]) BY DEF EventFits, Kinds
<1>3. EventsFit(IF n.started THEN <<>> ELSE <<[k |-> "start"]>>)
  <2>1. CASE n.started BY <2>1, NoEvents
  <2>2. CASE ~n.started BY <2>2, <1>2, OneEvent
  <2> QED BY <2>1, <2>2
<1> QED BY <1>1, <1>3, NormalizedFits DEF Started

\* The lines of each protocol that normalize sees.
LEMMA ChatLine ==
    ASSUME NEW line \in Line("chat")
    PROVE  /\ line.k \in {"start", "bad", "done", "eof", "broken", "error", "text", "end", "usage", "call", "args"}
           /\ line.k \in {"call", "args"} => line.id \in Call
           /\ line.k = "call" => line.named \in BOOLEAN
<1>1. \/ line \in [k : {"start", "bad", "done", "eof", "broken"}] \/ line \in [k : {"error"}, again : BOOLEAN]
      \/ line \in [k : {"text", "end"}] \/ line \in [k : {"usage"}, over : BOOLEAN]
      \/ line \in [k : {"call"}, id : Call, named : BOOLEAN] \/ line \in [k : {"args"}, id : Call]
  BY DEF Line, Common
<1> QED BY <1>1

LEMMA ResponsesLine ==
    ASSUME NEW line \in Line("responses")
    PROVE  /\ line.k \in {"start", "bad", "done", "eof", "broken", "error", "text", "call", "args", "thought",
                          "thoughtDone", "completed"}
           /\ line.k \in {"call", "args"} => line.id \in Call
           /\ line.k \in {"thought", "thoughtDone"} => line.id \in Thought
           /\ line.k \in {"text", "call", "thought", "thoughtDone"} => line.ix \in Index
<1>1. \/ line \in [k : {"start", "bad", "done", "eof", "broken"}] \/ line \in [k : {"error"}, again : BOOLEAN]
      \/ line \in [k : {"text"}, ix : Index] \/ line \in [k : {"args"}, id : Call]
      \/ line \in [k : {"call"}, id : Call, ix : Index]
      \/ line \in [k : {"thought", "thoughtDone"}, id : Thought, ix : Index]
      \/ line \in [k : {"completed"}, over : BOOLEAN]
  BY DEF Line, Common
<1> QED BY <1>1

LEMMA ChatFits ==
    ASSUME NEW n \in NormRow, NEW line \in Line("chat"), line.k \notin {"bad", "done", "eof", "broken"}
    PROVE  ReadFits(normalizeChat(n, line), n)
<1>0. /\ line.k \in {"start", "error", "text", "end", "usage", "call", "args"}
      /\ line.k \in {"call", "args"} => line.id \in Call
      /\ line.k = "call" => line.named \in BOOLEAN
  BY ChatLine
<1>1. CASE line.k = "start"
  <2>1. normalizeChat(n, line) = Started(n) BY <1>1 DEF normalizeChat
  <2> QED BY <2>1, StartedFits
<1>2. CASE line.k = "call"
  <2> DEFINE begins == line.named /\ line.id \notin n.called
             m == [n EXCEPT !.known = @ \cup {line.id}, !.called = IF begins THEN @ \cup {line.id} ELSE @]
             s == IF begins THEN <<[k |-> "call", id |-> line.id]>> ELSE <<>>
  <2>1. normalizeChat(n, line) = Normalized(m, s) BY <1>2 DEF normalizeChat
  <2>2. m \in NormRow /\ m.thoughtAt = n.thoughtAt BY <1>0, <1>2 DEF NormRow
  <2>3. EventFits([k |-> "call", id |-> line.id]) BY <1>0, <1>2 DEF EventFits, Kinds
  <2>4. EventsFit(s) BY <2>3, NoEvents, OneEvent
  <2> QED BY <2>1, <2>2, <2>4, NormalizedFits
<1>3. CASE line.k = "args"
  <2> DEFINE s == IF line.id \in n.known THEN <<line>> ELSE <<>>
  <2>1. normalizeChat(n, line) = Normalized(n, s) BY <1>3 DEF normalizeChat
  <2>2. EventFits(line) BY <1>0, <1>3 DEF EventFits, Kinds
  <2>3. EventsFit(s) BY <2>2, NoEvents, OneEvent
  <2> QED BY <2>1, <2>3, NormalizedFits
<1>4. CASE line.k = "end"
  <2> DEFINE m == [n EXCEPT !.terminal = TRUE]
  <2>1. normalizeChat(n, line) = Normalized(m, <<line>>) BY <1>4 DEF normalizeChat
  <2>2. m \in NormRow /\ m.thoughtAt = n.thoughtAt BY DEF NormRow
  <2>3. EventsFit(<<line>>) BY <1>4, OneEvent DEF EventFits, Kinds
  <2> QED BY <2>1, <2>2, <2>3, NormalizedFits
<1>5. CASE line.k \in {"text", "usage", "error"}
  <2>1. normalizeChat(n, line) = Normalized(n, <<line>>) BY <1>5 DEF normalizeChat
  <2>2. EventsFit(<<line>>) BY <1>5, OneEvent DEF EventFits, Kinds
  <2> QED BY <2>1, <2>2, NormalizedFits
<1> QED BY <1>0, <1>1, <1>2, <1>3, <1>4, <1>5

LEMMA ResponsesFits ==
    ASSUME NEW n \in NormRow, NEW line \in Line("responses"), line.k \notin {"bad", "done", "eof", "broken"}
    PROVE  ReadFits(normalizeResponses(n, line), n)
<1>0. /\ line.k \in {"start", "error", "text", "call", "args", "thought", "thoughtDone", "completed"}
      /\ line.k \in {"call", "args"} => line.id \in Call
      /\ line.k \in {"thought", "thoughtDone"} => line.id \in Thought
      /\ line.k \in {"text", "call", "thought", "thoughtDone"} => line.ix \in Index
  BY ResponsesLine
<1>1. CASE line.k = "start"
  <2>1. normalizeResponses(n, line) = Started(n) BY <1>1 DEF normalizeResponses
  <2> QED BY <2>1, StartedFits
<1>2. CASE line.k = "text"
  <2> DEFINE m == [n EXCEPT !.textAt = line.ix]
  <2>1. normalizeResponses(n, line) = Normalized(m, <<[k |-> "text"]>>) BY <1>2 DEF normalizeResponses
  <2>2. m \in NormRow /\ m.thoughtAt = n.thoughtAt BY <1>0, <1>2, NoHint DEF NormRow
  <2>3. EventsFit(<<[k |-> "text"]>>) BY OneEvent DEF EventFits, Kinds
  <2> QED BY <2>1, <2>2, <2>3, NormalizedFits
<1>3. CASE line.k = "call"
  <2> DEFINE m == [n EXCEPT !.callAt[line.id] = line.ix]
  <2>1. normalizeResponses(n, line) = Normalized(m, <<[k |-> "call", id |-> line.id]>>) BY <1>3 DEF normalizeResponses
  <2>2. m \in NormRow /\ m.thoughtAt = n.thoughtAt BY <1>0, <1>3, NoHint DEF NormRow
  <2>3. EventsFit(<<[k |-> "call", id |-> line.id]>>) BY <1>0, <1>3, OneEvent DEF EventFits, Kinds
  <2> QED BY <2>1, <2>2, <2>3, NormalizedFits
<1>4. CASE line.k \in {"thought", "thoughtDone"}
  <2> DEFINE m == [n EXCEPT !.thoughtAt[line.id] = line.ix,
                            !.thoughtDone = IF line.k = "thoughtDone" THEN @ \cup {line.id} ELSE @]
             r == [Normalized(m, <<>>) EXCEPT !.thoughts = <<line>>]
  <2>1. normalizeResponses(n, line) = r BY <1>4 DEF normalizeResponses
  <2>2. r.n = m /\ r.events = <<>> /\ r.thoughts = <<line>> BY DEF Normalized
  <2>3. m \in NormRow BY <1>0, <1>4, NoHint DEF NormRow
  <2>4. \A t \in Thought : m.thoughtAt[t] = IF t = line.id THEN line.ix ELSE n.thoughtAt[t] BY <1>0, <1>4 DEF NormRow
  <2>5. <<line>>[1] = line OBVIOUS
  <2> HIDE DEF r, m
  <2>6. EventsFit(r.events) BY <2>2, NoEvents
  <2>7. \A t \in Thought : n.thoughtAt[t] # Unset => r.n.thoughtAt[t] # Unset BY <1>0, <1>4, <2>2, <2>4, NoHint
  <2>8. /\ r.thoughts[1].id \in Thought /\ r.thoughts[1].ix \in Index
        /\ r.n.thoughtAt[r.thoughts[1].id] # Unset
    BY <1>0, <1>4, <2>2, <2>4, <2>5, NoHint
  <2> QED BY <2>1, <2>2, <2>3, <2>6, <2>7, <2>8 DEF ReadFits
<1>5. CASE line.k = "completed"
  <2> DEFINE m == [n EXCEPT !.terminal = TRUE]
             a == [k |-> "usage", over |-> line.over]
             b == [k |-> "end"]
  <2>1. normalizeResponses(n, line) = Normalized(m, <<a, b>>) BY <1>5 DEF normalizeResponses
  <2>2. m \in NormRow /\ m.thoughtAt = n.thoughtAt BY DEF NormRow
  <2>3. EventFits(a) /\ EventFits(b) BY DEF EventFits, Kinds
  <2>4. EventsFit(<<a, b>>) BY <2>3, TwoEvents
  <2> QED BY <2>1, <2>2, <2>4, NormalizedFits
<1>6. CASE line.k \in {"args", "error"}
  <2>1. normalizeResponses(n, line) = Normalized(n, <<line>>) BY <1>6 DEF normalizeResponses
  <2>2. EventsFit(<<line>>) BY <1>0, <1>6, OneEvent DEF EventFits, Kinds
  <2> QED BY <2>1, <2>2, NormalizedFits
<1> QED BY <1>0, <1>1, <1>2, <1>3, <1>4, <1>5, <1>6

\* One line read of the stream of either protocol.
LEMMA LineFits ==
    ASSUME NEW n \in NormRow, NEW protocol \in Protocols, NEW line \in Line(protocol)
    PROVE  ReadFits(nextStreamEvents(protocol, n, line), n)
<1> DEFINE m == [n EXCEPT !.lines = @ + 1]
           failed(e) == [Normalized(m, <<>>) EXCEPT !.err = e]
<1>1. m \in NormRow /\ m.thoughtAt = n.thoughtAt BY DEF NormRow
<1>2. ASSUME NEW e PROVE ReadFits(failed(e), n)
  <2>1. failed(e).n = m /\ failed(e).events = <<>> /\ failed(e).thoughts = <<>> BY DEF Normalized
  <2> HIDE DEF failed, m
  <2> QED BY <1>1, <2>1, NoEvents DEF ReadFits
<1>3. CASE line.k = "broken"
  <2>1. nextStreamEvents(protocol, n, line) = failed("broken") BY <1>3 DEF nextStreamEvents
  <2> QED BY <2>1, <1>2
<1>4. CASE line.k = "eof"
  <2>1. \E e : nextStreamEvents(protocol, n, line) = failed(e) BY <1>4 DEF nextStreamEvents
  <2> QED BY <2>1, <1>2
<1>5. CASE line.k \notin {"broken", "eof"} /\ (n.lines >= MaxLines \/ line.k \in {"bad", "done"})
  <2>1. \E e \in {"plain", "done"} : nextStreamEvents(protocol, n, line) = failed(e) BY <1>5 DEF nextStreamEvents
  <2> QED BY <2>1, <1>2
<1>6. CASE line.k \notin {"broken", "eof", "bad", "done"} /\ ~(n.lines >= MaxLines)
  <2>1. nextStreamEvents(protocol, n, line) = normalize(protocol, m, line) BY <1>6 DEF nextStreamEvents
  <2> HIDE DEF m
  <2>2. CASE protocol = "chat"
    <3>1. normalize(protocol, m, line) = normalizeChat(m, line) BY <2>2 DEF normalize
    <3>2. ReadFits(normalizeChat(m, line), m) BY <1>1, <1>6, <2>2, ChatFits
    <3> QED BY <1>1, <2>1, <3>1, <3>2 DEF ReadFits
  <2>3. CASE protocol = "responses"
    <3>1. normalize(protocol, m, line) = normalizeResponses(m, line) BY <2>3 DEF normalize
    <3>2. ReadFits(normalizeResponses(m, line), m) BY <1>1, <1>6, <2>3, ResponsesFits
    <3> QED BY <1>1, <2>1, <3>1, <3>2 DEF ReadFits
  <2> QED BY <2>2, <2>3 DEF Protocols
<1> QED BY <1>3, <1>4, <1>5, <1>6

-----------------------------------------------------------------------------
(* The encoder. *)

\* A set of natural numbers has a least element.
Less == {ss \in Nat \X Nat : ss[1] < ss[2]}

LEMMA Least ==
    ASSUME NEW T, T \subseteq Nat, T # {}
    PROVE  \E m \in T : \A k \in T : m <= k
<1>1. IsWellFoundedOn(Less, Nat) BY NatLessThanWellFounded DEF Less, OpToRel
<1>2. PICK m \in T : \A k \in T : ~(<<k, m>> \in Less) BY <1>1, WFMin
<1>3. ASSUME NEW k \in Nat, k < m PROVE <<k, m>> \in Less BY <1>3 DEF Less
<1>4. \A k \in T : k \in Nat /\ m \in Nat /\ ~(k < m) BY <1>2, <1>3
<1>5. \A k \in T : m <= k BY <1>4
<1> QED BY <1>5

\* The highest of the indexes hinted at exists: they are integers below a bound.
LEMMA MaxExists ==
    ASSUME NEW S, NEW high \in Int, S # {}, \A x \in S : x \in Int /\ x <= high
    PROVE  Max(S) \in S /\ \A y \in S : Max(S) >= y
<1> DEFINE T == {k \in Nat : high - k \in S}
<1>1. T \subseteq Nat OBVIOUS
<1>2. \A x \in S : high - x \in T
  <2>1. TAKE x \in S
  <2>2. x \in Int /\ x <= high OBVIOUS
  <2>3. high - x \in Nat /\ high - (high - x) = x BY <2>2
  <2> QED BY <2>3
<1>3. PICK m \in T : \A k \in T : m <= k
  <2>1. T # {} BY <1>2
  <2> HIDE DEF T
  <2> QED BY <1>1, <2>1, Least
<1>4. m \in Nat /\ high - m \in S BY <1>3
<1>5. \A y \in S : high - m >= y
  <2>1. TAKE y \in S
  <2>2. y \in Int /\ m <= high - y BY <1>2, <1>3
  <2> QED BY <2>2, <1>4
<1>6. \E x \in S : \A y \in S : x >= y BY <1>4, <1>5
<1> QED BY <1>6 DEF Max

LEMMA HintsFit ==
    ASSUME NEW e \in EncRow, NEW n \in NormRow
    PROVE  LET h == applyIndexHints(e, n)
           IN  /\ h \in EncRow
               /\ \A c \in Call : e.callAt[c] # Unset => h.callAt[c] # Unset
               /\ h.textStarted = e.textStarted
<1> DEFINE hinted == {n.textAt} \cup {n.callAt[c] : c \in Call}
           S == hinted \cup {e.nextIndex - 1}
           callAt == [c \in Call |-> IF n.callAt[c] # Unset THEN n.callAt[c] ELSE e.callAt[c]]
           textAt == IF n.textAt # Unset THEN n.textAt ELSE e.textAt
           next == Max(S) + 1
           high == IF e.nextIndex - 1 > MaxIndex THEN e.nextIndex - 1 ELSE MaxIndex
<1>1. high \in Int /\ e.nextIndex - 1 <= high /\ MaxIndex <= high BY StreamAssumption DEF EncRow
<1>2. \A x \in Hint : x \in Int /\ x <= MaxIndex BY StreamAssumption DEF Hint, Index, Unset
<1>3. \A x \in S : x \in Int /\ x <= high
  <2>1. TAKE x \in S
  <2>2. n.textAt \in Hint /\ \A c \in Call : n.callAt[c] \in Hint BY DEF NormRow
  <2>3. x \in Hint \/ x = e.nextIndex - 1 BY <2>2
  <2> HIDE DEF high, S
  <2> QED BY <1>1, <1>2, <2>3, StreamAssumption DEF EncRow
<1>4. S # {} OBVIOUS
<1>5. next \in Nat
  <2> HIDE DEF high, S
  <2>1. Max(S) \in S /\ \A y \in S : Max(S) >= y BY <1>1, <1>3, <1>4, MaxExists
  <2>2. Max(S) \in Int BY <2>1, <1>3
  <2>3. e.nextIndex - 1 \in S BY DEF S
  <2>4. Max(S) >= e.nextIndex - 1 /\ e.nextIndex \in Nat BY <2>1, <2>3 DEF EncRow
  <2> QED BY <2>2, <2>4
<1>6. callAt \in [Call -> Int] BY <1>2 DEF EncRow, NormRow
<1>7. textAt \in Int BY <1>2 DEF EncRow, NormRow
<1>8. applyIndexHints(e, n) = [e EXCEPT !.textAt = textAt, !.callAt = callAt, !.nextIndex = next]
  BY DEF applyIndexHints, EncRow
<1>9. \A c \in Call : e.callAt[c] # Unset => callAt[c] # Unset OBVIOUS
<1> HIDE DEF callAt, textAt, next
<1>10. [e EXCEPT !.textAt = textAt, !.callAt = callAt, !.nextIndex = next] \in EncRow BY <1>5, <1>6, <1>7 DEF EncRow
<1>11. /\ [e EXCEPT !.textAt = textAt, !.callAt = callAt, !.nextIndex = next].callAt = callAt
       /\ [e EXCEPT !.textAt = textAt, !.callAt = callAt, !.nextIndex = next].textStarted = e.textStarted
  BY DEF EncRow
<1> QED BY <1>8, <1>9, <1>10, <1>11

\* What a frame does to the client and the encoder.
Keeps(s, e, c, n, source) ==
    /\ s.e \in EncRow /\ s.c \in ClientRow /\ s.c.ends = c.ends
    /\ source = "responses" /\ Announced(c, e, n) => Announced(s.c, s.e, n)

LEMMA AnnounceFits ==
    ASSUME NEW c \in ClientRow, NEW i \in Item, NEW ix \in Int
    PROVE  /\ Announce(c, i, ix) \in ClientRow /\ Announce(c, i, ix).ends = c.ends
           /\ Announce(c, i, ix).added = c.added \cup {<<i, ix>>}
<1>1. <<i, ix>> \in Item \X Int OBVIOUS
<1> DEFINE p == <<i, ix>>
<1> HIDE DEF p
<1>2. c.added \cup {p} \in SUBSET (Item \X Int) BY <1>1 DEF ClientRow, p
<1>3. [c EXCEPT !.bytes = TRUE, !.added = @ \cup {p}] = [c EXCEPT !.bytes = TRUE, !.added = c.added \cup {p}]
  BY DEF ClientRow
<1>4. [c EXCEPT !.bytes = TRUE, !.added = c.added \cup {p}] \in ClientRow BY <1>2 DEF ClientRow
<1>5. /\ [c EXCEPT !.bytes = TRUE, !.added = c.added \cup {p}].ends = c.ends
      /\ [c EXCEPT !.bytes = TRUE, !.added = c.added \cup {p}].added = c.added \cup {p}
  BY DEF ClientRow
<1>6. Announce(c, i, ix) = [c EXCEPT !.bytes = TRUE, !.added = @ \cup {p}] BY DEF Announce, p
<1> QED BY <1>3, <1>4, <1>5, <1>6 DEF p

LEMMA DeltaFits ==
    ASSUME NEW c \in ClientRow, NEW i \in Item, NEW ix \in Int
    PROVE  /\ Delta(c, i, ix) \in ClientRow /\ Delta(c, i, ix).ends = c.ends
           /\ Delta(c, i, ix).added = c.added
<1>1. <<i, ix>> \in Item \X Int OBVIOUS
<1> DEFINE p == <<i, ix>>
<1> HIDE DEF p
<1>2. c.used \cup {p} \in SUBSET (Item \X Int) BY <1>1 DEF ClientRow, p
<1>3. [c EXCEPT !.bytes = TRUE, !.used = @ \cup {p}] = [c EXCEPT !.bytes = TRUE, !.used = c.used \cup {p}]
  BY DEF ClientRow
<1>4. [c EXCEPT !.bytes = TRUE, !.used = c.used \cup {p}] \in ClientRow BY <1>2 DEF ClientRow
<1>5. /\ [c EXCEPT !.bytes = TRUE, !.used = c.used \cup {p}].ends = c.ends
      /\ [c EXCEPT !.bytes = TRUE, !.used = c.used \cup {p}].added = c.added
  BY DEF ClientRow
<1>6. Delta(c, i, ix) = [c EXCEPT !.bytes = TRUE, !.used = @ \cup {p}] BY DEF Delta, p
<1> QED BY <1>3, <1>4, <1>5, <1>6

\* A frame sent or not, given an encoder that claims no less than before and a
\* client that was told of nothing that is not claimed.
LEMMA EmittedKeeps ==
    ASSUME NEW e \in EncRow, NEW f \in EncRow, NEW c \in ClientRow, NEW d \in ClientRow, NEW n, NEW source,
           NEW ok \in BOOLEAN, d.ends = c.ends,
           source = "responses" => \A i : ClaimsIndex(i, e, n) => ClaimsIndex(i, f, n),
           source = "responses" => \A x \in d.added : x \in c.added \/ ClaimsIndex(x[1], f, n)
    PROVE  Keeps(Emitted(f, c, d, ok), e, c, n, source)
<1> DEFINE s == Emitted(f, c, d, ok)
<1>1. s.e = f /\ s.c = IF ok THEN d ELSE c BY DEF Emitted, Consumed
<1> HIDE DEF s
<1>2. CASE ok = TRUE BY <1>1, <1>2 DEF Keeps, Announced, s
<1>3. CASE ok = FALSE BY <1>1, <1>3 DEF Keeps, Announced, s
<1> QED BY <1>2, <1>3

LEMMA ConsumedKeeps ==
    ASSUME NEW e \in EncRow, NEW f \in EncRow, NEW c \in ClientRow, NEW n, NEW source, NEW err,
           f.callAt = e.callAt, f.textStarted = e.textStarted
    PROVE  Keeps(Consumed(f, c, err), e, c, n, source)
<1> DEFINE s == Consumed(f, c, err)
<1>1. s.e = f /\ s.c = c BY DEF Consumed
<1> HIDE DEF s
<1> QED BY <1>1 DEF Keeps, Announced, ClaimsIndex, s

LEMMA CallIsItem == \A i \in Call : i \in Item
BY DEF Item
LEMMA MessageIsItem == Message \in Item
BY DEF Item

LEMMA ChatConsumed ==
    ASSUME NEW e \in EncRow, NEW c \in ClientRow, NEW n, NEW event, EventFits(event), NEW ok \in BOOLEAN,
           event.k \in {"text", "call", "args"}
    PROVE  Keeps(consumeChat(e, c, event, ok), e, c, n, "chat")
<1>1. CASE event.k = "text"
  <2>1. consumeChat(e, c, event, ok) = Emitted(e, c, Delta(c, Message, 0), ok) BY <1>1 DEF consumeChat
  <2>2. Delta(c, Message, 0) \in ClientRow /\ Delta(c, Message, 0).ends = c.ends BY DeltaFits, MessageIsItem
  <2> QED BY <2>1, <2>2, EmittedKeeps
<1>2. CASE event.k = "call"
  <2> DEFINE ix == e.nextCall
             f == [e EXCEPT !.nextCall = ix + 1, !.callAt[event.id] = ix]
  <2>1. consumeChat(e, c, event, ok) = Emitted(f, c, Announce(c, event.id, ix), ok) BY <1>2 DEF consumeChat
  <2>2. event.id \in Call /\ ix \in Int BY <1>2 DEF EventFits, EncRow
  <2>3. f \in EncRow
    <3>1. e.nextCall + 1 \in Nat /\ [e.callAt EXCEPT ![event.id] = e.nextCall] \in [Call -> Int] BY <2>2 DEF EncRow
    <3>2. f = [e EXCEPT !.nextCall = e.nextCall + 1, !.callAt = [e.callAt EXCEPT ![event.id] = e.nextCall]]
      BY DEF EncRow
    <3> QED BY <3>1, <3>2 DEF EncRow
  <2>4. Announce(c, event.id, ix) \in ClientRow /\ Announce(c, event.id, ix).ends = c.ends
    BY <2>2, AnnounceFits, CallIsItem
  <2> QED BY <2>1, <2>3, <2>4, EmittedKeeps
<1>3. CASE event.k = "args"
  <2>1. event.id \in Call /\ e.callAt[event.id] \in Int BY <1>3 DEF EventFits, EncRow
  <2>2. CASE e.callAt[event.id] = Unset
    <3>1. consumeChat(e, c, event, ok) = Consumed(e, c, "plain") BY <1>3, <2>2 DEF consumeChat
    <3> QED BY <3>1, ConsumedKeeps
  <2>3. CASE e.callAt[event.id] # Unset
    <3> DEFINE d == Delta(c, event.id, e.callAt[event.id])
    <3>1. consumeChat(e, c, event, ok) = Emitted(e, c, d, ok) BY <1>3, <2>3 DEF consumeChat
    <3>2. d \in ClientRow /\ d.ends = c.ends BY <2>1, DeltaFits, CallIsItem
    <3> QED BY <3>1, <3>2, EmittedKeeps
  <2> QED BY <2>2, <2>3
<1> QED BY <1>1, <1>2, <1>3

LEMMA ResponsesConsumed ==
    ASSUME NEW e \in EncRow, NEW c \in ClientRow, NEW n, NEW event, EventFits(event), NEW ok \in BOOLEAN,
           event.k \in {"text", "call", "args"}, NEW source
    PROVE  Keeps(consumeResponses(e, c, event, ok), e, c, n, source)
<1>1. CASE event.k = "text" /\ e.textStarted
  <2> DEFINE d == Delta(c, Message, e.textAt)
  <2>1. consumeResponses(e, c, event, ok) = Emitted(e, c, d, ok) BY <1>1 DEF consumeResponses
  <2>2. d \in ClientRow /\ d.ends = c.ends /\ d.added = c.added BY DeltaFits, MessageIsItem DEF EncRow
  <2> HIDE DEF d
  <2> QED BY <2>1, <2>2, EmittedKeeps
<1>2. CASE event.k = "text" /\ ~e.textStarted
  <2> DEFINE ix == IF e.textAt = Unset THEN e.nextIndex ELSE e.textAt
             next == IF e.textAt = Unset THEN e.nextIndex + 1 ELSE e.nextIndex
             f == [e EXCEPT !.textStarted = TRUE, !.textAt = ix, !.nextIndex = next]
             d == Delta(Announce(c, Message, ix), Message, ix)
  <2>1. consumeResponses(e, c, event, ok) = Emitted(f, c, d, ok) BY <1>2 DEF consumeResponses
  <2>2. ix \in Int /\ next \in Nat BY DEF EncRow
  <2> HIDE DEF ix, next
  <2>3. f \in EncRow /\ f.callAt = e.callAt /\ f.textStarted = TRUE BY <2>2 DEF EncRow
  <2>4. d \in ClientRow /\ d.ends = c.ends /\ d.added = c.added \cup {<<Message, ix>>}
    BY <2>2, DeltaFits, AnnounceFits, MessageIsItem
  <2> HIDE DEF f, d
  <2>5. \A i : ClaimsIndex(i, e, n) => ClaimsIndex(i, f, n) BY <2>3 DEF ClaimsIndex
  <2>6. <<Message, ix>>[1] = Message /\ ClaimsIndex(Message, f, n) BY <2>3 DEF ClaimsIndex
  <2>7. \A x \in d.added : x \in c.added \/ ClaimsIndex(x[1], f, n) BY <2>4, <2>6
  <2> QED BY <2>1, <2>3, <2>4, <2>5, <2>7, EmittedKeeps
<1>3. CASE event.k = "call"
  <2> DEFINE fresh == e.callAt[event.id] = Unset
             ix == IF fresh THEN e.nextIndex ELSE e.callAt[event.id]
             next == IF fresh THEN e.nextIndex + 1 ELSE e.nextIndex
             f == [e EXCEPT !.callAt[event.id] = ix, !.nextIndex = IF fresh THEN @ + 1 ELSE @]
             d == Announce(c, event.id, ix)
  <2>1. consumeResponses(e, c, event, ok) = Emitted(f, c, d, ok) BY <1>3 DEF consumeResponses
  <2>2. event.id \in Call /\ e.callAt[event.id] \in Int /\ e.nextIndex \in Nat BY <1>3 DEF EventFits, EncRow
  <2>3. ix \in Int /\ ix # Unset /\ next \in Nat BY <2>2 DEF Unset
  <2>4. f = [e EXCEPT !.callAt[event.id] = ix, !.nextIndex = next] BY DEF EncRow
  <2> HIDE DEF ix, next
  <2>5. f \in EncRow /\ f.textStarted = e.textStarted BY <2>2, <2>3, <2>4 DEF EncRow
  <2>6. \A i \in Call : f.callAt[i] = IF i = event.id THEN ix ELSE e.callAt[i] BY <2>2, <2>4 DEF EncRow
  <2>7. d \in ClientRow /\ d.ends = c.ends /\ d.added = c.added \cup {<<event.id, ix>>}
    BY <2>2, <2>3, AnnounceFits, CallIsItem
  <2> HIDE DEF f, d
  <2>8. \A i : ClaimsIndex(i, e, n) => ClaimsIndex(i, f, n) BY <2>3, <2>5, <2>6 DEF ClaimsIndex
  <2>9. <<event.id, ix>>[1] = event.id /\ ClaimsIndex(event.id, f, n) BY <2>2, <2>3, <2>6 DEF ClaimsIndex
  <2>10. \A x \in d.added : x \in c.added \/ ClaimsIndex(x[1], f, n) BY <2>7, <2>9
  <2> QED BY <2>1, <2>5, <2>7, <2>8, <2>10, EmittedKeeps
<1>4. CASE event.k = "args"
  <2> DEFINE ix == IF e.callAt[event.id] = Unset THEN 0 ELSE e.callAt[event.id]
             d == Delta(c, event.id, ix)
  <2>1. consumeResponses(e, c, event, ok) = Emitted(e, c, d, ok) BY <1>4 DEF consumeResponses
  <2>2. event.id \in Call /\ ix \in Int BY <1>4 DEF EventFits, EncRow
  <2>3. d \in ClientRow /\ d.ends = c.ends /\ d.added = c.added BY <2>2, DeltaFits, CallIsItem
  <2> HIDE DEF d, ix
  <2> QED BY <2>1, <2>3, EmittedKeeps
<1> QED BY <1>1, <1>2, <1>3, <1>4

LEMMA ConsumeKeeps ==
    ASSUME NEW e \in EncRow, NEW c \in ClientRow, NEW n, NEW event, EventFits(event), NEW ok \in BOOLEAN, NEW source
    PROVE  Keeps(consume(source, e, c, event, ok), e, c, n, source)
<1>1. CASE event.k \in {"error", "start"}
  <2>1. \E err : consume(source, e, c, event, ok) = Consumed(e, c, err) BY <1>1 DEF consume
  <2> QED BY <2>1, ConsumedKeeps
<1>2. CASE event.k = "usage"
  <2> DEFINE f == [e EXCEPT !.usage = TRUE]
  <2>1. f \in EncRow /\ f.callAt = e.callAt /\ f.textStarted = e.textStarted BY DEF EncRow
  <2>2. consume(source, e, c, event, ok) = IF event.over THEN Consumed(e, c, "invalid") ELSE Consumed(f, c, "none")
    BY <1>2 DEF consume
  <2> HIDE DEF f
  <2>3. Keeps(Consumed(e, c, "invalid"), e, c, n, source) BY ConsumedKeeps
  <2>4. Keeps(Consumed(f, c, "none"), e, c, n, source) BY <2>1, ConsumedKeeps
  <2> QED BY <2>2, <2>3, <2>4
<1>3. CASE event.k = "end"
  <2> DEFINE f == [e EXCEPT !.finish = TRUE]
  <2>1. f \in EncRow /\ f.callAt = e.callAt /\ f.textStarted = e.textStarted BY DEF EncRow
  <2>2. consume(source, e, c, event, ok) = Consumed(f, c, "none") BY <1>3 DEF consume
  <2> HIDE DEF f
  <2> QED BY <2>1, <2>2, ConsumedKeeps
<1>4. CASE event.k \in {"text", "call", "args"}
  <2>1. CASE source = "chat"
    <3>1. consume(source, e, c, event, ok) = consumeChat(e, c, event, ok) BY <1>4, <2>1 DEF consume
    <3> QED BY <1>4, <2>1, <3>1, ChatConsumed
  <2>2. CASE source # "chat"
    <3>1. consume(source, e, c, event, ok) = consumeResponses(e, c, event, ok) BY <1>4, <2>2 DEF consume
    <3> QED BY <1>4, <3>1, ResponsesConsumed
  <2> QED BY <2>1, <2>2
<1> QED BY <1>1, <1>2, <1>3, <1>4 DEF EventFits, Kinds

LEMMA ConsumeAllKeeps ==
    ASSUME NEW e \in EncRow, NEW c \in ClientRow, NEW n, NEW evs, EventsFit(evs), NEW ok \in BOOLEAN, NEW source
    PROVE  Keeps(consumeAll(source, e, c, evs, ok), e, c, n, source)
<1> DEFINE step(s, i) == IF s.err # "none" \/ i > Len(evs) THEN s ELSE consume(source, s.e, s.c, evs[i], ok)
           s0 == Consumed(e, c, "none")
           s1 == step(s0, 1)
           s2 == step(s1, 2)
<1>1. consumeAll(source, e, c, evs, ok) = s2 BY DEF consumeAll
<1>2. s0.e = e /\ s0.c = c BY DEF Consumed
<1>3. Keeps(s0, e, c, n, source) BY ConsumedKeeps
<1>4. ASSUME NEW s, NEW i \in {1, 2}, Keeps(s, e, c, n, source) PROVE Keeps(step(s, i), e, c, n, source)
  <2>1. CASE s.err # "none" \/ i > Len(evs) BY <1>4, <2>1
  <2>2. CASE ~(s.err # "none" \/ i > Len(evs))
    <3> DEFINE t == consume(source, s.e, s.c, evs[i], ok)
    <3>1. EventFits(evs[i]) BY <2>2 DEF EventsFit
    <3>2. s.e \in EncRow /\ s.c \in ClientRow BY <1>4 DEF Keeps
    <3>3. Keeps(t, s.e, s.c, n, source) BY <3>1, <3>2, ConsumeKeeps
    <3>4. step(s, i) = t BY <2>2
    <3> HIDE DEF t, step
    <3>5. Keeps(t, e, c, n, source) BY <3>3, <1>4 DEF Keeps
    <3> QED BY <3>4, <3>5
  <2> QED BY <2>1, <2>2
<1>5. Keeps(s1, e, c, n, source)
  <2> HIDE DEF s0, step
  <2> QED BY <1>3, <1>4
<1>6. Keeps(s2, e, c, n, source)
  <2> HIDE DEF s1, step
  <2> QED BY <1>5, <1>4
<1> QED BY <1>1, <1>6

LEMMA ReasoningKeeps ==
    ASSUME NEW e \in EncRow, NEW c \in ClientRow, NEW n, NEW thoughts, NEW ok \in BOOLEAN, NEW source,
           thoughts # <<>> => /\ thoughts[1].id \in Thought /\ thoughts[1].ix \in Index
                              /\ n.thoughtAt[thoughts[1].id] # Unset
    PROVE  Keeps(emitReasoning(source, e, c, thoughts, ok), e, c, n, source)
<1>1. CASE thoughts = <<>> \/ source = "chat"
  <2>1. \E err : emitReasoning(source, e, c, thoughts, ok) = Consumed(e, c, err) BY <1>1 DEF emitReasoning
  <2> QED BY <2>1, ConsumedKeeps
<1>2. CASE thoughts # <<>> /\ source # "chat"
  <2> DEFINE t == thoughts[1]
             a == Announce(c, t.id, t.ix)
             b == [c EXCEPT !.bytes = TRUE]
             d == IF t.k = "thought" THEN a ELSE b
  <2>1. emitReasoning(source, e, c, thoughts, ok) = Emitted(e, c, d, ok) BY <1>2 DEF emitReasoning
  <2>2. t.id \in Item /\ t.ix \in Int /\ ClaimsIndex(t.id, e, n) BY <1>2, NoHint DEF Item, ClaimsIndex
  <2>3. a \in ClientRow /\ a.ends = c.ends /\ a.added = c.added \cup {<<t.id, t.ix>>} BY <2>2, AnnounceFits
  <2>4. b \in ClientRow /\ b.ends = c.ends /\ b.added = c.added BY DEF ClientRow
  <2>5. <<t.id, t.ix>>[1] = t.id OBVIOUS
  <2> HIDE DEF a, b, t
  <2>6. d \in ClientRow /\ d.ends = c.ends /\ \A x \in d.added : x \in c.added \/ ClaimsIndex(x[1], e, n)
    <3>1. CASE t.k = "thought" BY <3>1, <2>2, <2>3, <2>5
    <3>2. CASE t.k # "thought" BY <3>2, <2>4
    <3> QED BY <3>1, <3>2
  <2> HIDE DEF d
  <2> QED BY <2>1, <2>6, EmittedKeeps
<1> QED BY <1>1, <1>2

-----------------------------------------------------------------------------
(* What is reported and what the client is told. *)

NoSuccess(s) == s \in Seq(EventRow) /\ \A i \in 1 .. Len(s) : ~Succeeded(s[i])

LEMMA AppendFits ==
    ASSUME NEW s \in Seq(EventRow), NEW event \in EventRow
    PROVE  /\ Append(s, event) \in Seq(EventRow)
           /\ NoSuccess(s) /\ ~Succeeded(event) => NoSuccess(Append(s, event))
<1>1. Append(s, event) \in Seq(EventRow) /\ Len(Append(s, event)) = Len(s) + 1 OBVIOUS
<1>2. \A i \in 1 .. Len(s) + 1 : Append(s, event)[i] = IF i = Len(s) + 1 THEN event ELSE s[i] OBVIOUS
<1>3. ASSUME NoSuccess(s), ~Succeeded(event) PROVE NoSuccess(Append(s, event))
  <2>1. ASSUME NEW i \in 1 .. Len(s) + 1 PROVE ~Succeeded(Append(s, event)[i])
    <3>1. CASE i = Len(s) + 1 BY <1>2, <1>3, <3>1
    <3>2. CASE i # Len(s) + 1
      <4>1. i \in 1 .. Len(s) /\ Append(s, event)[i] = s[i] BY <1>2, <3>2
      <4> QED BY <4>1, <1>3 DEF NoSuccess
    <3> QED BY <3>1, <3>2
  <2> QED BY <1>1, <2>1 DEF NoSuccess
<1> QED BY <1>1, <1>3

EventTypes == {"request_started", "route_selected", "attempt_finished", "request_finished", "request_cancelled"}
Outcomes == {"success", "failed", "fallback", "cancelled"}

\* An event that is not a success leaves none.
LEMMA EmitFits ==
    ASSUME NoSuccess(events), NEW type \in EventTypes, NEW n \in Nat, NEW outcome \in Outcomes, NEW reason,
           type # "request_finished" \/ outcome # "success"
    PROVE  NoSuccess(emit(type, n, outcome, reason))
<1>1. Event(type, n, outcome) \in EventRow /\ ~Succeeded(Event(type, n, outcome))
  BY DEF Event, EventRow, Succeeded, EventTypes, Outcomes
<1>2. events \in Seq(EventRow) BY DEF NoSuccess
<1>3. NoSuccess(Append(events, Event(type, n, outcome))) BY <1>1, <1>2, AppendFits
<1> QED BY <1>3 DEF emit

LEMMA FinishedFits ==
    ASSUME NoSuccess(events), NEW n \in Nat, NEW outcome \in {"success", "failed"}, NEW reason
    PROVE  /\ RequestFinished(n, outcome, reason) \in Seq(EventRow)
           /\ outcome = "failed" => NoSuccess(RequestFinished(n, outcome, reason))
<1> DEFINE a == Event("attempt_finished", n, outcome)
           b == Event("request_finished", n, outcome)
<1>1. a \in EventRow /\ b \in EventRow /\ ~Succeeded(a) /\ (outcome = "failed" => ~Succeeded(b))
  BY DEF Event, EventRow, Succeeded
<1>2. events \in Seq(EventRow) BY DEF NoSuccess
<1> HIDE DEF a, b
<1>3. Append(events, a) \in Seq(EventRow) /\ NoSuccess(Append(events, a)) BY <1>1, <1>2, AppendFits
<1>4. /\ Append(Append(events, a), b) \in Seq(EventRow)
      /\ outcome = "failed" => NoSuccess(Append(Append(events, a), b))
  BY <1>1, <1>3, AppendFits
<1>5. events \o <<a, b>> = Append(Append(events, a), b) BY <1>1, <1>2
<1>6. RequestFinished(n, outcome, reason) = events \/ RequestFinished(n, outcome, reason) = Append(Append(events, a), b)
  BY <1>5 DEF RequestFinished, a, b
<1> QED BY <1>2, <1>4, <1>6

\* A stream that ends reports a success only if it ended without an error.
LEMMA EndReported ==
    ASSUME NoSuccess(events), attempt \in Nat, NEW err, StreamEnds(err)
    PROVE  events' \in Seq(EventRow) /\ (err # "none" => NoSuccess(events'))
<1>1. events' = IF IsContextError(err) THEN emit("request_cancelled", attempt, "cancelled", "cancelled")
                ELSE IF err = "none" THEN RequestFinished(attempt, "success", "none")
                ELSE RequestFinished(attempt, "failed", err)
  BY DEF StreamEnds
<1>2. NoSuccess(emit("request_cancelled", attempt, "cancelled", "cancelled"))
  BY EmitFits DEF EventTypes, Outcomes
<1>3. NoSuccess(RequestFinished(attempt, "failed", err)) BY FinishedFits
<1>4. RequestFinished(attempt, "success", "none") \in Seq(EventRow) BY FinishedFits
<1>5. \A s : NoSuccess(s) => s \in Seq(EventRow) BY DEF NoSuccess
<1> QED BY <1>1, <1>2, <1>3, <1>4, <1>5

\* The end written to a client that had none.
EndWords == {"complete", "failed", "refused"}

LEMMA EndedFits ==
    ASSUME NEW c \in ClientRow, c.ends = <<>>, NEW how \in EndWords
    PROVE  Ended(c, how) \in ClientRow /\ Ended(c, how).ends = <<how>> /\ Ended(c, how).added = c.added
<1>1. Append(<<>>, how) = <<how>> /\ <<how>> \in Seq(EndWords) OBVIOUS
<1>2. Ended(c, how) = [c EXCEPT !.bytes = TRUE, !.ends = <<how>>] BY <1>1 DEF Ended, ClientRow
<1>3. [c EXCEPT !.bytes = TRUE, !.ends = <<how>>] \in ClientRow BY <1>1 DEF ClientRow, EndWords
<1>4. /\ [c EXCEPT !.bytes = TRUE, !.ends = <<how>>].ends = <<how>>
      /\ [c EXCEPT !.bytes = TRUE, !.ends = <<how>>].added = c.added
  BY DEF ClientRow
<1> QED BY <1>2, <1>3, <1>4

LEMMA FailFits ==
    ASSUME NEW c \in ClientRow, c.ends = <<>>, FailClient(c)
    PROVE  client' \in ClientRow /\ (client'.ends = <<>> \/ client'.ends = <<"failed">>) /\ client'.added = c.added
<1>1. client' = Ended(c, "failed") \/ client' = c BY DEF FailClient
<1>2. /\ Ended(c, "failed") \in ClientRow /\ Ended(c, "failed").ends = <<"failed">>
      /\ Ended(c, "failed").added = c.added
  BY EndedFits DEF EndWords
<1> QED BY <1>1, <1>2

-----------------------------------------------------------------------------
(* A complete answer. *)

Place(i, e, n) == IF i \in Thought THEN n.thoughtAt[i] ELSE IF i \in Call THEN e.callAt[i] ELSE e.textAt

Whole(c, e, n, source) ==
    /\ n.terminal /\ reasoningComplete(n) /\ e.usage
    /\ source = "responses" =>
          \A a, b \in {x[1] : x \in c.added} : Place(a, e, n) = Place(b, e, n) => a = b

\* finish writes the end of a whole answer only: what was announced claims its
\* index, and the indexes claimed differ.
LEMMA FinishIsWhole ==
    ASSUME NEW c, NEW e, NEW n, NEW source, CanFinish(source, e, n), n.terminal, reasoningComplete(n),
           source = "responses" => Announced(c, e, n)
    PROVE  Whole(c, e, n, source)
<1> SUFFICES ASSUME source = "responses", NEW a \in {x[1] : x \in c.added}, NEW b \in {x[1] : x \in c.added},
                    Place(a, e, n) = Place(b, e, n)
             PROVE  a = b
  BY DEF Whole, CanFinish
<1> DEFINE claims == {<<t, n.thoughtAt[t]>> : t \in {t \in Thought : n.thoughtAt[t] # Unset}}
                    \cup (IF e.textStarted THEN {<<Message, e.textAt>>} ELSE {})
                    \cup {<<i, e.callAt[i]>> : i \in {i \in Call : e.callAt[i] # Unset}}
<1>1. \A p, q \in claims : p[2] = q[2] => p = q BY DEF CanFinish, validateOutputIndexes
<1>2. ASSUME NEW i, ClaimsIndex(i, e, n) PROVE <<i, Place(i, e, n)>> \in claims
  <2>1. CASE i \in Thought /\ n.thoughtAt[i] # Unset BY <2>1 DEF Place
  <2>2. CASE i \in Call /\ e.callAt[i] # Unset
    <3>1. Place(i, e, n) = e.callAt[i] BY <2>2, StreamAssumption DEF Place
    <3> QED BY <2>2, <3>1
  <2>3. CASE i = Message /\ e.textStarted
    <3>1. Place(i, e, n) = e.textAt BY <2>3, StreamAssumption DEF Place
    <3> QED BY <2>3, <3>1
  <2> QED BY <1>2, <2>1, <2>2, <2>3 DEF ClaimsIndex
<1>3. ClaimsIndex(a, e, n) /\ ClaimsIndex(b, e, n) BY DEF Announced
<1> DEFINE p == <<a, Place(a, e, n)>>
           q == <<b, Place(b, e, n)>>
<1>4. p \in claims /\ q \in claims BY <1>2, <1>3
<1>5. p[2] = q[2] OBVIOUS
<1> HIDE DEF claims
<1>6. p = q BY <1>1, <1>4, <1>5
<1>7. p[1] = a /\ q[1] = b OBVIOUS
<1> QED BY <1>6, <1>7

\* A stream after one of its steps.
Result ==
    /\ enc' \in EncRow /\ client' \in ClientRow /\ events' \in Seq(EventRow)
    /\ req.source = "responses" => Announced(client', enc', norm')
    /\ \/ GoesOn /\ client'.ends = <<>> /\ NoSuccess(events')
       \/ Over /\ (client'.ends = <<>> \/ client'.ends = <<"failed">>) /\ NoSuccess(events')
       \/ Over /\ client'.ends = <<"complete">> /\ Whole(client', enc', norm', req.source)

Streaming == NoSuccess(events) /\ attempt \in Nat

LEMMA DeliverResult ==
    ASSUME Streaming, NEW e \in EncRow, NEW c \in ClientRow, c.ends = <<>>, NEW evs, EventsFit(evs),
           req.source = "responses" => Announced(c, e, norm'), Deliver(e, c, evs)
    PROVE  Result
<1>1. PICK ok \in BOOLEAN :
        LET done == consumeAll(req.source, e, c, evs, ok)
        IN  IF done.err = "none" THEN Sent(done)
            ELSE enc' = done.e /\ FailClient(done.c) /\ StreamEnds(done.err)
  BY DEF Deliver
<1> DEFINE done == consumeAll(req.source, e, c, evs, ok)
<1>2. Keeps(done, e, c, norm', req.source) BY ConsumeAllKeeps
<1> HIDE DEF done
<1>3. /\ done.e \in EncRow /\ done.c \in ClientRow /\ done.c.ends = <<>>
      /\ req.source = "responses" => Announced(done.c, done.e, norm')
  BY <1>2 DEF Keeps
<1>4. CASE done.err = "none"
  <2>1. Sent(done) BY <1>1, <1>4 DEF done
  <2>2. enc' = done.e /\ client' = done.c /\ GoesOn /\ events' = events BY <2>1 DEF Sent, GoesOn
  <2> QED BY <1>3, <2>2 DEF Result, Streaming, NoSuccess
<1>5. CASE done.err # "none"
  <2>1. enc' = done.e /\ FailClient(done.c) /\ StreamEnds(done.err) BY <1>1, <1>5 DEF done
  <2>2. Over BY <2>1, StreamEnding
  <2>3. NoSuccess(events') BY <1>5, <2>1, EndReported DEF Streaming
  <2>4. client' \in ClientRow /\ (client'.ends = <<>> \/ client'.ends = <<"failed">>) /\ client'.added = done.c.added
    BY <1>3, <2>1, FailFits
  <2>5. req.source = "responses" => Announced(client', enc', norm') BY <1>3, <2>1, <2>4 DEF Announced
  <2> QED BY <1>3, <2>1, <2>2, <2>3, <2>4, <2>5 DEF Result, NoSuccess
<1> QED BY <1>4, <1>5

LEMMA ShowResult ==
    ASSUME Streaming, NEW e \in EncRow, client \in ClientRow, client.ends = <<>>, NEW thoughts, thoughts # <<>>,
           thoughts[1].id \in Thought, thoughts[1].ix \in Index, norm'.thoughtAt[thoughts[1].id] # Unset,
           req.source = "responses" => Announced(client, e, norm'), Show(e, thoughts)
    PROVE  Result
<1>1. PICK ok \in BOOLEAN :
        LET done == emitReasoning(req.source, e, client, thoughts, ok)
        IN  IF done.err = "none" THEN Sent(done)
            ELSE enc' = e /\ UNCHANGED client /\ StreamEnds(done.err)
  BY DEF Show
<1> DEFINE done == emitReasoning(req.source, e, client, thoughts, ok)
<1>2. Keeps(done, e, client, norm', req.source) BY ReasoningKeeps
<1> HIDE DEF done
<1>3. /\ done.e \in EncRow /\ done.c \in ClientRow /\ done.c.ends = <<>>
      /\ req.source = "responses" => Announced(done.c, done.e, norm')
  BY <1>2 DEF Keeps
<1>4. CASE done.err = "none"
  <2>1. Sent(done) BY <1>1, <1>4 DEF done
  <2>2. enc' = done.e /\ client' = done.c /\ GoesOn /\ events' = events BY <2>1 DEF Sent, GoesOn
  <2> QED BY <1>3, <2>2 DEF Result, Streaming, NoSuccess
<1>5. CASE done.err # "none"
  <2>1. enc' = e /\ client' = client /\ StreamEnds(done.err) BY <1>1, <1>5 DEF done
  <2>2. Over BY <2>1, StreamEnding
  <2>3. NoSuccess(events') BY <1>5, <2>1, EndReported DEF Streaming
  <2> QED BY <2>1, <2>2, <2>3 DEF Result, NoSuccess
<1> QED BY <1>4, <1>5

LEMMA DoneResult ==
    ASSUME Streaming, enc \in EncRow, client \in ClientRow, client.ends = <<>>,
           req.source = "responses" => Announced(client, enc, norm'), StreamDone(norm'), enc' = enc
    PROVE  Result
<1> DEFINE n == norm'
<1>0. \A s : NoSuccess(s) => s \in Seq(EventRow) BY DEF NoSuccess
<1>1. CASE ~n.terminal \/ ~reasoningComplete(n)
  <2>1. FailClient(client) /\ StreamEnds("invalid") BY <1>1 DEF StreamDone
  <2>2. Over /\ NoSuccess(events') BY <2>1, StreamEnding, EndReported DEF Streaming
  <2>3. client' \in ClientRow /\ (client'.ends = <<>> \/ client'.ends = <<"failed">>) /\ client'.added = client.added
    BY <2>1, FailFits
  <2> QED BY <1>0, <2>2, <2>3 DEF Result, Announced
<1>2. CASE n.terminal /\ reasoningComplete(n) /\ ~CanFinish(req.source, enc, n)
  <2>1. StreamEnds("plain") /\ client' = client BY <1>2 DEF StreamDone
  <2>2. Over /\ NoSuccess(events') BY <2>1, StreamEnding, EndReported DEF Streaming
  <2> QED BY <1>0, <2>1, <2>2 DEF Result
<1>3. CASE n.terminal /\ reasoningComplete(n) /\ CanFinish(req.source, enc, n)
  <2>1. PICK ok \in BOOLEAN : /\ client' = IF ok THEN Ended(client, "complete") ELSE client
                              /\ StreamEnds(IF ok THEN "none" ELSE "plain")
    BY <1>3 DEF StreamDone
  <2>2. CASE ok = FALSE
    <3>1. client' = client /\ StreamEnds("plain") BY <2>1, <2>2
    <3>2. Over /\ NoSuccess(events') BY <3>1, StreamEnding, EndReported DEF Streaming
    <3> QED BY <1>0, <3>1, <3>2 DEF Result
  <2>3. CASE ok = TRUE
    <3>1. client' = Ended(client, "complete") /\ StreamEnds("none") BY <2>1, <2>3
    <3>2. Over /\ events' \in Seq(EventRow) BY <3>1, StreamEnding, EndReported DEF Streaming
    <3>3. client' \in ClientRow /\ client'.ends = <<"complete">> /\ client'.added = client.added
      BY <3>1, EndedFits DEF EndWords
    <3>4. req.source = "responses" => Announced(client', enc', n) BY <3>3 DEF Announced
    <3>5. Whole(client', enc', n, req.source) BY <1>3, <3>4, FinishIsWhole
    <3> QED BY <3>2, <3>3, <3>4, <3>5 DEF Result
  <2> QED BY <2>2, <2>3
<1> QED BY <1>1, <1>2, <1>3

-----------------------------------------------------------------------------
(* The steps of the handler. *)

\* The property as a whole, before and after a step.
CompleteParts ==
    /\ pc = "sent" => encodeDestinationRequest(routes[attempt], req.needs) = req.needs
    /\ Len(client.ends) <= 1
    /\ req.stream /\ client.ends = <<"complete">> => Whole(client, enc, norm, req.source)
    /\ \A i \in DOMAIN events : Succeeded(events[i]) => client.ends = <<"complete">>

LEMMA CompleteForm == CompleteIsComplete <=> CompleteParts
BY DEF CompleteIsComplete, CompleteParts, Whole, Place, Succeeded

LEMMA CompleteFormNext == CompleteIsComplete' <=> CompleteParts'
BY DEF CompleteIsComplete, CompleteParts, Whole, Place, Succeeded

\* A route that preserves the request is sent all that it asks for.
LEMMA Preserved ==
    ASSUME NEW protocol \in Protocols, NEW needs \in SUBSET {"stop", "reasoning"},
           routePreservesRequest(protocol, needs)
    PROVE  encodeDestinationRequest(protocol, needs) = needs
BY DEF Protocols, routePreservesRequest, encodeDestinationRequest

LEMMA SentWhole ==
    ASSUME Routed' PROVE (pc = "sent" => encodeDestinationRequest(routes[attempt], req.needs) = req.needs)'
<1> SUFFICES ASSUME pc' = "sent"
             PROVE  encodeDestinationRequest(routes'[attempt'], req'.needs) = req'.needs
  OBVIOUS
<1>1. attempt' \in 1 .. Len(routes') /\ routes' \in Seq(Protocols) BY DEF Routed, Trying
<1>2. routes'[attempt'] \in Protocols BY <1>1
<1>3. req'.needs \in SUBSET {"stop", "reasoning"} /\ routePreservesRequest(routes'[attempt'], req'.needs)
  BY <1>1 DEF Routed
<1> QED BY <1>2, <1>3, Preserved

LEMMA FirstClient ==
    /\ NewClient \in ClientRow /\ NewClient.ends = <<>> /\ NewClient.added = {} /\ NewClient.bytes = FALSE
    /\ Len(NewClient.ends) = 0
    /\ NewEncoder \in EncRow
<1>1. [c \in Call |-> Unset] \in [Call -> Int] BY DEF Unset
<1>2. NewEncoder \in EncRow BY <1>1 DEF NewEncoder, EncRow, Unset
<1>3. <<>> \in Seq({"complete", "failed", "refused"}) OBVIOUS
<1>4. NewClient \in ClientRow BY <1>3 DEF NewClient, ClientRow
<1> QED BY <1>2, <1>4 DEF NewClient

LEMMA FirstNorm == NewNormalizer \in NormRow
<1>1. [c \in Call |-> Unset] \in [Call -> Hint] /\ [t \in Thought |-> Unset] \in [Thought -> Hint] /\ Unset \in Hint
  BY DEF Hint
<1> QED BY <1>1 DEF NewNormalizer, NormRow

Answers == Told' /\ Translated' /\ CompleteIsComplete'

\* Before a byte is sent, a step that leaves the client and the encoder alone.
LEMMA UntoldKeeps ==
    ASSUME RouterInv, Routed', pc \notin {"stream", "read", "end"}, UNCHANGED <<client, enc>>,
           norm' \in NormRow, EventsFit(buffered'), NoSuccess(events')
    PROVE  Answers
<1>1. client' = NewClient /\ enc' = NewEncoder BY DEF RouterInv, Told
<1>2. Told' BY <1>1, FirstClient DEF Told, NoSuccess
<1>3. Translated' BY <1>1, FirstClient DEF Translated, Announced
<1>4. CompleteParts'
  <2>1. client'.ends = <<>> /\ Len(client'.ends) = 0 BY <1>1, FirstClient
  <2>2. client'.ends # <<"complete">> BY <2>1
  <2>3. \A i \in DOMAIN events' : ~Succeeded(events'[i]) BY DEF NoSuccess
  <2> QED BY <2>1, <2>2, <2>3, SentWhole DEF CompleteParts
<1> QED BY <1>2, <1>3, <1>4, CompleteFormNext DEF Answers

\* A step that changes nothing of the answer.
LEMMA RestKeeps ==
    ASSUME RouterInv, Routed', UNCHANGED <<pc, req, routes, attempt, client, enc, norm, buffered, events>>
    PROVE  Answers
<1>1. Told' BY DEF RouterInv, Told
<1>2. Translated' BY DEF RouterInv, Translated
<1>3. CompleteParts BY CompleteForm DEF RouterInv
<1>4. CompleteParts' BY <1>3 DEF CompleteParts
<1> QED BY <1>1, <1>2, <1>4, CompleteFormNext DEF Answers

\* The endings a client can be left with.
LEMMA Endings ==
    ASSUME NEW e
    PROVE  /\ e = <<>> => Len(e) <= 1 /\ e # <<"complete">>
           /\ e = <<"failed">> => Len(e) <= 1 /\ e # <<"complete">>
           /\ e = <<"refused">> => Len(e) <= 1 /\ e # <<"complete">>
           /\ e = <<"complete">> => Len(e) <= 1
<1>1. Len(<<>>) = 0 /\ Len(<<"failed">>) = 1 /\ Len(<<"refused">>) = 1 /\ Len(<<"complete">>) = 1 OBVIOUS
<1>2. <<"failed">>[1] = "failed" /\ <<"refused">>[1] = "refused" /\ <<"complete">>[1] = "complete" OBVIOUS
<1>3. <<"failed">> # <<"complete">> /\ <<"refused">> # <<"complete">> BY <1>2
<1>4. <<>> # <<"complete">> BY <1>1
<1>5. e = <<>> => Len(e) <= 1 /\ e # <<"complete">> BY <1>1, <1>4
<1>6. e = <<"failed">> => Len(e) <= 1 /\ e # <<"complete">> BY <1>1, <1>3
<1>7. e = <<"refused">> => Len(e) <= 1 /\ e # <<"complete">> BY <1>1, <1>3
<1>8. e = <<"complete">> => Len(e) <= 1 BY <1>1
<1> QED BY <1>5, <1>6, <1>7, <1>8

\* A step of a stream.
LEMMA ResultKeeps ==
    ASSUME RouterInv, Result, Routed', norm' \in NormRow, EventsFit(buffered'), req' = req
    PROVE  Answers
<1>1. client' \in ClientRow /\ events' \in Seq(EventRow) /\ enc' \in EncRow BY DEF Result
<1>2. pc' \in {"stream", "end"} BY DEF Result, GoesOn, Over
<1>3. pc' # "end" => client'.ends = <<>> /\ NoSuccess(events') BY DEF Result, Over
<1>4. Told' BY <1>1, <1>2, <1>3 DEF Told, NoSuccess
<1>5. Translated' BY <1>1 DEF Result, Translated
<1>6. /\ Len(client'.ends) <= 1
      /\ req.stream /\ client'.ends = <<"complete">> => Whole(client', enc', norm', req.source)
      /\ \A i \in DOMAIN events' : Succeeded(events'[i]) => client'.ends = <<"complete">>
  <2>1. CASE (client'.ends = <<>> \/ client'.ends = <<"failed">>) /\ NoSuccess(events')
    <3>1. Len(client'.ends) <= 1 /\ client'.ends # <<"complete">> BY <2>1, Endings
    <3>2. \A i \in DOMAIN events' : ~Succeeded(events'[i]) BY <2>1 DEF NoSuccess
    <3> QED BY <3>1, <3>2
  <2>2. CASE client'.ends = <<"complete">> /\ Whole(client', enc', norm', req.source)
    <3>1. Len(client'.ends) <= 1 BY <2>2, Endings
    <3> QED BY <2>2, <3>1
  <2> QED BY <2>1, <2>2 DEF Result
<1>7. CompleteParts' BY <1>6, SentWhole DEF CompleteParts
<1> QED BY <1>4, <1>5, <1>7, CompleteFormNext DEF Answers

LEMMA InStreaming ==
    ASSUME RouterInv, pc # "end"
    PROVE  /\ NoSuccess(events) /\ attempt \in Nat /\ Streaming
           /\ client \in ClientRow /\ client.ends = <<>> /\ norm \in NormRow /\ enc \in EncRow /\ EventsFit(buffered)
           /\ req.source = "responses" => Announced(client, enc, norm)
BY DEF RouterInv, Told, Routed, Translated, NoSuccess, Streaming

LEMMA StreamStartResult == RouterInv /\ StreamStart => Result
<1> SUFFICES ASSUME RouterInv, StreamStart PROVE Result OBVIOUS
<1>1. pc = "begin" /\ norm' = norm BY DEF StreamStart
<1>2. client = NewClient /\ client.added = {} BY <1>1, FirstClient DEF RouterInv, Told
<1>3. /\ Streaming /\ client \in ClientRow /\ client.ends = <<>> /\ norm \in NormRow /\ enc \in EncRow
      /\ EventsFit(buffered)
  BY <1>1, InStreaming
<1>4. CASE StreamEnds("plain") /\ UNCHANGED <<enc, client>>
  <2>1. Over BY <1>4, StreamEnding
  <2>2. NoSuccess(events') BY <1>3, <1>4, EndReported DEF Streaming
  <2> QED BY <1>2, <1>3, <1>4, <2>1, <2>2 DEF Result, NoSuccess, Announced
<1>5. CASE Deliver(applyIndexHints(enc, norm), [client EXCEPT !.bytes = TRUE], buffered)
  <2> DEFINE e == applyIndexHints(enc, norm)
             c == [client EXCEPT !.bytes = TRUE]
  <2>1. e \in EncRow BY <1>3, HintsFit
  <2>2. c \in ClientRow /\ c.ends = <<>> /\ c.added = {} BY <1>2, <1>3 DEF ClientRow
  <2> HIDE DEF e, c
  <2>3. Announced(c, e, norm') BY <2>2 DEF Announced
  <2>4. Deliver(e, c, buffered) BY <1>5 DEF e, c
  <2> QED BY <1>3, <2>1, <2>2, <2>3, <2>4, DeliverResult
<1> QED BY <1>4, <1>5 DEF StreamStart

LEMMA StreamReadResult == RouterInv /\ StreamRead => Result /\ norm' \in NormRow
<1> SUFFICES ASSUME RouterInv, StreamRead PROVE Result /\ norm' \in NormRow OBVIOUS
<1>1. pc = "read" BY DEF StreamRead
<1>2. /\ Streaming /\ client \in ClientRow /\ client.ends = <<>> /\ norm \in NormRow /\ enc \in EncRow
      /\ req.source = "responses" => Announced(client, enc, norm)
  BY <1>1, InStreaming
<1>3. PICK line \in Line(routes[attempt]) :
        LET read == nextStreamEvents(routes[attempt], norm, line) IN norm' = read.n /\ Handled(read)
  BY Handling
<1> DEFINE read == nextStreamEvents(routes[attempt], norm, line)
<1>4. routes[attempt] \in Protocols
  <2>1. attempt \in 1 .. Len(routes) /\ routes \in Seq(Protocols) BY <1>1 DEF RouterInv, Routed, Serving
  <2> QED BY <2>1
<1>5. ReadFits(read, norm) BY <1>2, <1>4, LineFits
<1>6. norm' = read.n /\ Handled(read) BY <1>3
<1> HIDE DEF read
<1>7. norm' \in NormRow /\ EventsFit(read.events) BY <1>5, <1>6 DEF ReadFits
<1>8. req.source = "responses" => Announced(client, enc, norm')
  BY <1>2, <1>5, <1>6 DEF Announced, ClaimsIndex, ReadFits
<1> DEFINE e == applyIndexHints(enc, norm')
<1>9. /\ e \in EncRow /\ \A c \in Call : enc.callAt[c] # Unset => e.callAt[c] # Unset
      /\ e.textStarted = enc.textStarted
  BY <1>2, <1>7, HintsFit
<1> HIDE DEF e
<1>10. req.source = "responses" => Announced(client, e, norm') BY <1>8, <1>9 DEF Announced, ClaimsIndex
<1>11. CASE read.err = "done" /\ StreamDone(read.n) /\ UNCHANGED enc
  <2>1. StreamDone(norm') BY <1>6, <1>11
  <2> QED BY <1>2, <1>7, <1>8, <1>11, <2>1, DoneResult
<1>12. CASE /\ FailClient(client) /\ UNCHANGED <<enc, faults>>
            /\ \E err \in {"plain", "context"} : StreamEnds(err)
  <2>1. PICK err \in {"plain", "context"} : StreamEnds(err) BY <1>12
  <2>2. Over /\ NoSuccess(events') BY <1>2, <2>1, StreamEnding, EndReported DEF Streaming
  <2>3. client' \in ClientRow /\ (client'.ends = <<>> \/ client'.ends = <<"failed">>) /\ client'.added = client.added
    BY <1>2, <1>12, FailFits
  <2> QED BY <1>2, <1>7, <1>8, <1>12, <2>2, <2>3 DEF Result, NoSuccess, Announced
<1>13. CASE read.thoughts # <<>> /\ Show(applyIndexHints(enc, read.n), read.thoughts)
  <2>1. Show(e, read.thoughts) BY <1>6, <1>13 DEF e
  <2>2. /\ read.thoughts[1].id \in Thought /\ read.thoughts[1].ix \in Index
        /\ norm'.thoughtAt[read.thoughts[1].id] # Unset
    BY <1>5, <1>6, <1>13 DEF ReadFits
  <2> QED BY <1>2, <1>7, <1>9, <1>10, <1>13, <2>1, <2>2, ShowResult
<1>14. CASE Deliver(applyIndexHints(enc, read.n), client, read.events)
  <2>1. Deliver(e, client, read.events) BY <1>6, <1>14 DEF e
  <2> QED BY <1>2, <1>7, <1>9, <1>10, <2>1, DeliverResult
<1> QED BY <1>6, <1>11, <1>12, <1>13, <1>14 DEF Handled

\* What an attempt that failed reports.
LEMMA AgainReported ==
    ASSUME NoSuccess(events), attempt \in Nat, NEW err, events' = emit("attempt_finished", attempt, "failed", err)
    PROVE  NoSuccess(events')
BY EmitFits DEF EventTypes, Outcomes

\* Dispatch, up to the first byte.
LEMMA DispatchKeeps ==
    ASSUME RouterInv, Routed',
           Admit \/ Select \/ Exhausted \/ ResolveFails \/ CredentialFails \/ EncodeFails \/ Connect \/ DoFails
              \/ Rejected \/ Answered \/ StreamOpened \/ FirstRead \/ Commit
    PROVE  Answers
<1>1. /\ pc \notin {"stream", "read", "end"} /\ UNCHANGED <<client, enc>>
  BY DEF Admit, Select, Exhausted, ResolveFails, CredentialFails, EncodeFails, Connect, DoFails, Rejected, Answered,
         StreamOpened, FirstRead, Commit
<1>2. NoSuccess(events) /\ attempt \in Nat /\ norm \in NormRow /\ EventsFit(buffered) BY <1>1, InStreaming
<1> SUFFICES norm' \in NormRow /\ EventsFit(buffered') /\ NoSuccess(events') BY <1>1, UntoldKeeps
<1>3. CASE Admit
  <2>1. events' = emit("request_started", 1, "success", "none") /\ UNCHANGED <<norm, buffered>> BY <1>3 DEF Admit
  <2> QED BY <1>2, <2>1, EmitFits DEF EventTypes, Outcomes
<1>4. CASE Select
  <2>1. UNCHANGED <<norm, buffered>> BY <1>4 DEF Select
  <2>2. \/ events' = events
        \/ events' = emit("route_selected", attempt + 1, IF attempt > 0 THEN "fallback" ELSE "success", "none")
    BY <1>4 DEF Select
  <2>3. NoSuccess(emit("route_selected", attempt + 1, IF attempt > 0 THEN "fallback" ELSE "success", "none"))
    <3> DEFINE outcome == IF attempt > 0 THEN "fallback" ELSE "success"
    <3>1. attempt + 1 \in Nat /\ outcome \in Outcomes BY <1>2 DEF Outcomes
    <3> HIDE DEF outcome
    <3>2. NoSuccess(emit("route_selected", attempt + 1, outcome, "none")) BY <1>2, <3>1, EmitFits DEF EventTypes
    <3> QED BY <3>2 DEF outcome
  <2> QED BY <1>2, <2>1, <2>2, <2>3
<1>5. CASE Exhausted \/ EncodeFails \/ Connect
  BY <1>2, <1>5 DEF Exhausted, EncodeFails, Connect
<1>6. CASE ResolveFails
  <2>1. UNCHANGED <<norm, buffered>> /\ events' = emit("attempt_finished", attempt, "failed", "connection")
    BY <1>6 DEF ResolveFails, Again
  <2> QED BY <1>2, <2>1, AgainReported
<1>7. CASE CredentialFails
  <2>1. UNCHANGED <<norm, buffered>> /\ events' = emit("attempt_finished", attempt, "failed", "credential")
    BY <1>7 DEF CredentialFails
  <2> QED BY <1>2, <2>1, AgainReported
<1>8. CASE DoFails
  <2>1. UNCHANGED <<norm, buffered>> BY <1>8 DEF DoFails
  <2>2. events' = events \/ \E err : events' = emit("attempt_finished", attempt, "failed", err)
    BY <1>8 DEF DoFails, Again
  <2> QED BY <1>2, <2>1, <2>2, AgainReported
<1>9. CASE Rejected
  <2>1. UNCHANGED <<norm, buffered>> BY <1>9 DEF Rejected
  <2>2. \E err : events' = emit("attempt_finished", attempt, "failed", err) BY <1>9 DEF Rejected, Again
  <2> QED BY <1>2, <2>1, <2>2, AgainReported
<1>10. CASE Answered
  <2>1. UNCHANGED <<norm, buffered>> BY <1>10 DEF Answered
  <2>2. events' = events \/ events' = emit("attempt_finished", attempt, "failed", "timeout")
    BY <1>10 DEF Answered, Again
  <2> QED BY <1>2, <2>1, <2>2, AgainReported
<1>11. CASE StreamOpened BY <1>2, <1>11, FirstNorm DEF StreamOpened
<1>12. CASE FirstRead
  <2>1. events' = events /\ pc = "prepare" BY <1>12 DEF FirstRead
  <2>2. PICK line \in Line(routes[attempt]) :
          LET read == nextStreamEvents(routes[attempt], norm, line) IN norm' = read.n /\ prepareStream(read)
    BY <1>12 DEF FirstRead
  <2> DEFINE read == nextStreamEvents(routes[attempt], norm, line)
  <2>3. attempt \in 1 .. Len(routes) /\ routes \in Seq(Protocols) BY <2>1 DEF RouterInv, Routed, Trying
  <2>4. routes[attempt] \in Protocols BY <2>3
  <2>5. ReadFits(read, norm) BY <1>2, <2>4, LineFits
  <2>6. norm' = read.n /\ prepareStream(read) BY <2>2
  <2> HIDE DEF read
  <2>7. buffered' = buffered \/ buffered' = read.events BY <2>6 DEF prepareStream
  <2> QED BY <1>2, <2>1, <2>5, <2>6, <2>7 DEF ReadFits
<1>13. CASE Commit
  <2>1. norm' = norm BY <1>13 DEF Commit
  <2>2. \/ buffered' = buffered /\ events' = events
        \/ buffered' = <<>> /\ \E err : events' = emit("attempt_finished", attempt, "failed", err)
    BY <1>13 DEF Commit, Again
  <2> QED BY <1>2, <2>1, <2>2, AgainReported, NoEvents
<1> QED BY <1>3, <1>4, <1>5, <1>6, <1>7, <1>8, <1>9, <1>10, <1>11, <1>12, <1>13

\* The ends that are not a stream's.
LEMMA EndKeeps ==
    ASSUME RouterInv, Routed', Refuse \/ Answer \/ Failed
    PROVE  Answers
<1>1. pc' = "end" /\ pc \notin {"stream", "read", "end"} /\ UNCHANGED <<req, enc, norm, buffered>>
  BY DEF Refuse, Answer, Failed
<1>2. client = NewClient BY <1>1 DEF RouterInv, Told
<1>3. /\ NoSuccess(events) /\ attempt \in Nat /\ client \in ClientRow /\ client.ends = <<>> /\ client.added = {}
      /\ norm \in NormRow /\ EventsFit(buffered) /\ enc \in EncRow
  BY <1>1, <1>2, InStreaming, FirstClient
<1>4. \A s : NoSuccess(s) => s \in Seq(EventRow) BY DEF NoSuccess
<1>5. /\ client' \in ClientRow /\ client'.added = {} /\ events' \in Seq(EventRow)
      /\ \/ (client'.ends = <<>> \/ client'.ends = <<"failed">> \/ client'.ends = <<"refused">>) /\ NoSuccess(events')
         \/ client'.ends = <<"complete">> /\ ~req.stream
  <2>1. CASE Refuse
    <3>1. client' = Ended(client, "refused") /\ events' = events BY <2>1 DEF Refuse
    <3>2. client' \in ClientRow /\ client'.ends = <<"refused">> /\ client'.added = {} BY <1>3, <3>1, EndedFits DEF EndWords
    <3> QED BY <1>3, <1>4, <3>1, <3>2
  <2>2. CASE Failed
    <3>1. FailClient(client) BY <2>2 DEF Failed
    <3>2. client' \in ClientRow /\ (client'.ends = <<>> \/ client'.ends = <<"failed">>) /\ client'.added = {}
      BY <1>3, <3>1, FailFits
    <3>3. \/ events' = emit("request_cancelled", attempt, "cancelled", "cancelled")
          \/ events' = emit("request_finished", attempt, "failed", failure)
      BY <2>2 DEF Failed
    <3>4. NoSuccess(events') BY <1>3, <3>3, EmitFits DEF EventTypes, Outcomes
    <3> QED BY <1>4, <3>2, <3>4
  <2>3. CASE Answer
    <3>1. pc = "answer" /\ ~req.stream BY <2>3 DEF Answer, RouterInv, Routed
    <3>2. CASE failure' # "none"
      <4>1. events' = RequestFinished(attempt, "failed", failure') /\ FailClient(client) BY <2>3, <3>2 DEF Answer
      <4>2. NoSuccess(events') BY <1>3, <4>1, FinishedFits
      <4>3. client' \in ClientRow /\ (client'.ends = <<>> \/ client'.ends = <<"failed">>) /\ client'.added = {}
        BY <1>3, <4>1, FailFits
      <4> QED BY <1>4, <4>2, <4>3
    <3>3. CASE failure' = "none"
      <4>1. PICK ok \in BOOLEAN :
              /\ WriteSourceResponse(ok)
              /\ events' = IF ok THEN RequestFinished(attempt, "success", "none") ELSE events
        BY <2>3, <3>3 DEF Answer
      <4>2. CASE ok = TRUE
        <5>1. client' = Ended(client, "complete") /\ events' = RequestFinished(attempt, "success", "none")
          BY <4>1, <4>2 DEF WriteSourceResponse
        <5>2. client' \in ClientRow /\ client'.ends = <<"complete">> /\ client'.added = {}
          BY <1>3, <5>1, EndedFits DEF EndWords
        <5>3. events' \in Seq(EventRow) BY <1>3, <5>1, FinishedFits
        <5> QED BY <3>1, <5>2, <5>3
      <4>3. CASE ok = FALSE
        <5>1. client' = client /\ events' = events BY <4>1, <4>3 DEF WriteSourceResponse
        <5> QED BY <1>3, <1>4, <5>1
      <4> QED BY <4>2, <4>3
    <3> QED BY <3>2, <3>3
  <2> QED BY <2>1, <2>2, <2>3
<1>6. Told' BY <1>1, <1>5 DEF Told
<1>7. Translated' BY <1>1, <1>3, <1>5 DEF Translated, Announced
<1>8. /\ Len(client'.ends) <= 1
      /\ req.stream => client'.ends # <<"complete">>
      /\ \A i \in DOMAIN events' : Succeeded(events'[i]) => client'.ends = <<"complete">>
  <2>1. CASE (client'.ends = <<>> \/ client'.ends = <<"failed">> \/ client'.ends = <<"refused">>) /\ NoSuccess(events')
    <3>1. Len(client'.ends) <= 1 /\ client'.ends # <<"complete">> BY <2>1, Endings
    <3>2. \A i \in DOMAIN events' : ~Succeeded(events'[i]) BY <2>1 DEF NoSuccess
    <3> QED BY <3>1, <3>2
  <2>2. CASE client'.ends = <<"complete">> /\ ~req.stream
    <3>1. Len(client'.ends) <= 1 BY <2>2, Endings
    <3> QED BY <2>2, <3>1
  <2> QED BY <1>5, <2>1, <2>2
<1>9. CompleteParts' BY <1>1, <1>8, SentWhole DEF CompleteParts
<1> QED BY <1>6, <1>7, <1>9, CompleteFormNext DEF Answers

LEMMA LoopKeeps ==
    ASSUME RouterInv, Routed', StreamLoop
    PROVE  Answers
<1>1. pc = "stream" /\ UNCHANGED <<req, norm, enc, client, buffered>> BY DEF StreamLoop
<1>2. /\ Streaming /\ NoSuccess(events) /\ attempt \in Nat /\ client \in ClientRow /\ client.ends = <<>>
      /\ norm \in NormRow /\ enc \in EncRow /\ EventsFit(buffered)
      /\ req.source = "responses" => Announced(client, enc, norm)
  BY <1>1, InStreaming
<1>3. (pc' = "read" /\ events' = events) \/ StreamEnds("context") BY DEF StreamLoop
<1>4. NoSuccess(events') BY <1>2, <1>3, EndReported
<1>5. pc' \in {"read", "end"} BY <1>3 DEF StreamEnds
<1>6. Told' BY <1>1, <1>2, <1>4, <1>5 DEF Told, NoSuccess
<1>7. Translated' BY <1>1, <1>2 DEF Translated
<1>8. CompleteParts'
  <2>1. Len(client'.ends) <= 1 /\ client'.ends # <<"complete">> BY <1>1, <1>2
  <2>2. \A i \in DOMAIN events' : ~Succeeded(events'[i]) BY <1>4 DEF NoSuccess
  <2> QED BY <2>1, <2>2, SentWhole DEF CompleteParts
<1> QED BY <1>6, <1>7, <1>8, CompleteFormNext DEF Answers

LEMMA RouterInits == RouterInit => RouterInv
<1> SUFFICES ASSUME RouterInit PROVE RouterInv OBVIOUS
<1>1. Resources BY DEF RouterInit, Resources, NoUpstream, Before, Trying, Serving
<1>2. Routed
  <2>1. req.needs = {} /\ req.stream = FALSE /\ routes = <<>> /\ attempt = 0 /\ pc = "idle" BY DEF RouterInit
  <2>2. <<>> \in Seq(Protocols) /\ Len(<<>>) = 0 OBVIOUS
  <2> QED BY <2>1, <2>2 DEF Routed, Trying, Serving
<1>3. /\ client = NewClient /\ enc = NewEncoder /\ norm = NewNormalizer /\ events = <<>> /\ buffered = <<>>
      /\ pc = "idle"
  BY DEF RouterInit
<1>4. <<>> \in Seq(EventRow) /\ Len(<<>>) = 0 OBVIOUS
<1>5. Told BY <1>3, <1>4, FirstClient DEF Told
<1>6. Translated BY <1>3, FirstClient, FirstNorm, NoEvents DEF Translated, Announced
<1>7. CompleteParts
  <2>1. client.ends = <<>> /\ Len(client.ends) = 0 /\ client.ends # <<"complete">> BY <1>3, FirstClient
  <2>2. \A i \in DOMAIN events : FALSE BY <1>3
  <2> QED BY <1>3, <2>1, <2>2 DEF CompleteParts
<1> QED BY <1>1, <1>2, <1>5, <1>6, <1>7, CompleteForm DEF RouterInv

LEMMA RouterSteps == RouterInv /\ [RouterNext]_routerVars => RouterInv'
<1> SUFFICES ASSUME RouterInv, [RouterNext]_routerVars PROVE RouterInv' OBVIOUS
<1>1. CASE UNCHANGED routerVars
  <2>1. UNCHANGED <<pc, req, routes, attempt, timer, watch, upstream, norm, enc, client, buffered, events>>
    BY <1>1 DEF routerVars
  <2>2. Resources' BY <2>1 DEF RouterInv, Resources
  <2>3. Routed' BY <2>1 DEF RouterInv, Routed
  <2>4. Answers BY <2>1, <2>3, RestKeeps
  <2> QED BY <2>2, <2>3, <2>4 DEF RouterInv, Answers
<1>2. CASE RouterNext
  <2>1. Resources' BY <1>2, ResourcesKept DEF RouterInv
  <2>2. Routed' BY <1>2, RoutedKept DEF RouterInv
  <2> SUFFICES Answers BY <2>1, <2>2 DEF RouterInv, Answers
  <2>3. CASE StartListener \/ ShutdownListener \/ Stopped \/ ContextEnds \/ TimerFires \/ WatchCloses \/ Rest
    <3>1. UNCHANGED <<pc, req, routes, attempt, client, enc, norm, buffered, events>>
      BY <2>3 DEF StartListener, ShutdownListener, Stopped, ContextEnds, TimerFires, WatchCloses, Rest, routerVars
    <3> QED BY <2>2, <3>1, RestKeeps
  <2>4. CASE Admit \/ Select \/ Exhausted \/ ResolveFails \/ CredentialFails \/ EncodeFails \/ Connect \/ DoFails
              \/ Rejected \/ Answered \/ StreamOpened \/ FirstRead \/ Commit
    BY <2>2, <2>4, DispatchKeeps
  <2>5. CASE Refuse \/ Answer \/ Failed BY <2>2, <2>5, EndKeeps
  <2>6. CASE StreamLoop BY <2>2, <2>6, LoopKeeps
  <2>7. CASE StreamStart
    <3>1. Result BY <2>7, StreamStartResult
    <3>2. norm' \in NormRow /\ EventsFit(buffered') /\ req' = req
      BY <2>7, NoEvents DEF StreamStart, RouterInv, Translated
    <3> QED BY <2>2, <3>1, <3>2, ResultKeeps
  <2>8. CASE StreamRead
    <3>1. Result /\ norm' \in NormRow BY <2>8, StreamReadResult
    <3>2. EventsFit(buffered') /\ req' = req BY <2>8 DEF StreamRead, RouterInv, Translated
    <3> QED BY <2>2, <3>1, <3>2, ResultKeeps
  <2> QED BY <1>2, <2>3, <2>4, <2>5, <2>6, <2>7, <2>8 DEF RouterNext
<1> QED BY <1>1, <1>2

\* In every state of a request the handler's place, the attempt's timer, watcher,
\* context and body, the routes, the translation of the stream and what the client
\* was told fit together: the inductive invariant of the router.
THEOREM RouterInvariant == RouterSpec => []RouterInv
BY RouterInits, RouterSteps, PTL DEF RouterSpec

\* An attempt's timer, watcher, context and body last as long as it does
\* (upstream.go dispatch, timerDidFire).
THEOREM AttemptsOwnTheirs == RouterSpec => []AttemptOwnsItsResources
<1>1. RouterInv => AttemptOwnsItsResources
  BY DEF RouterInv, Resources, AttemptOwnsItsResources, Before, Serving
<1> QED BY <1>1, RouterInvariant, PTL

\* What is said to be complete is complete, and what was asked for is what is
\* sent (upstream.go streamResponse, finish; policy.go selectRoutesFor).
THEOREM CompleteStays == RouterSpec => []CompleteIsComplete
<1>1. RouterInv => CompleteIsComplete BY DEF RouterInv
<1> QED BY <1>1, RouterInvariant, PTL

\* Once the client has been sent a byte no further route is selected
\* (upstream.go dispatch, streamResponse).
THEOREM NoFallbackOnceSent == RouterSpec => NoFallbackAfterFirstByte
<1>1. RouterInv /\ [RouterNext]_routerVars => [client.bytes => UNCHANGED attempt]_routerVars
  <2> SUFFICES ASSUME RouterInv, RouterNext, client.bytes PROVE UNCHANGED attempt
    OBVIOUS
  <2>1. pc \in {"stream", "read", "end"} BY FirstClient DEF RouterInv, Told
  <2>2. ~Select BY <2>1 DEF Select
  <2> QED BY <2>2 DEF RouterNext, StartListener, ShutdownListener, Stopped, ContextEnds, Admit, Refuse, Exhausted,
             ResolveFails, CredentialFails, EncodeFails, Connect, TimerFires, WatchCloses, DoFails, Rejected, Answered,
             StreamOpened, FirstRead, Commit, StreamStart, StreamLoop, StreamRead, Answer, Failed, Rest, routerVars
<1> QED BY <1>1, RouterInvariant, PTL DEF RouterSpec, NoFallbackAfterFirstByte
=============================================================================
