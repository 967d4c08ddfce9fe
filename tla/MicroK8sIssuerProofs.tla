------------------------ MODULE MicroK8sIssuerProofs ------------------------
(***************************************************************************)
(* Theorems about MicroK8sIssuer, for any number of issuances, terms,      *)
(* workspaces, Nodes, faults and outside changes.                          *)
(***************************************************************************)
EXTENDS MicroK8sIssuer, FiniteSetTheorems, TLAPS

-----------------------------------------------------------------------------
(* The inductive invariant. *)

PatchKind == {"assign", "hold", "drain", "rebootstrap"}
Kind == PatchKind \cup {"none", "issue", "revoke", "retire"}
IssueStep == {"revoke", "expire", "clear", "pending", "add", "record", "notePending", "noteRequired"}
RevokeStep == {"revoke", "expire", "revoked"}
StepName == IssueStep \cup RevokeStep \cup {"idle", "patch", "list", "delete"}
Want == [uid : 1 .. MaxUid] \cup [uid : 1 .. MaxUid, ws : Workspace] \cup [uid : 1 .. MaxUid, hold : Reason]
NodeArg == [want : Want, read : Node]
OpRow == [kind : Kind, step : StepName, arg : Request \cup NodeArg \cup {None}, at : Nat,
          from : {"none", "retry", "failed", "drop", "revoke"}, stale : BOOLEAN]

TypeOK ==
    /\ state \in [Issuance -> durableState \cup {None}]
    /\ file \in Seq(Line)
    /\ node \in Node \cup {None}
    /\ registry \in [listed : BOOLEAN, host : BOOLEAN] \cup {None}
    /\ op \in OpRow
    /\ bound \subseteq 1 .. MaxUid
    /\ gone \in BOOLEAN /\ appended \in Nat /\ uids \in 0 .. MaxUid

\* Where an operation can be, and what it works on.
Positioned ==
    /\ op.kind = "none" => op.step = "idle"
    /\ op.kind = "issue" => /\ op.step \in IssueStep /\ op.arg \in Request
                            /\ op.from \in {"retry", "failed", "drop"}
    /\ op.kind = "revoke" => op.step \in RevokeStep /\ op.arg \in Request /\ op.from = "revoke"
    /\ op.kind \in PatchKind => op.step = "patch" /\ op.arg \in NodeArg
    /\ op.kind = "retire" => op.step \in {"list", "delete"}

\* A record is kept under the identifier of its request; a running operation is
\* about the request on record; a token is added only to a pending record and
\* given up only when no line of it is live.
Keyed == \A i \in Issuance : state[i] # None => state[i].req.id = i
Working ==
    /\ op.kind \in {"issue", "revoke"} /\ state[op.arg.id] # None =>
          state[op.arg.id].req = op.arg
    /\ op.step \in {"add", "record"} => state[op.arg.id] \in durableState /\ state[op.arg.id].status = "pending"
    /\ op.step = "expire" /\ op.at # 0 => op.at \in Lines(op.arg)
    /\ op.step = "revoked" => ~Live(op.arg)
Unique == \A r \in Request : \A j, k \in Lines(r) : j = k
Foreign == \A k \in Lines(None) : file[k].expiry # "past"

\* A Node that is patched is the one that was read, checked as it must be; a name
\* is on the list before its Node goes, and stays there, and a Node that has come
\* back under it was flagged.
Checked ==
    /\ op.kind \in PatchKind /\ ~op.stale => node = op.arg.read
    /\ op.kind = "assign" => /\ ~op.arg.read.retired /\ op.arg.want \in [uid : 1 .. MaxUid, ws : Workspace]
                             /\ op.arg.read.ws \in {None, op.arg.want.ws}
    /\ op.kind = "hold" => op.arg.want \in [uid : 1 .. MaxUid, hold : Reason]
Listed ==
    /\ op.step = "delete" /\ registry # None => registry.listed
    /\ gone /\ registry # None => registry.listed /\ (node # None => node.flagged)

IssuerInv ==
    /\ TypeOK /\ Positioned /\ Keyed /\ Working /\ Unique /\ Foreign /\ Checked /\ Listed
    /\ LiveTokenIsRecorded /\ OtherTokensAreKept

-----------------------------------------------------------------------------
(* The token file. *)

\* The elements of a finite set of numbers, by their rank.
LEMMA Ranked ==
    ASSUME NEW m \in Nat, NEW S \in SUBSET (1 .. m)
    PROVE  /\ Cardinality(S) \in Nat
           /\ \A i \in 1 .. Cardinality(S) : \E k \in S : Cardinality({j \in S : j <= k}) = i
           /\ \A k \in S : Cardinality({j \in S : j <= k}) \in 1 .. Cardinality(S)
           /\ \A k, l \in S :
                 Cardinality({j \in S : j <= k}) = Cardinality({j \in S : j <= l}) => k = l
<1>. DEFINE Upto(k) == {j \in S : j <= k}
            n == Cardinality(S)
            rank == [k \in S |-> Cardinality(Upto(k))]
<1>1. IsFiniteSet(S) /\ n \in Nat /\ S \subseteq Int
  <2>1. IsFiniteSet(1 .. m)
    BY FS_Interval
  <2>2. IsFiniteSet(S)
    BY <2>1, FS_Subset
  <2>. QED  BY <2>2, FS_CardinalityType
<1>2. ASSUME NEW k \in S PROVE /\ IsFiniteSet(Upto(k)) /\ Cardinality(Upto(k)) \in 1 .. n
  <2>1. IsFiniteSet(Upto(k)) /\ Cardinality(Upto(k)) \in Nat /\ Cardinality(Upto(k)) <= n
    BY <1>1, FS_Subset, FS_CardinalityType
  <2>2. k \in Upto(k)
    OBVIOUS
  <2>3. Cardinality(Upto(k)) # 0
    BY <2>1, <2>2, FS_EmptySet
  <2>. QED  BY <1>1, <2>1, <2>3
<1>3. ASSUME NEW k \in S, NEW l \in S, Cardinality(Upto(k)) = Cardinality(Upto(l)), k < l
      PROVE  FALSE
  <2>1. Upto(k) \in SUBSET Upto(l)
    <3>1. \A j \in S : j <= k => j <= l
      BY <1>1, <1>3
    <3>. QED  BY <3>1
  <2>2. Upto(k) = Upto(l)
    BY <1>2, <1>3, <2>1, FS_Subset
  <2>3. l \in Upto(l) /\ l \notin Upto(k)
    BY <1>3
  <2>. QED  BY <2>2, <2>3
<1>4. ASSUME NEW k \in S, NEW l \in S, Cardinality(Upto(k)) = Cardinality(Upto(l)) PROVE k = l
  BY <1>3, <1>4
<1>5. rank \in Injection(S, 1 .. n)
  <2>1. rank \in [S -> 1 .. n]
    BY <1>2
  <2>2. \A k, l \in S : rank[k] = rank[l] => k = l
    BY <1>4
  <2>. QED  BY <2>1, <2>2, Zenon DEF Injection, IsInjective
<1>6. IsFiniteSet(1 .. n) /\ Cardinality(1 .. n) = n
  BY <1>1, FS_Interval
<1>7. rank \in Surjection(S, 1 .. n)
  BY <1>5, <1>6, FS_Injection
<1>8. \A i \in 1 .. n : \E k \in S : rank[k] = i
  BY <1>7, Zenon DEF Surjection
<1>. QED  BY <1>1, <1>2, <1>4, <1>8

\* A step that writes the file keeps it in order.
FileKept ==
    /\ file' \in Seq(Line) /\ Unique' /\ Foreign' /\ OtherTokensAreKept'
    /\ \A r \in Request : Live(r)' => Live(r)

\* The lines of a token can be counted.
LEMMA LinesFinite ==
    ASSUME file \in Seq(Line), NEW token
    PROVE  IsFiniteSet(Lines(token)) /\ Cardinality(Lines(token)) \in Nat
<1>1. Len(file) \in Nat /\ Lines(token) \in SUBSET (1 .. Len(file))
  BY DEF Lines
<1>2. IsFiniteSet(1 .. Len(file))
  BY <1>1, FS_Interval
<1>3. IsFiniteSet(Lines(token))
  BY <1>1, <1>2, FS_Subset
<1>. QED  BY <1>3, FS_CardinalityType

\* Lines that lapse or are expired stay where they are.
LEMMA FileInPlace ==
    ASSUME TypeOK, Unique, Foreign, OtherTokensAreKept, appended' = appended,
           file' \in Seq(Line), Len(file') = Len(file),
           \A k \in 1 .. Len(file) :
              /\ file'[k].token = file[k].token
              /\ (file'[k].expiry = file[k].expiry \/ (file[k].token # None /\ file'[k].expiry = "past"))
    PROVE  FileKept /\ \A token : Lines(token)' = Lines(token)
<1>1. \A token : Lines(token)' = Lines(token)
  BY DEF Lines
<1>2. Unique' /\ OtherTokensAreKept'
  BY <1>1 DEF Unique, OtherTokensAreKept
<1>3. Foreign'
  BY <1>1 DEF Foreign, Lines
<1>4. \A r \in Request : Live(r)' => Live(r)
  BY <1>1 DEF Live, Lines
<1>. QED  BY <1>1, <1>2, <1>3, <1>4 DEF FileKept

\* What becomes of the file facts: the file is left alone, ...
LEMMA FileSame ==
    ASSUME TypeOK, Unique, Foreign, OtherTokensAreKept, appended' = appended, file' = file
    PROVE  FileKept /\ \A token : Lines(token)' = Lines(token)
<1>1. /\ file' \in Seq(Line) /\ Len(file') = Len(file)
      /\ \A k \in 1 .. Len(file) : file'[k].token = file[k].token /\ file'[k].expiry = file[k].expiry
  BY DEF TypeOK
<1>. QED  BY <1>1, FileInPlace

\* ... the only line of a token is expired in place, ...
LEMMA FileExpired ==
    ASSUME TypeOK, Unique, Foreign, OtherTokensAreKept, appended' = appended,
           NEW r \in Request, NEW k \in Lines(r), file' = Expired(file, k)
    PROVE  FileKept /\ ~Live(r)'
<1>1. /\ file' \in Seq(Line) /\ Len(file') = Len(file) /\ k \in 1 .. Len(file)
      /\ file[k].token = r /\ r # None
      /\ file'[k].token = file[k].token /\ file'[k].expiry = "past"
      /\ \A j \in 1 .. Len(file) : j # k => file'[j] = file[j]
  <2>1. /\ file \in Seq(Line) /\ Len(file) \in Nat /\ k \in 1 .. Len(file) /\ file[k].token = r
        /\ file \in [1 .. Len(file) -> Line]
    BY DEF TypeOK, Lines
  <2>2. file' = [file EXCEPT ![k] = [file[k] EXCEPT !.expiry = "past"]]
    BY DEF Expired
  <2>. DEFINE l == [file[k] EXCEPT !.expiry = "past"]
  <2>3. l \in Line /\ l.token = r /\ l.expiry = "past"
    BY <2>1 DEF Line
  <2>4. file' \in [1 .. Len(file) -> Line] /\ file'[k] = l /\ \A j \in 1 .. Len(file) : j # k => file'[j] = file[j]
    <3>. HIDE DEF l
    <3>. QED  BY <2>1, <2>2, <2>3 DEF l
  <2>5. file' \in Seq(Line) /\ Len(file') = Len(file)
    BY <2>1, <2>2, <2>3
  <2>. QED  BY <2>1, <2>3, <2>4, <2>5, NoneAssumption
<1>2. FileKept
  <2>1. ASSUME NEW j \in 1 .. Len(file)
        PROVE  /\ file'[j].token = file[j].token
               /\ (file'[j].expiry = file[j].expiry \/ (file[j].token # None /\ file'[j].expiry = "past"))
    BY <1>1
  <2>. QED  BY <1>1, <2>1, FileInPlace
<1>3. ~Live(r)'
  BY <1>1 DEF Live, Lines, Unique
<1>. QED  BY <1>2, <1>3

\* ... every line of a token passes its expiry, ...
LEMMA FileLapsed ==
    ASSUME TypeOK, Unique, Foreign, OtherTokensAreKept, appended' = appended, NEW r \in Request,
           file' = [k \in 1 .. Len(file) |->
                      IF file[k].token = r THEN [file[k] EXCEPT !.expiry = "past"] ELSE file[k]]
    PROVE  FileKept /\ \A token : Lines(token)' = Lines(token)
<1>1. /\ Len(file) \in Nat /\ r # None /\ \A k \in 1 .. Len(file) : file[k] \in Line
  BY NoneAssumption DEF TypeOK
<1>2. file' \in [1 .. Len(file) -> Line]
  BY <1>1 DEF Line
<1>3. file' \in Seq(Line) /\ Len(file') = Len(file)
  BY <1>1, <1>2
<1>4. \A k \in 1 .. Len(file) :
         /\ file'[k].token = file[k].token
         /\ (file'[k].expiry = file[k].expiry \/ (file[k].token # None /\ file'[k].expiry = "past"))
  <2>. SUFFICES ASSUME NEW k \in 1 .. Len(file)
                PROVE  /\ file'[k].token = file[k].token
                       /\ (file'[k].expiry = file[k].expiry \/ (file[k].token # None /\ file'[k].expiry = "past"))
    OBVIOUS
  <2>1. file'[k] = IF file[k].token = r THEN [file[k] EXCEPT !.expiry = "past"] ELSE file[k]
    OBVIOUS
  <2>. QED  BY <1>1, <2>1 DEF Line
<1>. QED  BY <1>3, <1>4, FileInPlace

\* A line is appended: of MicroK8s itself, or of a token that has none.
LEMMA LinesAppended ==
    ASSUME file \in Seq(Line), NEW l \in Line, file' = Append(file, l)
    PROVE  /\ file' \in Seq(Line) /\ Len(file') = Len(file) + 1 /\ file'[Len(file) + 1] = l
           /\ \A k \in 1 .. Len(file) : file'[k] = file[k]
           /\ \A token : Lines(token)' =
                 IF l.token = token THEN Lines(token) \cup {Len(file) + 1} ELSE Lines(token)
           /\ \A token : Len(file) + 1 \notin Lines(token)
<1>1. /\ file' \in Seq(Line) /\ Len(file') = Len(file) + 1 /\ file'[Len(file) + 1] = l
      /\ \A k \in 1 .. Len(file) : file'[k] = file[k]
      /\ Len(file) \in Nat
  OBVIOUS
<1>2. \A k : k \in 1 .. Len(file') <=> k \in 1 .. Len(file) \/ k = Len(file) + 1
  BY <1>1
<1>3. ASSUME NEW token
      PROVE  Lines(token)' =
                 IF l.token = token THEN Lines(token) \cup {Len(file) + 1} ELSE Lines(token)
  BY <1>1, <1>2 DEF Lines
<1>. QED  BY <1>1, <1>3 DEF Lines

\* ... MicroK8s appends a line of its own, ...
LEMMA FileAppended ==
    ASSUME TypeOK, Unique, Foreign, OtherTokensAreKept, appended' = appended + 1,
           file' = Append(file, [token |-> None, expiry |-> "never"])
    PROVE  FileKept /\ \A r \in Request : Lines(r)' = Lines(r)
<1>. DEFINE l == [token |-> None, expiry |-> "never"]
<1>1. l \in Line /\ l.token = None /\ l.expiry = "never" /\ file \in Seq(Line)
  BY DEF Line, TypeOK
<1>2. /\ file' \in Seq(Line) /\ Len(file') = Len(file) + 1 /\ file'[Len(file) + 1] = l
      /\ \A k \in 1 .. Len(file) : file'[k] = file[k]
      /\ \A r \in Request : Lines(r)' = Lines(r)
      /\ Lines(None)' = Lines(None) \cup {Len(file) + 1} /\ Len(file) + 1 \notin Lines(None)
  BY <1>1, LinesAppended, NoneAssumption
<1>3. Unique'
  BY <1>2 DEF Unique
<1>4. Foreign'
  BY <1>1, <1>2 DEF Foreign, Lines
<1>5. OtherTokensAreKept'
  BY <1>1, <1>2, LinesFinite, FS_AddElement DEF OtherTokensAreKept
<1>6. \A r \in Request : Live(r)' => Live(r)
  BY <1>2 DEF Live, Lines
<1>. QED  BY <1>2, <1>3, <1>4, <1>5, <1>6 DEF FileKept

\* ... or the issuer appends the first line of a token.
LEMMA FileAdded ==
    ASSUME TypeOK, Unique, Foreign, OtherTokensAreKept, appended' = appended,
           NEW r \in Request, Lines(r) = {},
           file' = Append(file, [token |-> r, expiry |-> "future"])
    PROVE  /\ file' \in Seq(Line) /\ Unique' /\ Foreign' /\ OtherTokensAreKept'
           /\ \A q \in Request \ {r} : Live(q)' => Live(q)
<1>. DEFINE l == [token |-> r, expiry |-> "future"]
<1>1. l \in Line /\ l.token = r /\ file \in Seq(Line) /\ r # None
  BY NoneAssumption DEF Line, TypeOK
<1>2. /\ file' \in Seq(Line) /\ Len(file') = Len(file) + 1
      /\ \A k \in 1 .. Len(file) : file'[k] = file[k]
      /\ \A q \in Request \ {r} : Lines(q)' = Lines(q)
      /\ Lines(r)' = {Len(file) + 1} /\ Lines(None)' = Lines(None)
  BY <1>1, LinesAppended
<1>3. Unique'
  BY <1>2 DEF Unique
<1>4. Foreign'
  BY <1>1, <1>2 DEF Foreign, Lines
<1>5. OtherTokensAreKept'
  BY <1>2 DEF OtherTokensAreKept
<1>6. \A q \in Request \ {r} : Live(q)' => Live(q)
  BY <1>2 DEF Live, Lines
<1>. QED  BY <1>2, <1>3, <1>4, <1>5, <1>6

\* MicroK8s drops the expired lines and keeps the others once each.
LEMMA FilePurged ==
    ASSUME TypeOK, Unique, Foreign, OtherTokensAreKept, appended' = appended, file' = Purged
    PROVE  FileKept
<1>. DEFINE kept == {k \in 1 .. Len(file) : file[k].expiry # "past"}
            n == Cardinality(kept)
            g == [i \in 1 .. n |-> CHOOSE k \in kept : Cardinality({j \in kept : j <= k}) = i]
<1>1. file \in Seq(Line) /\ Len(file) \in Nat /\ kept \in SUBSET (1 .. Len(file))
  BY DEF TypeOK
<1>2. /\ n \in Nat
      /\ \A i \in 1 .. n : \E k \in kept : Cardinality({j \in kept : j <= k}) = i
      /\ \A k \in kept : Cardinality({j \in kept : j <= k}) \in 1 .. n
      /\ \A k, l \in kept :
            Cardinality({j \in kept : j <= k}) = Cardinality({j \in kept : j <= l}) => k = l
  <2>. HIDE DEF kept
  <2>. QED  BY <1>1, Ranked
<1>3. \A i \in 1 .. n : g[i] \in kept /\ Cardinality({j \in kept : j <= g[i]}) = i
  <2>. HIDE DEF kept
  <2>. QED  BY <1>2
<1>4. \A i, j \in 1 .. n : g[i] = g[j] => i = j
  <2>. HIDE DEF kept, g
  <2>. QED  BY <1>3
<1>5. \A k \in kept : \E i \in 1 .. n : g[i] = k
  <2>. HIDE DEF kept, g
  <2>. QED  BY <1>2, <1>3
<1>6. /\ file' = [i \in 1 .. n |-> file[g[i]]]
  BY DEF Purged
<1>. HIDE DEF g, n
<1>7. file' \in [1 .. n -> Line]
  <2>1. \A i \in 1 .. n : file[g[i]] \in Line
    <3>1. \A i \in 1 .. n : g[i] \in 1 .. Len(file)
      BY <1>3
    <3>. QED  BY <1>1, <3>1
  <2>. QED  BY <1>6, <2>1
<1>8. file' \in Seq(Line) /\ Len(file') = n
  BY <1>2, <1>6, <1>7
<1>9. \A token : \A i : i \in Lines(token)' <=> i \in 1 .. n /\ g[i] \in Lines(token)
  BY <1>3, <1>6, <1>8 DEF Lines
<1>10. Unique'
  BY <1>4, <1>9 DEF Unique
<1>11. Foreign'
  BY <1>3, <1>6, <1>9 DEF Foreign
<1>12. \A r \in Request : Live(r)' => Live(r)
  BY <1>3, <1>6, <1>9 DEF Live
<1>13. OtherTokensAreKept'
  <2>. DEFINE h == [i \in Lines(None)' |-> g[i]]
  <2>1. h \in [Lines(None)' -> Lines(None)]
    BY <1>9
  <2>2. \A i, j \in Lines(None)' : h[i] = h[j] => i = j
    BY <1>4, <1>9
  <2>3. \A k \in Lines(None) : \E i \in Lines(None)' : h[i] = k
    <3>1. Lines(None) \subseteq kept
      BY DEF Foreign, Lines
    <3>. QED  BY <1>5, <1>9, <3>1
  <2>4. h \in Bijection(Lines(None)', Lines(None))
    BY <2>1, <2>2, <2>3, Zenon DEF Bijection, Injection, Surjection, IsInjective
  <2>5. IsFiniteSet(Lines(None)')
    <3>1. Lines(None)' \in SUBSET (1 .. n)
      BY <1>9
    <3>2. IsFiniteSet(1 .. n)
      BY <1>2, FS_Interval
    <3>. QED  BY <3>1, <3>2, FS_Subset
  <2>. QED  BY <2>4, <2>5, FS_Bijection DEF OtherTokensAreKept, ExistsBijection
<1>. QED  BY <1>8, <1>10, <1>11, <1>12, <1>13 DEF FileKept

-----------------------------------------------------------------------------
(* The invariant in four parts: the file, the records, the running         *)
(* operation, and the Node with the list of retired names.                 *)

FilePart == file \in Seq(Line) /\ Unique /\ Foreign /\ OtherTokensAreKept
RecordPart == state \in [Issuance -> durableState \cup {None}] /\ Keyed /\ LiveTokenIsRecorded
OpPart == op \in OpRow /\ Positioned /\ Working
NodePart ==
    /\ node \in Node \cup {None}
    /\ registry \in [listed : BOOLEAN, host : BOOLEAN] \cup {None}
    /\ bound \subseteq 1 .. MaxUid
    /\ gone \in BOOLEAN /\ appended \in Nat /\ uids \in 0 .. MaxUid
    /\ Checked /\ Listed

\* The parts make up the invariant, after a step as before it.
LEMMA Parts ==
    ASSUME FilePart', RecordPart', OpPart', NodePart'
    PROVE  IssuerInv'
  BY DEF IssuerInv, TypeOK, FilePart, RecordPart, OpPart, NodePart

\* What the file lemmas and the step lemmas use of the invariant.
LEMMA FileFacts ==
    ASSUME IssuerInv
    PROVE  TypeOK /\ Unique /\ Foreign /\ OtherTokensAreKept
  BY DEF IssuerInv

\* A step that keeps the file in order and no record keeps what is recorded.
LEMMA RecordsSame ==
    ASSUME IssuerInv, FileKept, state' = state
    PROVE  FilePart' /\ RecordPart'
<1>1. FilePart'
  BY DEF FileKept, FilePart
<1>2. state' \in [Issuance -> durableState \cup {None}] /\ Keyed'
  BY DEF IssuerInv, TypeOK, Keyed
<1>3. LiveTokenIsRecorded'
  BY DEF IssuerInv, LiveTokenIsRecorded, FileKept
<1>. QED  BY <1>1, <1>2, <1>3 DEF RecordPart

\* writeState replaces the record of the request the operation is about.
LEMMA RecordsWritten ==
    ASSUME IssuerInv, file' = file, appended' = appended, op.kind \in {"issue", "revoke"}, NEW status \in Status,
           status = "revoked" => ~Live(op.arg),
           state' = [state EXCEPT ![op.arg.id] = Record(op.arg, status)]
    PROVE  FilePart' /\ RecordPart' /\ state'[op.arg.id] = Record(op.arg, status)
<1>1. FileKept
  BY FileFacts, FileSame
<1>2. /\ op.arg \in Request /\ op.arg.id \in Issuance /\ Record(op.arg, status) \in durableState
      /\ Record(op.arg, status).req = op.arg /\ Record(op.arg, status).status = status
  BY DEF IssuerInv, Positioned, Request, Record, durableState
<1>3. state \in [Issuance -> durableState \cup {None}]
  BY DEF IssuerInv, TypeOK
<1>4. /\ state' \in [Issuance -> durableState \cup {None}]
      /\ state'[op.arg.id] = Record(op.arg, status)
      /\ \A i \in Issuance : i # op.arg.id => state'[i] = state[i]
  BY <1>2, <1>3
<1>5. Keyed'
  BY <1>2, <1>4 DEF IssuerInv, Keyed
<1>6. ASSUME NEW r \in Request, Live(r)'
      PROVE  /\ state'[r.id] # None /\ state'[r.id].req = r
             /\ state'[r.id].status \in {"pending", "issued", "revoke_required"}
  <2>1. /\ Live(r) /\ r.id \in Issuance /\ state[r.id] # None /\ state[r.id].req = r
        /\ state[r.id].status \in {"pending", "issued", "revoke_required"}
    BY <1>1, <1>6 DEF FileKept, IssuerInv, LiveTokenIsRecorded, Request
  <2>2. CASE r.id # op.arg.id
    BY <1>4, <2>1, <2>2
  <2>3. CASE r.id = op.arg.id
    <3>1. r = op.arg
      BY <2>1, <2>3 DEF IssuerInv, Working
    <3>2. status \in {"pending", "issued", "revoke_required"}
      BY <2>1, <3>1 DEF Status
    <3>3. Record(op.arg, status) # None
      BY <1>2, NoneAssumption
    <3>. QED  BY <1>2, <1>4, <2>3, <3>1, <3>2, <3>3
  <2>. QED  BY <2>2, <2>3
<1>7. LiveTokenIsRecorded'
  BY <1>6 DEF LiveTokenIsRecorded
<1>8. FilePart'
  BY <1>1 DEF FileKept, FilePart
<1>. QED  BY <1>4, <1>5, <1>7, <1>8 DEF RecordPart

\* The Node's part is left alone by the operations on credentials.
LEMMA NodeSame ==
    ASSUME IssuerInv, UNCHANGED <<node, registry, bound, gone, appended, uids>>,
           op'.kind \in {"none", "issue", "revoke"}, op'.step # "delete"
    PROVE  NodePart'
  BY DEF IssuerInv, TypeOK, NodePart, Checked, Listed, PatchKind

\* An operation that ends leaves nothing to keep.
LEMMA Ends ==
    ASSUME IssuerInv, Done
    PROVE  OpPart' /\ op'.kind = "none" /\ op'.step = "idle"
  BY DEF Done, Idle, OpPart, OpRow, Positioned, Working, Kind, StepName, PatchKind

\* Where a revocation leads when it succeeded, and when it did not.
LEMMA RevokedMoves ==
    ASSUME IssuerInv, state' = state, op.step \in {"revoke", "expire"}, Revoked,
           NEW r \in Request, op.arg = r, ~Live(r)'
    PROVE  OpPart' /\ op'.kind \in {"none", "issue", "revoke"} /\ op'.step # "delete"
<1>1. op.kind \in {"issue", "revoke"} /\ op \in OpRow
  BY DEF IssuerInv, TypeOK, Positioned, OpRow, Kind, PatchKind
<1>2. CASE op.from = "drop"
  BY <1>2, Ends DEF Revoked
<1>3. CASE op.from # "drop"
  <2>1. PICK step \in {"clear", "notePending", "revoked"} :
           /\ op' = [op EXCEPT !.step = step]
           /\ op.from = "retry" => step = "clear"
           /\ op.from = "failed" => step = "notePending"
           /\ op.from = "revoke" => step = "revoked"
    BY <1>1, <1>3 DEF Revoked, Goto, IssuerInv, Positioned
  <2>2. /\ op' \in OpRow /\ op'.kind = op.kind /\ op'.arg = op.arg /\ op'.from = op.from /\ op'.step = step
    BY <1>1, <2>1 DEF OpRow, StepName, IssueStep, RevokeStep
  <2>3. Positioned'
    BY <1>1, <1>3, <2>1, <2>2 DEF IssuerInv, Positioned, IssueStep, RevokeStep, PatchKind
  <2>4. Working'
    BY <1>1, <2>2 DEF IssuerInv, Working, Live, Lines
  <2>. QED  BY <1>1, <2>2, <2>3, <2>4 DEF OpPart
<1>. QED  BY <1>2, <1>3

\* A revocation that fails ends the operation, or goes on to note that it is required.
LEMMA NotRevokedMoves ==
    ASSUME IssuerInv, state' = state, op.step \in {"revoke", "expire"}, NotRevoked
    PROVE  OpPart' /\ op'.kind \in {"none", "issue", "revoke"} /\ op'.step # "delete"
<1>1. op.kind \in {"issue", "revoke"} /\ op \in OpRow
  BY DEF IssuerInv, TypeOK, Positioned, OpRow, Kind, PatchKind
<1>2. CASE op.from # "failed"
  BY <1>2, Ends DEF NotRevoked
<1>3. CASE op.from = "failed"
  <2>1. op' = [op EXCEPT !.step = "noteRequired"]
    BY <1>3 DEF NotRevoked, Goto
  <2>2. /\ op' \in OpRow /\ op'.kind = op.kind /\ op'.arg = op.arg /\ op'.from = op.from /\ op'.step = "noteRequired"
    BY <1>1, <2>1 DEF OpRow, StepName, IssueStep, RevokeStep
  <2>3. Positioned'
    BY <1>1, <1>3, <2>2 DEF IssuerInv, Positioned, IssueStep, RevokeStep, PatchKind
  <2>4. Working'
    BY <1>1, <2>2 DEF IssuerInv, Working
  <2>. QED  BY <1>1, <2>2, <2>3, <2>4 DEF OpPart
<1>. QED  BY <1>2, <1>3

-----------------------------------------------------------------------------
(* Credentials: revocation and issue. *)

\* MicroK8sBackend.Revoke up to its write.
LEMMA RevokeReadKept ==
    ASSUME IssuerInv, RevokeRead
    PROVE  IssuerInv'
<1>1. /\ op.step = "revoke" /\ UNCHANGED <<state, file, node, registry, bound, gone, appended, uids>>
  BY DEF RevokeRead
<1>2. FileKept /\ \A token : Lines(token)' = Lines(token)
  BY <1>1, FileFacts, FileSame
<1>3. FilePart' /\ RecordPart'
  BY <1>1, <1>2, RecordsSame
<1>4. PICK r \in Request : op.kind \in {"issue", "revoke"} /\ op \in OpRow /\ op.arg = r /\ file \in Seq(Line)
  BY <1>1 DEF IssuerInv, TypeOK, Positioned, OpRow, Kind, PatchKind
<1>5. OpPart' /\ op'.kind \in {"none", "issue", "revoke"} /\ op'.step # "delete"
  <2>1. CASE Lines(r) = {} /\ Revoked
    <3>1. ~Live(r)'
      BY <1>2, <1>4, <2>1 DEF Live, FileKept
    <3>. QED  BY <1>1, <1>4, <2>1, <3>1, RevokedMoves
  <2>2. CASE /\ Lines(r) # {}
             /\ op' = [op EXCEPT !.step = "expire", !.at = CHOOSE k \in Lines(r) : TRUE]
    <3>1. PICK k \in Lines(r) : op' = [op EXCEPT !.step = "expire", !.at = k]
      BY <2>2
    <3>2. k \in Nat /\ k \in Lines(r)'
      <4>1. k \in Lines(r)'
        BY <1>2
      <4>. QED  BY <4>1 DEF Lines
    <3>3. /\ op' \in OpRow /\ op'.kind = op.kind /\ op'.arg = r /\ op'.from = op.from
          /\ op'.step = "expire" /\ op'.at = k
      BY <1>4, <3>1, <3>2 DEF OpRow, StepName, IssueStep, RevokeStep
    <3>4. Positioned'
      BY <1>4, <3>3 DEF IssuerInv, Positioned, IssueStep, RevokeStep, PatchKind
    <3>5. Working'
      BY <1>1, <1>4, <3>2, <3>3 DEF IssuerInv, Working, Lines
    <3>. QED  BY <1>4, <3>3, <3>4, <3>5 DEF OpPart
  <2>3. CASE NotRevoked
    BY <1>1, <2>3, NotRevokedMoves
  <2>. QED  BY <1>4, <2>1, <2>2, <2>3 DEF RevokeRead
<1>6. NodePart'
  BY <1>1, <1>5, NodeSame
<1>. QED  BY <1>3, <1>5, <1>6, Parts

\* The write in place: the token's only line expires, in the file it was read from.
LEMMA ExpireKept ==
    ASSUME IssuerInv, expireTokenInPlace
    PROVE  IssuerInv'
<1>1. /\ op.step = "expire" /\ UNCHANGED <<state, node, registry, bound, gone, appended, uids>>
  BY DEF expireTokenInPlace
<1>2. PICK r \in Request : op.kind \in {"issue", "revoke"} /\ op.arg = r
  BY <1>1 DEF IssuerInv, TypeOK, Positioned, OpRow, Kind, PatchKind
<1>3. FileKept /\ OpPart' /\ op'.kind \in {"none", "issue", "revoke"} /\ op'.step # "delete"
  <2>1. CASE op.at # 0 /\ file' = Expired(file, op.at) /\ (Revoked \/ NotRevoked)
    <3>1. PICK k \in Lines(r) : k = op.at
      BY <1>1, <1>2, <2>1 DEF IssuerInv, Working
    <3>2. FileKept /\ ~Live(r)'
      BY <1>1, <1>2, <2>1, <3>1, FileFacts, FileExpired
    <3>. QED  BY <1>1, <1>2, <2>1, <3>2, RevokedMoves, NotRevokedMoves
  <2>2. CASE NotRevoked /\ UNCHANGED file
    <3>1. FileKept
      BY <1>1, <2>2, FileFacts, FileSame
    <3>. QED  BY <1>1, <2>2, <3>1, NotRevokedMoves
  <2>. QED  BY <2>1, <2>2 DEF expireTokenInPlace
<1>4. FilePart' /\ RecordPart'
  BY <1>1, <1>3, RecordsSame
<1>5. NodePart'
  BY <1>1, <1>3, NodeSame
<1>. QED  BY <1>3, <1>4, <1>5, Parts

\* An issue or a revocation begins with the request on record, if there is one.
LEMMA IssueBeginKept ==
    ASSUME IssuerInv, NEW r \in Request, IssueBegin(r)
    PROVE  IssuerInv'
<1>1. UNCHANGED <<state, file, node, registry, bound, gone, appended, uids>>
  BY DEF IssueBegin
<1>2. FilePart' /\ RecordPart'
  BY <1>1, FileFacts, FileSame, RecordsSame
<1>3. PICK step \in {"revoke", "clear"} :
         op' = [kind |-> "issue", step |-> step, arg |-> r, at |-> 0, from |-> "retry", stale |-> FALSE]
  BY DEF IssueBegin, Idle
<1>4. OpPart'
  <2>1. op' \in OpRow
    BY <1>3 DEF OpRow, Kind, StepName, IssueStep
  <2>2. Positioned'
    BY <1>3 DEF Positioned, IssueStep, PatchKind
  <2>3. Working'
    BY <1>1, <1>3 DEF Working, IssueBegin
  <2>. QED  BY <2>1, <2>2, <2>3 DEF OpPart
<1>5. NodePart'
  BY <1>1, <1>3, NodeSame
<1>. QED  BY <1>2, <1>4, <1>5, Parts

\* A revocation begins on a record that is not revoked.
LEMMA RevokeBeginKept ==
    ASSUME IssuerInv, NEW i \in Issuance, RevokeBegin(i)
    PROVE  IssuerInv'
<1>1. UNCHANGED <<state, file, node, registry, bound, gone, appended, uids>>
  BY DEF RevokeBegin
<1>2. FilePart' /\ RecordPart'
  BY <1>1, FileFacts, FileSame, RecordsSame
<1>3. PICK r \in Request : r = state[i].req /\ r.id = i
  BY DEF RevokeBegin, IssuerInv, TypeOK, durableState, Keyed
<1>4. op' = [kind |-> "revoke", step |-> "revoke", arg |-> r, at |-> 0, from |-> "revoke", stale |-> FALSE]
  BY <1>3 DEF RevokeBegin, Idle
<1>5. OpPart'
  <2>1. op' \in OpRow
    BY <1>4 DEF OpRow, Kind, StepName, RevokeStep
  <2>2. Positioned'
    BY <1>4 DEF Positioned, RevokeStep, PatchKind
  <2>3. Working'
    BY <1>1, <1>3, <1>4 DEF Working
  <2>. QED  BY <2>1, <2>2, <2>3 DEF OpPart
<1>6. NodePart'
  BY <1>1, <1>4, NodeSame
<1>. QED  BY <1>2, <1>5, <1>6, Parts

\* A record that is written, or is not, by an operation that then ends.
LEMMA WriteEnds ==
    ASSUME IssuerInv, op.kind \in {"issue", "revoke"}, NEW status \in Status,
           status = "revoked" => ~Live(op.arg), Done,
           UNCHANGED <<file, node, registry, bound, gone, appended, uids>>,
           \/ state' = [state EXCEPT ![op.arg.id] = Record(op.arg, status)]
           \/ state' = state
    PROVE  IssuerInv'
<1>1. FilePart' /\ RecordPart'
  <2>1. CASE state' = [state EXCEPT ![op.arg.id] = Record(op.arg, status)]
    BY <2>1, RecordsWritten
  <2>2. CASE state' = state
    BY <2>2, FileFacts, FileSame, RecordsSame
  <2>. QED  BY <2>1, <2>2
<1>2. OpPart' /\ op'.kind = "none" /\ op'.step = "idle"
  BY Ends
<1>3. NodePart'
  BY <1>2, NodeSame
<1>. QED  BY <1>1, <1>2, <1>3, Parts

\* The pending record comes before the token.
LEMMA WritePendingKept ==
    ASSUME IssuerInv, WritePending
    PROVE  IssuerInv'
<1>1. /\ op.kind = "issue" /\ op.step = "pending" /\ "pending" \in Status
      /\ UNCHANGED <<file, node, registry, bound, gone, appended, uids>>
  BY DEF WritePending, WriteState, At, Status
<1>2. CASE Done /\ (\/ state' = [state EXCEPT ![op.arg.id] = Record(op.arg, "pending")]
                   \/ state' = state)
  BY <1>1, <1>2, WriteEnds
<1>3. CASE state' = [state EXCEPT ![op.arg.id] = Record(op.arg, "pending")] /\ Goto("add")
  <2>1. FilePart' /\ RecordPart' /\ state'[op.arg.id] = Record(op.arg, "pending")
    BY <1>1, <1>3, RecordsWritten
  <2>2. PICK r \in Request : op.arg = r /\ op \in OpRow
    BY <1>1 DEF IssuerInv, Positioned, TypeOK
  <2>3. /\ op' \in OpRow /\ op'.kind = "issue" /\ op'.step = "add" /\ op'.arg = r /\ op'.from = op.from
    BY <1>1, <1>3, <2>2 DEF Goto, OpRow, StepName, IssueStep
  <2>4. Positioned'
    BY <1>1, <2>2, <2>3 DEF IssuerInv, Positioned, IssueStep, PatchKind
  <2>5. Record(r, "pending") \in durableState /\ Record(r, "pending").req = r /\ Record(r, "pending").status = "pending"
    BY DEF Record, durableState, Status
  <2>6. Working'
    BY <2>1, <2>2, <2>3, <2>5 DEF Working
  <2>7. NodePart'
    BY <1>1, <2>3, NodeSame
  <2>. QED  BY <2>1, <2>3, <2>4, <2>6, <2>7, Parts DEF OpPart
<1>. QED  BY <1>2, <1>3 DEF WritePending, WriteState

\* The issued record; when the write fails the token is revoked, whatever became durable.
LEMMA WriteIssuedKept ==
    ASSUME IssuerInv, WriteIssued
    PROVE  IssuerInv'
<1>1. /\ op.kind = "issue" /\ op.step = "record" /\ "issued" \in Status
      /\ UNCHANGED <<file, node, registry, bound, gone, appended, uids>>
  BY DEF WriteIssued, WriteState, At, Status
<1>2. CASE Done /\ (\/ state' = [state EXCEPT ![op.arg.id] = Record(op.arg, "issued")]
                   \/ state' = state)
  BY <1>1, <1>2, WriteEnds
<1>3. CASE /\ op' = [op EXCEPT !.step = "revoke", !.from = "drop"]
           /\ \/ state' = [state EXCEPT ![op.arg.id] = Record(op.arg, "issued")]
              \/ state' = state
  <2>1. PICK r \in Request : op.arg = r /\ op \in OpRow
    BY <1>1 DEF IssuerInv, Positioned, TypeOK
  <2>2. FilePart' /\ RecordPart' /\ (state'[r.id] # None => state'[r.id].req = r)
    <3>1. CASE state' = [state EXCEPT ![op.arg.id] = Record(op.arg, "issued")]
      <4>1. FilePart' /\ RecordPart' /\ state'[r.id] = Record(r, "issued")
        BY <1>1, <2>1, <3>1, RecordsWritten
      <4>. QED  BY <4>1 DEF Record
    <3>2. CASE state' = state
      <4>1. FilePart' /\ RecordPart'
        BY <1>1, <3>2, FileFacts, FileSame, RecordsSame
      <4>. QED  BY <1>1, <2>1, <3>2, <4>1 DEF IssuerInv, Working
    <3>. QED  BY <1>3, <3>1, <3>2
  <2>3. /\ op' \in OpRow /\ op'.kind = "issue" /\ op'.step = "revoke" /\ op'.arg = r /\ op'.from = "drop"
    BY <1>1, <1>3, <2>1 DEF OpRow, StepName, IssueStep
  <2>4. Positioned'
    BY <2>1, <2>3 DEF Positioned, IssueStep, PatchKind
  <2>5. Working'
    BY <2>2, <2>3 DEF Working
  <2>6. NodePart'
    BY <1>1, <2>3, NodeSame
  <2>. QED  BY <2>2, <2>3, <2>4, <2>5, <2>6, Parts DEF OpPart
<1>. QED  BY <1>2, <1>3 DEF WriteIssued, WriteState

\* The record of an issue that failed, and the last write of a revocation.
LEMMA recordFailedIssueKept ==
    ASSUME IssuerInv, recordFailedIssue
    PROVE  IssuerInv'
<1>1. PICK status \in {"pending", "revoke_required"} :
         /\ UNCHANGED <<file, node, registry, bound, gone, appended, uids>> /\ Done
         /\ \/ state' = [state EXCEPT ![op.arg.id] = Record(op.arg, status)]
            \/ state' = state
  BY DEF recordFailedIssue, WriteState
<1>2. op.kind \in {"issue", "revoke"} /\ status \in Status
  BY DEF recordFailedIssue, IssuerInv, TypeOK, Positioned, OpRow, Kind, PatchKind, Status
<1>. QED  BY <1>1, <1>2, WriteEnds

\* The record becomes revoked only behind the expiry.
LEMMA WriteRevokedKept ==
    ASSUME IssuerInv, WriteRevoked
    PROVE  IssuerInv'
<1>1. /\ UNCHANGED <<file, node, registry, bound, gone, appended, uids>> /\ Done
      /\ \/ state' = [state EXCEPT ![op.arg.id] = Record(op.arg, "revoked")]
         \/ state' = state
  BY DEF WriteRevoked, WriteState
<1>2. op.kind \in {"issue", "revoke"} /\ "revoked" \in Status /\ ~Live(op.arg)
  BY DEF WriteRevoked, At, Status, IssuerInv, Working
<1>. QED  BY <1>1, <1>2, WriteEnds

\* ClearRetiredName takes the name off the list: nothing retired is kept out any more.
LEMMA ClearRetiredNameKept ==
    ASSUME IssuerInv, ClearRetiredName
    PROVE  IssuerInv'
<1>1. /\ op.kind = "issue" /\ op.step = "clear" /\ UNCHANGED <<state, file, node, bound, appended, uids>>
  BY DEF ClearRetiredName, At
<1>2. FilePart' /\ RecordPart'
  BY <1>1, FileFacts, FileSame, RecordsSame
<1>3. CASE Done /\ UNCHANGED <<registry, gone>>
  <2>1. OpPart' /\ op'.kind = "none" /\ op'.step = "idle"
    BY <1>3, Ends
  <2>. QED  BY <1>1, <1>2, <1>3, <2>1, NodeSame, Parts
<1>4. CASE /\ Goto("pending") /\ gone' = FALSE
           /\ registry' = IF registry = None THEN None ELSE [registry EXCEPT !.listed = FALSE]
  <2>1. PICK r \in Request : op.arg = r /\ op \in OpRow
    BY <1>1 DEF IssuerInv, Positioned, TypeOK
  <2>2. /\ op' \in OpRow /\ op'.kind = "issue" /\ op'.step = "pending" /\ op'.arg = r /\ op'.from = op.from
    BY <1>1, <1>4, <2>1 DEF Goto, OpRow, StepName, IssueStep
  <2>3. Positioned'
    BY <1>1, <2>1, <2>2 DEF IssuerInv, Positioned, IssueStep, PatchKind
  <2>4. Working'
    BY <1>1, <2>1, <2>2 DEF IssuerInv, Working
  <2>5. registry' \in [listed : BOOLEAN, host : BOOLEAN] \cup {None}
    BY <1>4 DEF IssuerInv, TypeOK
  <2>6. NodePart'
    BY <1>1, <1>4, <2>2, <2>5 DEF IssuerInv, TypeOK, NodePart, Checked, Listed, PatchKind
  <2>. QED  BY <1>2, <2>2, <2>3, <2>4, <2>6, Parts DEF OpPart
<1>. QED  BY <1>3, <1>4 DEF ClearRetiredName

\* add-node: a token without a line gets one, under its pending record.
LEMMA AddNodeKept ==
    ASSUME IssuerInv, AddNode
    PROVE  IssuerInv'
<1>1. /\ op.kind = "issue" /\ op.step = "add"
      /\ UNCHANGED <<state, node, registry, bound, gone, appended, uids>>
  BY DEF AddNode, At
<1>2. PICK r \in Request : op.arg = r /\ op \in OpRow
  BY <1>1 DEF IssuerInv, Positioned, TypeOK
<1>3. /\ state[r.id] # None /\ state[r.id].req = r /\ state[r.id].status = "pending" /\ state[r.id] \in durableState
  BY <1>1, <1>2, NoneAssumption DEF IssuerInv, Working
<1>4. FilePart' /\ RecordPart'
  <2>1. CASE UNCHANGED file
    BY <1>1, <2>1, FileFacts, FileSame, RecordsSame
  <2>2. CASE Lines(r) = {} /\ file' = Append(file, [token |-> r, expiry |-> "future"])
    <3>1. FilePart' /\ \A q \in Request \ {r} : Live(q)' => Live(q)
      BY <1>1, <2>2, FileFacts, FileAdded DEF FilePart
    <3>2. LiveTokenIsRecorded'
      BY <1>1, <1>3, <3>1 DEF IssuerInv, LiveTokenIsRecorded
    <3>3. state' \in [Issuance -> durableState \cup {None}] /\ Keyed'
      BY <1>1 DEF IssuerInv, TypeOK, Keyed
    <3>. QED  BY <3>1, <3>2, <3>3 DEF RecordPart
  <2>. QED  BY <1>2, <2>1, <2>2 DEF AddNode
<1>5. OpPart' /\ op'.kind = "issue" /\ op'.step # "delete"
  <2>1. CASE Failed
    <3>1. /\ op' \in OpRow /\ op'.kind = "issue" /\ op'.step = "revoke" /\ op'.arg = r /\ op'.from = "failed"
      BY <1>1, <1>2, <2>1 DEF Failed, OpRow, StepName, IssueStep
    <3>. QED  BY <1>1, <1>3, <3>1 DEF OpPart, Positioned, Working, IssueStep, PatchKind
  <2>2. CASE Goto("record")
    <3>1. /\ op' \in OpRow /\ op'.kind = "issue" /\ op'.step = "record" /\ op'.arg = r /\ op'.from = op.from
      BY <1>1, <1>2, <2>2 DEF Goto, OpRow, StepName, IssueStep
    <3>2. Positioned'
      BY <1>1, <3>1 DEF IssuerInv, Positioned, IssueStep, PatchKind
    <3>. QED  BY <1>1, <1>3, <3>1, <3>2 DEF OpPart, Working
  <2>. QED  BY <2>1, <2>2 DEF AddNode
<1>6. NodePart'
  BY <1>1, <1>5, NodeSame
<1>. QED  BY <1>4, <1>5, <1>6, Parts

-----------------------------------------------------------------------------
(* The Node and the list of retired names. *)

\* A step on the Node leaves the file and the records alone.
LEMMA FilesSame ==
    ASSUME IssuerInv, UNCHANGED <<state, file, appended>>
    PROVE  FilePart' /\ RecordPart'
  BY FileFacts, FileSame, RecordsSame

\* observe only notes a UID.
LEMMA observeKept ==
    ASSUME IssuerInv, NEW i \in Issuance, observe(i)
    PROVE  IssuerInv'
<1>1. /\ UNCHANGED <<state, file, node, registry, op, gone, appended, uids>>
      /\ node \in Node /\ bound' = bound \cup {node.uid}
  BY DEF observe, InQuarantine, IssuerInv, TypeOK
<1>2. FilePart' /\ RecordPart'
  BY <1>1, FilesSame
<1>3. bound' \subseteq 1 .. MaxUid
  BY <1>1 DEF IssuerInv, TypeOK, Node
<1>4. OpPart'
  BY <1>1 DEF observe, Idle, OpPart, OpRow, Positioned, Working, Kind, StepName, PatchKind
<1>5. NodePart'
  BY <1>1, <1>3 DEF IssuerInv, TypeOK, NodePart, Checked, Listed
<1>. QED  BY <1>2, <1>4, <1>5, Parts

\* An operation on a Node that was read and found to be as it must be.
LEMMA GetKept ==
    ASSUME IssuerInv, NEW kind \in PatchKind \cup {"retire"}, NEW step, NEW arg \in Want,
           Get(kind, step, arg, TRUE),
           kind \in PatchKind => step = "patch", kind = "retire" => step = "list",
           kind = "assign" => /\ ~node.retired /\ arg \in [uid : 1 .. MaxUid, ws : Workspace]
                              /\ node.ws \in {None, arg.ws},
           kind = "hold" => arg \in [uid : 1 .. MaxUid, hold : Reason]
    PROVE  IssuerInv'
<1>1. /\ UNCHANGED <<state, file, node, registry, bound, gone, appended, uids>> /\ node \in Node
      /\ op' = [kind |-> kind, step |-> step, arg |-> [want |-> arg, read |-> node], at |-> 0,
               from |-> "none", stale |-> FALSE]
  BY DEF Get, Idle, IssuerInv, TypeOK
<1>2. FilePart' /\ RecordPart'
  BY <1>1, FilesSame
<1>3. [want |-> arg, read |-> node] \in NodeArg
  BY <1>1 DEF NodeArg
<1>4. kind \in Kind /\ kind \notin {"none", "issue", "revoke"} /\ step \in {"patch", "list"} /\ step \in StepName
  BY DEF Kind, PatchKind, StepName
<1>5. op' \in OpRow
  BY <1>1, <1>3, <1>4 DEF OpRow
<1>6. Positioned'
  BY <1>1, <1>3, <1>4 DEF Positioned, PatchKind
<1>7. Working'
  BY <1>1, <1>4 DEF Working
<1>8. Checked' /\ Listed'
  BY <1>1, <1>4 DEF Checked, Listed, IssuerInv
<1>9. NodePart'
  BY <1>1, <1>8 DEF NodePart, IssuerInv, TypeOK
<1>. QED  BY <1>2, <1>5, <1>6, <1>7, <1>9, Parts DEF OpPart

\* The five operations that begin with a read of the Node.
LEMMA ReadsKept ==
    ASSUME IssuerInv, NEW u \in bound,
           \/ \E w \in Workspace : Assign(u, w)
           \/ \E reason \in Reason : Hold(u, reason)
           \/ Drain(u) \/ Rebootstrap(u) \/ Retire(u)
    PROVE  IssuerInv'
<1>0. u \in 1 .. MaxUid
  BY DEF IssuerInv, TypeOK
<1>1. ASSUME NEW w \in Workspace, Assign(u, w) PROVE IssuerInv'
  <2>. DEFINE arg == [uid |-> u, ws |-> w]
  <2>1. Get("assign", "patch", arg, TRUE) /\ ~ node.retired /\ node.ws \in {None, w}
    BY <1>1 DEF Assign, Get
  <2>2. arg \in Want /\ arg \in [uid : 1 .. MaxUid, ws : Workspace] /\ arg.ws = w /\ "assign" \in PatchKind
    BY <1>0 DEF Want, PatchKind
  <2>. HIDE DEF arg
  <2>. QED  BY <2>1, <2>2, GetKept
<1>2. ASSUME NEW reason \in Reason, Hold(u, reason) PROVE IssuerInv'
  <2>. DEFINE arg == [uid |-> u, hold |-> reason]
  <2>1. Get("hold", "patch", arg, TRUE)
    BY <1>2 DEF Hold, Get
  <2>2. arg \in Want /\ arg \in [uid : 1 .. MaxUid, hold : Reason] /\ "hold" \in PatchKind
    BY <1>0 DEF Want, PatchKind
  <2>. HIDE DEF arg
  <2>. QED  BY <2>1, <2>2, GetKept
<1>. DEFINE arg == [uid |-> u]
<1>3. arg \in Want
  BY <1>0 DEF Want
<1>4. CASE Drain(u)
  <2>1. Get("drain", "patch", arg, TRUE) /\ "drain" \in PatchKind
    BY <1>4 DEF Drain, Get, PatchKind
  <2>. HIDE DEF arg
  <2>. QED  BY <1>3, <2>1, GetKept
<1>5. CASE Rebootstrap(u)
  <2>1. Get("rebootstrap", "patch", arg, TRUE) /\ "rebootstrap" \in PatchKind
    BY <1>5 DEF Rebootstrap, Get, PatchKind
  <2>. HIDE DEF arg
  <2>. QED  BY <1>3, <2>1, GetKept
<1>6. CASE Retire(u)
  <2>1. Get("retire", "list", arg, TRUE) /\ "retire" \notin PatchKind
    BY <1>6 DEF Retire, Get, PatchKind
  <2>. HIDE DEF arg
  <2>. QED  BY <1>3, <2>1, GetKept
<1>. QED  BY <1>1, <1>2, <1>4, <1>5, <1>6

\* A patch replaces the Node by a Node, and only the one that was read.
LEMMA PatchKept ==
    ASSUME IssuerInv, op.kind \in PatchKind, NEW n \in Node, Patch(n),
           n.flagged = op.arg.read.flagged
    PROVE  IssuerInv'
<1>1. UNCHANGED <<state, file, registry, bound, gone, appended, uids>> /\ Done
  BY DEF Patch
<1>2. FilePart' /\ RecordPart'
  BY <1>1, FilesSame
<1>3. OpPart' /\ op'.kind = "none" /\ op'.step = "idle"
  BY <1>1, Ends
<1>4. CASE UNCHANGED node
  BY <1>1, <1>2, <1>3, <1>4, NodeSame, Parts
<1>5. CASE ~op.stale /\ node' = n
  <2>1. node \in Node /\ node # None /\ node'.flagged = node.flagged
    BY <1>5, NoneAssumption DEF IssuerInv, Checked, Positioned, NodeArg
  <2>2. Listed' /\ Checked'
    BY <1>1, <1>3, <2>1 DEF Listed, Checked, IssuerInv, PatchKind
  <2>3. NodePart'
    BY <1>1, <1>5, <2>2 DEF NodePart, IssuerInv, TypeOK
  <2>. QED  BY <1>2, <1>3, <2>3, Parts
<1>. QED  BY <1>4, <1>5 DEF Patch

\* The four patches.
LEMMA PatchesKept ==
    ASSUME IssuerInv, AssignPatch \/ HoldPatch \/ DrainPatch \/ RebootstrapPatch
    PROVE  IssuerInv'
<1>1. op.kind \in PatchKind /\ op.arg \in NodeArg
  BY DEF AssignPatch, HoldPatch, DrainPatch, RebootstrapPatch, At, PatchKind, IssuerInv, Positioned
<1>2. PICK old \in Node : old = op.arg.read
  BY <1>1 DEF NodeArg
<1>3. CASE AssignPatch
  <2>1. PICK w \in Workspace : w = op.arg.want.ws
    BY <1>3 DEF AssignPatch, At, IssuerInv, Checked
  <2>2. Released(old, w) \in Node /\ Patch(Released(old, w)) /\ Released(old, w).flagged = op.arg.read.flagged
    BY <1>2, <1>3, <2>1 DEF AssignPatch, Released, Node
  <2>. QED  BY <1>1, <2>2, PatchKept
<1>4. CASE HoldPatch
  <2>1. PICK h \in Reason : h = op.arg.want.hold
    BY <1>4 DEF HoldPatch, At, IssuerInv, Checked
  <2>2. [old EXCEPT !.hold = h] \in Node /\ Patch([old EXCEPT !.hold = h]) /\ [old EXCEPT !.hold = h].flagged = op.arg.read.flagged
    BY <1>2, <1>4, <2>1 DEF HoldPatch, Node
  <2>. QED  BY <1>1, <2>2, PatchKept
<1>5. CASE DrainPatch
  <2>1. Drained(old) \in Node /\ Patch(Drained(old)) /\ Drained(old).flagged = op.arg.read.flagged
    BY <1>2, <1>5 DEF DrainPatch, Drained, Node
  <2>. QED  BY <1>1, <2>1, PatchKept
<1>6. CASE RebootstrapPatch
  <2>1. Quarantined(old) \in Node /\ Patch(Quarantined(old)) /\ Quarantined(old).flagged = op.arg.read.flagged
    BY <1>2, <1>6 DEF RebootstrapPatch, Quarantined, Node
  <2>. QED  BY <1>1, <2>1, PatchKept
<1>. QED  BY <1>3, <1>4, <1>5, <1>6

\* updateRetiredNames: the Node goes only after its name is listed, or there is no guard.
LEMMA updateRetiredNamesKept ==
    ASSUME IssuerInv, updateRetiredNames
    PROVE  IssuerInv'
<1>1. /\ op.kind = "retire" /\ op.step = "list" /\ UNCHANGED <<state, file, node, bound, gone, appended, uids>>
      /\ op \in OpRow /\ "retire" \notin PatchKind
      /\ registry \in [listed : BOOLEAN, host : BOOLEAN] \cup {None}
  BY DEF updateRetiredNames, At, IssuerInv, TypeOK, PatchKind
<1>2. FilePart' /\ RecordPart'
  BY <1>1, FilesSame
<1>3. /\ registry' \in [listed : BOOLEAN, host : BOOLEAN] \cup {None}
      /\ registry' # None => registry # None
      /\ registry' # None => registry'.listed \/ registry' = registry
      /\ Done \/ (Goto("delete") /\ (registry' # None => registry'.listed))
  <2>1. CASE UNCHANGED registry
    BY <1>1, <2>1 DEF updateRetiredNames
  <2>2. CASE registry # None /\ registry' = [registry EXCEPT !.listed = TRUE]
    <3>1. registry' \in [listed : BOOLEAN, host : BOOLEAN] /\ registry'.listed
      BY <1>1, <2>2
    <3>. QED  BY <1>1, <2>2, <3>1 DEF updateRetiredNames
  <2>. QED  BY <2>1, <2>2 DEF updateRetiredNames
<1>4. OpPart' /\ op'.kind \notin PatchKind /\ (op'.step = "delete" /\ registry' # None => registry'.listed)
  <2>1. CASE Done
    BY <2>1, Ends DEF PatchKind
  <2>2. CASE Goto("delete") /\ (registry' # None => registry'.listed)
    <3>1. op' \in OpRow /\ op'.kind = "retire" /\ op'.step = "delete"
      BY <1>1, <2>2 DEF Goto, OpRow, StepName
    <3>2. Positioned' /\ Working'
      BY <1>1, <3>1 DEF Positioned, Working
    <3>. QED  BY <1>1, <2>2, <3>1, <3>2 DEF OpPart
  <2>. QED  BY <1>3, <2>1, <2>2
<1>5. Listed'
  BY <1>1, <1>3, <1>4 DEF Listed, IssuerInv
<1>6. Checked'
  BY <1>4 DEF Checked, PatchKind
<1>7. NodePart'
  BY <1>1, <1>3, <1>5, <1>6 DEF NodePart, IssuerInv, TypeOK
<1>. QED  BY <1>2, <1>4, <1>7, Parts

\* The Node of a retirement goes, or stays when the call fails.
LEMMA DeleteNodeKept ==
    ASSUME IssuerInv, DeleteNode
    PROVE  IssuerInv'
<1>1. /\ op.step = "delete" /\ Done /\ UNCHANGED <<state, file, registry, bound, appended, uids>>
  BY DEF DeleteNode, At
<1>2. FilePart' /\ RecordPart'
  BY <1>1, FilesSame
<1>3. OpPart' /\ op'.kind = "none" /\ op'.step = "idle"
  BY <1>1, Ends
<1>4. CASE UNCHANGED <<node, gone>>
  BY <1>1, <1>2, <1>3, <1>4, NodeSame, Parts
<1>5. CASE node' = None /\ gone' \in BOOLEAN
  <2>1. Listed' /\ Checked'
    BY <1>1, <1>3, <1>5 DEF Listed, Checked, IssuerInv, PatchKind
  <2>2. NodePart'
    BY <1>1, <1>5, <2>1 DEF NodePart, IssuerInv, TypeOK
  <2>. QED  BY <1>2, <1>3, <2>2, Parts
<1>. QED  BY <1>4, <1>5 DEF DeleteNode

\* A crash forgets the operation and keeps what is durable.
LEMMA CrashKept ==
    ASSUME IssuerInv, Crash
    PROVE  IssuerInv'
<1>1. Done /\ UNCHANGED <<state, file, node, registry, bound, gone, appended, uids>>
  BY DEF Crash
<1>2. OpPart' /\ op'.kind = "none" /\ op'.step = "idle"
  BY <1>1, Ends
<1>. QED  BY <1>1, <1>2, FilesSame, NodeSame, Parts

-----------------------------------------------------------------------------
(* What happens around an operation. *)

\* An operation that only learns that its Node may have changed.
LEMMA TouchedMoves ==
    ASSUME IssuerInv, UNCHANGED <<state, file>>, Touched
    PROVE  /\ OpPart' /\ op'.kind = op.kind /\ op'.step = op.step /\ op'.arg = op.arg
           /\ op.kind \in PatchKind => op'.stale
<1>1. op \in OpRow
  BY DEF IssuerInv, TypeOK
<1>2. PICK b \in BOOLEAN : op' = [op EXCEPT !.stale = b] /\ (op.step = "patch" => b)
  BY <1>1 DEF Touched, OpRow
<1>3. /\ op' \in OpRow /\ op'.kind = op.kind /\ op'.step = op.step /\ op'.arg = op.arg
      /\ op'.from = op.from /\ op'.at = op.at /\ op'.stale = b
  BY <1>1, <1>2 DEF OpRow
<1>4. Positioned'
  BY <1>3 DEF IssuerInv, Positioned
<1>5. Working'
  BY <1>3 DEF IssuerInv, Working, Live, Lines
<1>. QED  BY <1>2, <1>3, <1>4, <1>5 DEF OpPart, IssuerInv, Positioned

\* A Node registers, and is flagged if its name is listed; a Node changes or is
\* removed.
LEMMA NodeMoves ==
    ASSUME IssuerInv, Touched, UNCHANGED <<state, file, registry, bound, gone, appended>>,
           node' \in Node \cup {None}, uids' \in 0 .. MaxUid,
           gone /\ registry # None => node' = None \/ node'.flagged
    PROVE  IssuerInv'
<1>1. FilePart' /\ RecordPart'
  BY FilesSame
<1>2. /\ OpPart' /\ op'.kind = op.kind /\ op'.step = op.step /\ op'.arg = op.arg
      /\ op.kind \in PatchKind => op'.stale
  BY TouchedMoves
<1>3. Checked' /\ Listed'
  BY <1>2 DEF Checked, Listed, IssuerInv
<1>4. NodePart'
  BY <1>3 DEF NodePart, IssuerInv, TypeOK
<1>. QED  BY <1>1, <1>2, <1>4, Parts

\* A Node joins; under a name on the list it does so flagged.
LEMMA RegisterKept ==
    ASSUME IssuerInv, NEW role \in {"plain", "master"}, NEW boot \in {"none", "pending", "foreign"},
           Register(role, boot)
    PROVE  IssuerInv'
<1>1. uids' \in 1 .. MaxUid /\ uids' \in 0 .. MaxUid
  BY UidAssumption DEF Register, IssuerInv, TypeOK
<1>2. GuardFlags \in BOOLEAN
  BY DEF GuardFlags, IssuerInv, TypeOK
<1>3. node' \in Node /\ node'.flagged = GuardFlags
  BY <1>1, <1>2 DEF Register, Node, Reason
<1>4. gone /\ registry # None => node'.flagged
  BY <1>3 DEF GuardFlags, IssuerInv, Listed
<1>. QED  BY <1>1, <1>3, <1>4, NodeMoves DEF Register

\* The worker or an administrator changes the Node.
LEMMA NodeChangeKept ==
    ASSUME IssuerInv, NodeChange
    PROVE  IssuerInv'
<1>1. node \in Node /\ node # None /\ uids \in 0 .. MaxUid
  BY DEF NodeChange, IssuerInv, TypeOK
<1>2. node' = None \/ (node' \in Node /\ node'.flagged = node.flagged)
  BY <1>1 DEF NodeChange, Drained, Node
<1>3. gone /\ registry # None => node' = None \/ node'.flagged
  BY <1>1, <1>2 DEF IssuerInv, Listed
<1>. QED  BY <1>1, <1>2, <1>3, NodeMoves DEF NodeChange

\* A record of the same request in the same status.
SameRequest(i) ==
    IF state[i] = None THEN state'[i] = None
    ELSE state'[i] \in durableState /\ state'[i].req = state[i].req /\ state'[i].status = state[i].status

\* An operation goes on while the file and the records change around it.
LEMMA WorkingAround ==
    ASSUME IssuerInv, UNCHANGED op, FileKept, \A r \in Request : Lines(r)' = Lines(r),
           \A i \in Issuance : SameRequest(i)
    PROVE  Working'
<1>1. CASE op.kind \notin {"issue", "revoke"}
  BY <1>1 DEF Working, IssuerInv, TypeOK, Positioned, OpRow, Kind, PatchKind
<1>2. CASE op.kind \in {"issue", "revoke"}
  <2>1. PICK r \in Request : op.arg = r
    BY <1>2 DEF IssuerInv, Positioned
  <2>2. op'.arg = r /\ r.id \in Issuance
    BY <2>1 DEF Request
  <2>3. /\ state[r.id] # None => state[r.id].req = r
        /\ op.step \in {"add", "record"} => state[r.id] \in durableState /\ state[r.id].status = "pending"
        /\ op.step = "expire" /\ op.at # 0 => op.at \in Lines(r)
        /\ op.step = "revoked" => ~Live(r)
    BY <1>2, <2>1 DEF IssuerInv, Working
  <2>4. /\ state'[r.id] # None => state'[r.id].req = r
        /\ op.step \in {"add", "record"} => state'[r.id] \in durableState /\ state'[r.id].status = "pending"
    <3>1. SameRequest(r.id)
      BY <2>2
    <3>. QED  BY <2>3, <3>1, NoneAssumption DEF SameRequest
  <2>5. op.step = "expire" /\ op.at # 0 => op.at \in Lines(r)'
    BY <2>3
  <2>6. op.step = "revoked" => ~Live(r)'
    BY <2>3 DEF FileKept
  <2>. QED  BY <2>2, <2>4, <2>5, <2>6 DEF Working, Live, Lines
<1>. QED  BY <1>1, <1>2

\* The file grows, is replaced, or some of its lines lapse.
LEMMA AppendTokenKept ==
    ASSUME IssuerInv, AppendToken
    PROVE  IssuerInv'
<1>1. /\ file' = Append(file, [token |-> None, expiry |-> "never"]) /\ appended' = appended + 1
      /\ UNCHANGED <<state, node, registry, op, bound, gone, uids>>
  BY DEF AppendToken
<1>2. FileKept /\ \A r \in Request : Lines(r)' = Lines(r)
  BY <1>1, FileFacts, FileAppended
<1>3. FilePart' /\ RecordPart'
  BY <1>1, <1>2, RecordsSame
<1>4. Positioned' /\ op' \in OpRow
  BY <1>1 DEF IssuerInv, TypeOK, Positioned
<1>5. Working'
  <2>1. \A i \in Issuance : SameRequest(i)
    BY <1>1 DEF IssuerInv, TypeOK, SameRequest
  <2>. QED  BY <1>1, <1>2, <2>1, WorkingAround
<1>6. NodePart'
  BY <1>1 DEF IssuerInv, TypeOK, NodePart, Checked, Listed
<1>. QED  BY <1>3, <1>4, <1>5, <1>6, Parts DEF OpPart

\* MicroK8s rewrites the file without the lines that are past.
LEMMA PurgeKept ==
    ASSUME IssuerInv, Purge
    PROVE  IssuerInv'
<1>1. /\ file' = Purged /\ op' = [op EXCEPT !.at = 0] /\ op \in OpRow
      /\ UNCHANGED <<state, node, registry, bound, gone, appended, uids>>
  BY DEF Purge, IssuerInv, TypeOK
<1>2. FileKept
  BY <1>1, FileFacts, FilePurged
<1>3. FilePart' /\ RecordPart'
  BY <1>1, <1>2, RecordsSame
<1>4. /\ op' \in OpRow /\ op'.kind = op.kind /\ op'.step = op.step /\ op'.arg = op.arg
      /\ op'.from = op.from /\ op'.at = 0 /\ op'.stale = op.stale
  BY <1>1 DEF OpRow
<1>5. Positioned'
  BY <1>4 DEF IssuerInv, Positioned
<1>6. Working'
  <2>1. CASE op.step = "revoked"
    <3>1. PICK r \in Request : op.arg = r
      BY <2>1 DEF IssuerInv, TypeOK, Positioned, OpRow, Kind, PatchKind, IssueStep
    <3>2. ~Live(r)'
      BY <1>2, <2>1, <3>1 DEF FileKept, IssuerInv, Working
    <3>. QED  BY <1>1, <1>4, <2>1, <3>1, <3>2 DEF IssuerInv, Working, Live, Lines
  <2>2. CASE op.step # "revoked"
    BY <1>1, <1>4, <2>2 DEF IssuerInv, Working
  <2>. QED  BY <2>1, <2>2
<1>7. NodePart'
  BY <1>1, <1>4 DEF IssuerInv, TypeOK, NodePart, Checked, Listed
<1>. QED  BY <1>3, <1>4, <1>5, <1>6, <1>7, Parts DEF OpPart

\* A token and its credential lapse together.
LEMMA LapseKept ==
    ASSUME IssuerInv, NEW i \in Issuance, Lapse(i)
    PROVE  IssuerInv'
<1>1. /\ state[i] # None /\ state' = [state EXCEPT ![i].fresh = FALSE]
      /\ UNCHANGED <<node, registry, op, bound, gone, appended, uids>>
      /\ state \in [Issuance -> durableState \cup {None}] /\ state[i] \in durableState
  BY DEF Lapse, IssuerInv, TypeOK
<1>2. PICK r \in Request : r = state[i].req
  BY <1>1 DEF durableState
<1>3. FileKept /\ \A token : Lines(token)' = Lines(token)
  BY <1>1, <1>2, FileFacts, FileLapsed DEF Lapse
<1>4. PICK s \in durableState : s = [state[i] EXCEPT !.fresh = FALSE]
  BY <1>1 DEF durableState
<1>5. s.req = state[i].req /\ s.status = state[i].status /\ s # None
  BY <1>1, <1>4, NoneAssumption DEF durableState
<1>6. /\ state' \in [Issuance -> durableState \cup {None}] /\ state'[i] = s
      /\ \A k \in Issuance : k # i => state'[k] = state[k]
  BY <1>1, <1>4
<1>7. \A k \in Issuance : SameRequest(k)
  BY <1>1, <1>5, <1>6 DEF SameRequest
<1>8. Working'
  BY <1>1, <1>3, <1>7, WorkingAround
<1>9. Keyed'
  BY <1>7 DEF IssuerInv, Keyed, SameRequest
<1>10. LiveTokenIsRecorded'
  <2>. SUFFICES ASSUME NEW q \in Request, Live(q)'
                PROVE  /\ state'[q.id] # None /\ state'[q.id].req = q
                       /\ state'[q.id].status \in {"pending", "issued", "revoke_required"}
    BY DEF LiveTokenIsRecorded
  <2>1. q.id \in Issuance /\ Live(q)
    BY <1>3 DEF FileKept, Request
  <2>2. SameRequest(q.id)
    BY <1>7, <2>1
  <2>. QED  BY <2>1, <2>2, NoneAssumption DEF IssuerInv, LiveTokenIsRecorded, SameRequest
<1>11. FilePart' /\ RecordPart'
  BY <1>3, <1>6, <1>9, <1>10 DEF FileKept, FilePart, RecordPart
<1>12. OpPart'
  BY <1>1, <1>8 DEF IssuerInv, TypeOK, Positioned, OpPart
<1>13. NodePart'
  BY <1>1 DEF IssuerInv, TypeOK, NodePart, Checked, Listed
<1>. QED  BY <1>11, <1>12, <1>13, Parts

-----------------------------------------------------------------------------
(* The invariant and what follows from it. *)

\* The invariant holds before anything has happened.
LEMMA IssuerInit ==
    ASSUME Init
    PROVE  IssuerInv
<1>1. file \in Seq(Line) /\ Len(file) = 0 /\ \A token : Lines(token) = {}
  BY DEF Init, Lines
<1>2. Unique /\ Foreign /\ LiveTokenIsRecorded
  BY <1>1 DEF Unique, Foreign, LiveTokenIsRecorded, Live
<1>3. OtherTokensAreKept
  BY <1>1, FS_EmptySet DEF Init, OtherTokensAreKept
<1>4. op \in OpRow /\ Positioned /\ Working
  BY DEF Init, Idle, OpRow, Kind, StepName, Positioned, Working, PatchKind
<1>5. TypeOK /\ Keyed
  <2>1. state \in [Issuance -> durableState \cup {None}] /\ Keyed
    BY DEF Init, Keyed
  <2>2. registry \in [listed : BOOLEAN, host : BOOLEAN] \cup {None}
    BY DEF Init
  <2>3. node \in Node \cup {None} /\ bound \subseteq 1 .. MaxUid /\ gone \in BOOLEAN
    BY Zenon DEF Init
  <2>4. appended \in Nat /\ uids \in 0 .. MaxUid
    BY UidAssumption DEF Init
  <2>. QED  BY <1>1, <1>4, <2>1, <2>2, <2>3, <2>4 DEF TypeOK
<1>6. Checked /\ Listed
  BY DEF Init, Idle, Checked, Listed, PatchKind
<1>. QED  BY <1>2, <1>3, <1>4, <1>5, <1>6 DEF IssuerInv

\* Every step keeps it.
LEMMA IssuerStep ==
    ASSUME IssuerInv, [Next]_vars
    PROVE  IssuerInv'
<1>1. CASE UNCHANGED vars
  <2>1. FilePart' /\ RecordPart'
    BY <1>1, FilesSame DEF vars
  <2>2. OpPart'
    BY <1>1 DEF vars, IssuerInv, TypeOK, OpPart, Positioned, Working, Live, Lines
  <2>3. NodePart'
    BY <1>1 DEF vars, IssuerInv, TypeOK, NodePart, Checked, Listed
  <2>. QED  BY <2>1, <2>2, <2>3, Parts
<1>2. CASE \/ \E r \in Request : IssueBegin(r)
           \/ \E i \in Issuance : RevokeBegin(i) \/ observe(i)
           \/ RevokeRead \/ expireTokenInPlace
           \/ ClearRetiredName \/ WritePending \/ AddNode
           \/ WriteIssued \/ recordFailedIssue \/ WriteRevoked
  BY <1>2, IssueBeginKept, RevokeBeginKept, observeKept, RevokeReadKept, ExpireKept, ClearRetiredNameKept,
     WritePendingKept, AddNodeKept, WriteIssuedKept, recordFailedIssueKept, WriteRevokedKept
<1>3. CASE \/ \E u \in bound : \/ \E w \in Workspace : Assign(u, w)
                               \/ \E reason \in Reason : Hold(u, reason)
                               \/ Drain(u) \/ Rebootstrap(u) \/ Retire(u)
           \/ AssignPatch \/ HoldPatch \/ DrainPatch \/ RebootstrapPatch
           \/ updateRetiredNames \/ DeleteNode \/ Crash
  BY <1>3, ReadsKept, PatchesKept, updateRetiredNamesKept, DeleteNodeKept, CrashKept
<1>4. CASE External
  BY <1>4, RegisterKept, NodeChangeKept, AppendTokenKept, PurgeKept, LapseKept DEF External
<1>. QED  BY <1>1, <1>2, <1>3, <1>4 DEF Next

\* The invariant of the issuer: the token file, its records, the running operation
\* and the Node agree, whatever fails, crashes or changes around an operation.
THEOREM IssuerInvariant == Spec => []IssuerInv
<1>. QED  BY IssuerInit, IssuerStep, PTL DEF Spec

\* A join token MicroK8s would accept has a durable record that is not revoked, at
\* every point where issue, recordFailedIssue or revoke can stop.
THEOREM LiveTokensAreRecorded == Spec => []LiveTokenIsRecorded
<1>1. IssuerInv => LiveTokenIsRecorded
  BY DEF IssuerInv
<1>. QED  BY IssuerInvariant, <1>1, PTL

\* expireTokenInPlace and MicroK8s between them lose no line of another token.
THEOREM OtherTokensKept == Spec => []OtherTokensAreKept
<1>1. IssuerInv => OtherTokensAreKept
  BY DEF IssuerInv
<1>. QED  BY IssuerInvariant, <1>1, PTL

\* With a registration guard, a machine whose Node was retired does not come back
\* under its name unnoticed, until an issue clears the name.
THEOREM ReturnsAreNoticed == Spec => []ReturnIsNoticed
<1>1. IssuerInv => ReturnIsNoticed
  BY DEF IssuerInv, Listed, ReturnIsNoticed
<1>. QED  BY IssuerInvariant, <1>1, PTL

\* No step makes a leaving Node schedulable again or moves it to another workspace:
\* a patch is computed from the Node it replaces.
LEMMA LeavingStep ==
    ASSUME IssuerInv, [Next]_vars, node # None, node' # None, node'.uid = node.uid
    PROVE  /\ node.retired /\ node.unschedulable => node'.retired /\ node'.unschedulable
           /\ node.ws # None => node'.ws = node.ws
<1>. DEFINE Fine == /\ node.retired /\ node.unschedulable => node'.retired /\ node'.unschedulable
                    /\ node.ws # None => node'.ws = node.ws
<1>0. node \in Node
  BY DEF IssuerInv, TypeOK
<1>1. CASE UNCHANGED node
  BY <1>1
<1>2. CASE AssignPatch /\ node' # node
  <2>1. PICK w : node' = Released(node, w) /\ ~node.retired /\ node.ws \in {None, w}
    BY <1>2 DEF AssignPatch, At, Patch, IssuerInv, Checked, PatchKind
  <2>. QED  BY <1>0, <2>1 DEF Released, Node
<1>3. CASE HoldPatch /\ node' # node
  <2>1. PICK h : node' = [node EXCEPT !.hold = h]
    BY <1>3 DEF HoldPatch, At, Patch, IssuerInv, Checked, PatchKind
  <2>. QED  BY <1>0, <2>1 DEF Node
<1>4. CASE DrainPatch /\ node' # node
  <2>1. node' = Drained(node)
    BY <1>4 DEF DrainPatch, At, Patch, IssuerInv, Checked, PatchKind
  <2>. QED  BY <1>0, <2>1 DEF Drained, Node
<1>5. CASE RebootstrapPatch /\ node' # node
  <2>1. node' = Quarantined(node)
    BY <1>5 DEF RebootstrapPatch, At, Patch, IssuerInv, Checked, PatchKind
  <2>. QED  BY <1>0, <2>1 DEF Quarantined, Node
<1>6. CASE NodeChange
  BY <1>0, <1>6 DEF NodeChange, Drained, Node
<1>7. CASE DeleteNode
  BY <1>7 DEF DeleteNode
<1>8. UNCHANGED node \/ AssignPatch \/ HoldPatch \/ DrainPatch \/ RebootstrapPatch \/ NodeChange \/ DeleteNode
  BY DEF Next, vars, IssueBegin, RevokeBegin, observe, RevokeRead, expireTokenInPlace, ClearRetiredName,
         WritePending, WriteState, AddNode, WriteIssued, recordFailedIssue, WriteRevoked, Assign, Hold, Drain,
         Rebootstrap, Retire, Get, updateRetiredNames, Crash, External, Register, AppendToken, Purge, Lapse
<1>. QED  BY <1>1, <1>2, <1>3, <1>4, <1>5, <1>6, <1>7, <1>8

\* Leaving is final, and so is the workspace of a Node: whatever changes between the
\* read of an operation and its patch.
THEOREM LeavingStaysFinal == Spec => LeavingIsFinal
<1>1. IssuerInv /\ [Next]_vars =>
         [node # None /\ node' # None /\ node'.uid = node.uid =>
             /\ node.retired /\ node.unschedulable => node'.retired /\ node'.unschedulable
             /\ node.ws # None => node'.ws = node.ws]_vars
  BY LeavingStep
<1>. QED  BY IssuerInvariant, <1>1, PTL DEF Spec, LeavingIsFinal
=============================================================================
