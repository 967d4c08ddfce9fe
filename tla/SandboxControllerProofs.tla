----------------------- MODULE SandboxControllerProofs -----------------------
(***************************************************************************)
(* Theorems about SandboxQueue and SandboxController, for any sets of      *)
(* sandboxes, operations, workers, backends and grants and any number of   *)
(* attempts: first the queue by itself, then the workers, which implement  *)
(* the queue and report nothing of Kubernetes that is not true.            *)
(***************************************************************************)
EXTENDS SandboxController, TLAPS

-----------------------------------------------------------------------------
(* Type correctness. *)

OperationsTyped ==
    /\ operations \in [Op -> OperationRow]
    /\ \A o \in Op : operations[o].status # "free" =>
          operations[o].sandbox \in Sandbox /\ operations[o].type \in OperationType
GrantsTyped ==
    /\ grants \in [Grant -> GrantRow]
    /\ \A g \in Grant : grants[g].state # "free" => grants[g].sandbox \in Sandbox

\* Ending an operation keeps the types of the three rows it writes.
LEMMA TerminateTyped ==
    ASSUME TypeOK, NEW o \in Op, NEW n \in 0 .. MaxAttempts, NEW r \in ReceiptRow,
           r.status \in Terminal, operations[o].status # "free", Terminate(o, n, r)
    PROVE  OperationsTyped' /\ jobs' \in [Op -> JobRow] /\ receipts' \in [Op -> ReceiptRow]
<1>1. OperationsTyped'
  BY DEF TypeOK, OperationsTyped, Terminate, OperationRow, Nonterminal, Terminal
<1>2. FinishedJob(n) \in JobRow
  BY AttemptsAssumption DEF FinishedJob, JobRow
<1>3. jobs' \in [Op -> JobRow] /\ receipts' \in [Op -> ReceiptRow]
  BY <1>2 DEF TypeOK, Terminate
<1>. QED  BY <1>1, <1>3

\* The receipt of an operation that is given up names the sandbox's backend.
LEMMA RecoveryReceiptTyped ==
    ASSUME TypeOK, NEW o \in Op, operations[o].sandbox \in Sandbox
    PROVE  RecoveryReceipt(o) \in ReceiptRow /\ RecoveryReceipt(o).status \in Terminal
  BY DEF TypeOK, RecoveryReceipt, Receipt, Row, ReceiptRow, Terminal, SandboxRow

\* A new pending operation and its job.
LEMMA EnqueueTyped ==
    ASSUME TypeOK, NEW o \in Op, NEW s \in Sandbox, NEW type \in OperationType,
           NEW expected \in Nat,
           sandbox_controller_enqueue_operation(o, s, type, expected)
    PROVE  OperationsTyped' /\ jobs' \in [Op -> JobRow]
<1>1. OperationsTyped'
  BY DEF TypeOK, OperationsTyped, sandbox_controller_enqueue_operation, OperationRow,
     Nonterminal, Terminal, OperationType
<1>2. IdleJob(0, TRUE) \in JobRow
  BY AttemptsAssumption DEF IdleJob, JobRow
<1>3. jobs' \in [Op -> JobRow]
  BY <1>2 DEF TypeOK, sandbox_controller_enqueue_operation
<1>. QED  BY <1>1, <1>3

\* The columns of a sandbox row.
LEMMA RowTyped ==
    ASSUME TypeOK, NEW s \in Sandbox
    PROVE  /\ sandboxes[s].state \in {"none", "requested", "queued", "provisioning", "ready",
                                      "stopping", "stopped", "deleting", "deleted", "failed"}
           /\ sandboxes[s].desired \in {"ready", "stopped", "deleted"}
           /\ sandboxes[s].version \in Nat
           /\ sandboxes[s].backend \in Backend \cup {None}
           /\ sandboxes[s].stopped_at \in Op \cup {None}
  BY DEF TypeOK, SandboxRow

\* The counters of a job stay within the attempts allowed.
LEMMA JobTyped ==
    ASSUME TypeOK, NEW o \in Op
    PROVE  /\ jobs[o].attempts \in 0 .. MaxAttempts
           /\ jobs[o].token \in 0 .. MaxAttempts
  BY DEF TypeOK, JobRow

CompletionRow ==
    [status : Terminal, backend : Backend \cup {None}, cleanup : BOOLEAN, export : BOOLEAN,
     revoked : BOOLEAN, destroyed : BOOLEAN]

\* Every completion the controller sends is well formed.
LEMMA CompletionsTyped == Completions \subseteq CompletionRow
<1>1. ASSUME NEW status \in Terminal, NEW b \in Backend \cup {None}, NEW cleanup \in BOOLEAN,
             NEW export \in BOOLEAN, NEW revoked \in BOOLEAN, NEW destroyed \in BOOLEAN
      PROVE  Completion(status, b, cleanup, export, revoked, destroyed) \in CompletionRow
  BY DEF Completion, CompletionRow
<1>. QED  BY <1>1 DEF Completions, Terminal

\* Revoking keeps the grants' types and leaves no active grant of the sandbox.
LEMMA RevokeTyped ==
    ASSUME TypeOK, NEW s \in Sandbox, grants' = sandbox_revoke_access_grants(s)
    PROVE  GrantsTyped'
  BY DEF TypeOK, GrantsTyped, sandbox_revoke_access_grants, GrantRow

\* A completion, whatever it reports, keeps every row's type.
LEMMA CompleteTyped ==
    ASSUME TypeOK, NEW o \in Op, NEW n \in 0 .. MaxAttempts, NEW c \in CompletionRow,
           NEW admission \in Backend \cup {None}, operations[o].status # "free",
           sandbox_controller_complete(o, n, c, admission)
    PROVE  /\ OperationsTyped' /\ jobs' \in [Op -> JobRow] /\ receipts' \in [Op -> ReceiptRow]
           /\ sandboxes' \in [Sandbox -> SandboxRow]
           /\ GrantsTyped'
<1>. DEFINE s == operations[o].sandbox
            kept == IF c.destroyed THEN None ELSE Row(o).backend
            r == Receipt(c.status, c.cleanup, c.export, c.revoked, c.destroyed, kept, admission)
<1>1. s \in Sandbox
  BY DEF TypeOK
<1>2. kept \in Backend \cup {None}
  BY <1>1, RowTyped DEF Row
<1>3. r \in ReceiptRow /\ r.status \in Terminal
  BY <1>2 DEF Receipt, ReceiptRow, CompletionRow
<1>4. OperationsTyped' /\ jobs' \in [Op -> JobRow] /\ receipts' \in [Op -> ReceiptRow]
  <2>1. Terminate(o, n, r)
    BY DEF sandbox_controller_complete
  <2>. HIDE DEF r
  <2>. QED  BY <1>3, <2>1, TerminateTyped
<1>5. sandboxes' \in [Sandbox -> SandboxRow]
  <2>1. Outcome(operations[o].type, c.status) \in {"failed", "ready", "stopped", "deleted"}
    BY DEF Outcome
  <2>2. StoppedAt(o, c) \in Op \cup {None}
    BY <1>1, RowTyped DEF StoppedAt, Row
  <2>3. Update(s, Outcome(operations[o].type, c.status), Row(o).desired, kept, StoppedAt(o, c))
    BY DEF sandbox_controller_complete
  <2>4. Row(o).desired \in {"ready", "stopped", "deleted"}
    BY <1>1, RowTyped DEF Row
  <2>. HIDE DEF kept, s
  <2>. QED  BY <1>1, <1>2, <2>1, <2>2, <2>3, <2>4 DEF Update, TypeOK, SandboxRow
<1>6. GrantsTyped'
  <2>1. CASE c.revoked
    BY <1>1, <2>1, RevokeTyped DEF sandbox_controller_complete
  <2>2. CASE ~c.revoked
    BY <2>2 DEF sandbox_controller_complete, TypeOK, GrantsTyped
  <2>. QED  BY <2>1, <2>2
<1>. QED  BY <1>4, <1>5, <1>6

\* The empty tables are well typed.
LEMMA TypeInit == Init => TypeOK
<1>. SUFFICES ASSUME Init PROVE TypeOK
  OBVIOUS
<1>1. IdleJob(0, FALSE) \in JobRow
  BY AttemptsAssumption DEF IdleJob, JobRow
<1>2. Receipt("none", FALSE, FALSE, FALSE, FALSE, None, None) \in ReceiptRow
  BY DEF Receipt, ReceiptRow
<1>3. jobs \in [Op -> JobRow] /\ receipts \in [Op -> ReceiptRow]
  BY <1>1, <1>2 DEF Init
<1>4. sandboxes \in [Sandbox -> SandboxRow]
  BY DEF Init, SandboxRow
<1>5. OperationsTyped /\ GrantsTyped
  BY DEF Init, OperationsTyped, GrantsTyped, OperationRow, GrantRow
<1>6. /\ admissions \in [Sandbox -> Backend \cup {None}]
      /\ sources \in [Sandbox -> Backend \cup {None}]
      /\ artifacts \subseteq Sandbox
      /\ exports \subseteq Op
  BY DEF Init
<1>. QED  BY <1>3, <1>4, <1>5, <1>6 DEF TypeOK, OperationsTyped, GrantsTyped

\* A step that enqueues keeps the types.
LEMMA TypeEnqueue ==
    ASSUME TypeOK, NEW s \in Sandbox, NEW o \in Op, Enqueue(s, o)
    PROVE  TypeOK'
<1>1. ASSUME NEW type \in {"stop", "delete"}, transitionSandbox(s, type)
      PROVE  sandboxes' \in [Sandbox -> SandboxRow]
  BY <1>1, RowTyped DEF transitionSandbox, Update, TypeOK, SandboxRow
<1>2. CASE createSandbox(s, o)
  <2>1. sandboxes' \in [Sandbox -> SandboxRow]
    BY <1>2 DEF createSandbox, sandbox_create_bound_sandbox, Update, TypeOK, SandboxRow
  <2>2. OperationsTyped' /\ jobs' \in [Op -> JobRow]
    BY <1>2, EnqueueTyped DEF createSandbox, sandbox_create_bound_sandbox, OperationType
  <2>. QED  BY <1>2, <2>1, <2>2 DEF TypeOK, OperationsTyped, GrantsTyped, createSandbox,
     sandbox_create_bound_sandbox
<1>3. ASSUME NEW type \in {"stop", "delete"}, transitionSandbox(s, type),
             sandbox_controller_enqueue_operation(o, s, type, sandboxes[s].version),
             UNCHANGED <<receipts, admissions, sources, artifacts, exports, grants>>
      PROVE  TypeOK'
  <2>1. sandboxes[s].version \in Nat
    BY RowTyped
  <2>2. OperationsTyped' /\ jobs' \in [Op -> JobRow]
    BY <1>3, <2>1, EnqueueTyped DEF OperationType
  <2>. QED  BY <1>1, <1>3, <2>2 DEF TypeOK, OperationsTyped, GrantsTyped
<1>4. ASSUME NEW type \in {"stop", "delete"}, createOperation(s, o, type)
      PROVE  TypeOK'
  BY <1>3, <1>4 DEF createOperation
<1>5. CASE sandbox_controller_enqueue_expired(s, o)
  BY <1>3, <1>5 DEF sandbox_controller_enqueue_expired
<1>6. CASE agent_run_controller_release_sandboxes(s, o)
  BY <1>3, <1>6 DEF agent_run_controller_release_sandboxes
<1>. QED  BY <1>2, <1>4, <1>5, <1>6 DEF Enqueue

\* Giving an operation up keeps the types.
LEMMA TypeGiveUp ==
    ASSUME TypeOK, NEW o \in Op, operations[o].status # "free",
           sandbox_controller_quarantine_stale(o) \/ Exhaust(o)
    PROVE  TypeOK'
<1>1. operations[o].sandbox \in Sandbox
  BY DEF TypeOK
<1>2. OperationsTyped' /\ jobs' \in [Op -> JobRow] /\ receipts' \in [Op -> ReceiptRow]
  <2>1. Terminate(o, jobs[o].attempts, RecoveryReceipt(o))
    BY DEF sandbox_controller_quarantine_stale, Exhaust
  <2>. QED  BY <1>1, <2>1, RecoveryReceiptTyped, JobTyped, TerminateTyped
<1>3. sandboxes' \in [Sandbox -> SandboxRow]
  <2>1. CASE sandbox_controller_quarantine_stale(o)
    BY <2>1 DEF sandbox_controller_quarantine_stale, TypeOK
  <2>2. CASE Exhaust(o)
    <3>1. Update(operations[o].sandbox, "failed", Row(o).desired, Row(o).backend, Row(o).stopped_at)
      BY <2>2 DEF Exhaust
    <3>. QED  BY <1>1, <3>1 DEF Update, Row, TypeOK, SandboxRow
  <2>. QED  BY <2>1, <2>2
<1>. QED  BY <1>2, <1>3 DEF TypeOK, OperationsTyped, GrantsTyped,
   sandbox_controller_quarantine_stale, Exhaust

\* A claim keeps the types.
LEMMA TypeClaim ==
    ASSUME TypeOK, NEW w \in Worker, NEW o \in Op, sandbox_controller_claim_v5(w, o)
    PROVE  TypeOK'
<1>1. operations[o].status # "free" /\ operations[o].sandbox \in Sandbox
  BY DEF sandbox_controller_claim_v5, Claimable, Nonterminal, TypeOK
<1>2. CASE sandbox_controller_quarantine_stale(o) \/ Exhaust(o)
  BY <1>1, <1>2, TypeGiveUp
<1>3. ASSUME jobs[o].attempts < MaxAttempts,
             sandbox_controller_finalize_stopped_delete_v1(o, jobs[o].attempts + 1)
      PROVE  TypeOK'
  <2>1. jobs[o].attempts + 1 \in 0 .. MaxAttempts
    BY <1>3, JobTyped, AttemptsAssumption
  <2>2. ASSUME NEW c \in CompletionRow, NEW a \in Backend \cup {None},
               sandbox_controller_complete(o, jobs[o].attempts + 1, c, a)
        PROVE  /\ OperationsTyped' /\ jobs' \in [Op -> JobRow] /\ receipts' \in [Op -> ReceiptRow]
               /\ sandboxes' \in [Sandbox -> SandboxRow]
               /\ GrantsTyped'
    BY <1>1, <2>1, <2>2, CompleteTyped
  <2>3. /\ Completion("succeeded", None, TRUE, TRUE, TRUE, TRUE) \in CompletionRow
        /\ Completion("recovery_required", None, FALSE, FALSE, FALSE, FALSE) \in CompletionRow
        /\ admissions[operations[o].sandbox] \in Backend \cup {None}
        /\ exports' \subseteq Op
    BY <1>1, <1>3 DEF Completion, CompletionRow, Terminal, TypeOK,
       sandbox_controller_finalize_stopped_delete_v1
  <2>4. /\ OperationsTyped' /\ jobs' \in [Op -> JobRow] /\ receipts' \in [Op -> ReceiptRow]
        /\ sandboxes' \in [Sandbox -> SandboxRow]
        /\ GrantsTyped'
    BY <1>3, <2>2, <2>3 DEF sandbox_controller_finalize_stopped_delete_v1
  <2>. QED  BY <1>3, <2>3, <2>4 DEF TypeOK, OperationsTyped, GrantsTyped,
     sandbox_controller_finalize_stopped_delete_v1
<1>4. ASSUME jobs[o].attempts < MaxAttempts, Lease(w, o)
      PROVE  TypeOK'
  <2>1. LeasedJob(jobs[o].attempts + 1, w) \in JobRow
    BY <1>4, JobTyped, AttemptsAssumption DEF LeasedJob, JobRow
  <2>2. OperationsTyped' /\ jobs' \in [Op -> JobRow]
    BY <1>1, <1>4, <2>1 DEF Lease, TypeOK, OperationsTyped, OperationRow, Nonterminal
  <2>3. sandboxes' \in [Sandbox -> SandboxRow]
    BY <1>1, <1>4 DEF Lease, Update, Row, TypeOK, SandboxRow
  <2>. QED  BY <1>4, <2>2, <2>3 DEF TypeOK, OperationsTyped, GrantsTyped, Lease
<1>5. jobs[o].attempts >= MaxAttempts \/ jobs[o].attempts < MaxAttempts
  BY JobTyped, AttemptsAssumption
<1>. QED  BY <1>2, <1>3, <1>4, <1>5 DEF sandbox_controller_claim_v5

\* A call under a lease keeps the types.
LEMMA TypeLeased ==
    ASSUME TypeOK, NEW o \in Op, NEW w \in Worker, NEW t \in Token, Leased(o, w, t)
    PROVE  TypeOK'
<1>1. operations[o].status # "free" /\ operations[o].sandbox \in Sandbox
  BY DEF Leased, Fence, TypeOK, sandbox_controller_renew, sandbox_controller_bind_backend_v4,
     sandbox_controller_bind_backend_v3, sandbox_controller_bind_backend,
     sandbox_controller_record_source_materialization_v1, sandbox_controller_record_artifact_v1,
     sandbox_controller_complete_artifact_export_v1, sandbox_controller_retry,
     sandbox_controller_complete_v5
<1>2. CASE sandbox_controller_quarantine_stale(o) \/ Exhaust(o)
  BY <1>1, <1>2, TypeGiveUp
<1>3. CASE sandbox_controller_renew(o, w, t)
  BY <1>2, <1>3 DEF sandbox_controller_renew, vars, TypeOK
<1>4. ASSUME NEW b \in Backend, sandbox_controller_bind_backend_v4(o, w, t, b)
      PROVE  TypeOK'
  <2>1. CASE ~sandbox_controller_quarantine_stale(o)
    <3>1. sandboxes' \in [Sandbox -> SandboxRow]
      <4>1. CASE UNCHANGED sandboxes
        BY <4>1 DEF TypeOK
      <4>2. CASE Update(operations[o].sandbox, "provisioning", Row(o).desired, b, Row(o).stopped_at)
        BY <1>1, <4>2 DEF Update, Row, TypeOK, SandboxRow
      <4>. QED  BY <1>4, <2>1, <4>1, <4>2 DEF sandbox_controller_bind_backend_v4,
         sandbox_controller_bind_backend_v3, sandbox_controller_bind_backend, Row
    <3>2. admissions' \in [Sandbox -> Backend \cup {None}]
      BY <1>1, <1>4, <2>1 DEF sandbox_controller_bind_backend_v4,
         sandbox_controller_bind_backend_v3, sandbox_controller_bind_backend, TypeOK
    <3>. QED  BY <1>4, <2>1, <3>1, <3>2 DEF sandbox_controller_bind_backend_v4,
       sandbox_controller_bind_backend_v3, sandbox_controller_bind_backend, TypeOK
  <2>. QED  BY <1>2, <2>1
<1>5. ASSUME NEW b \in Backend, sandbox_controller_record_source_materialization_v1(o, w, t, b)
      PROVE  TypeOK'
  BY <1>1, <1>5 DEF sandbox_controller_record_source_materialization_v1, TypeOK
<1>6. ASSUME NEW b \in Backend, sandbox_controller_record_artifact_v1(o, w, t, b)
      PROVE  TypeOK'
  BY <1>1, <1>6 DEF sandbox_controller_record_artifact_v1, TypeOK
<1>7. ASSUME NEW b \in Backend, sandbox_controller_complete_artifact_export_v1(o, w, t, b)
      PROVE  TypeOK'
  BY <1>1, <1>7 DEF sandbox_controller_complete_artifact_export_v1, TypeOK
<1>8. CASE sandbox_controller_retry(o, w, t)
  <2>1. CASE ~(sandbox_controller_quarantine_stale(o) \/ Exhaust(o))
    <3>1. IdleJob(jobs[o].attempts, FALSE) \in JobRow
      BY JobTyped, AttemptsAssumption DEF IdleJob, JobRow
    <3>2. OperationsTyped' /\ jobs' \in [Op -> JobRow]
      <4>1. /\ jobs' = [jobs EXCEPT ![o] = IdleJob(jobs[o].attempts, FALSE)]
            /\ operations' = [operations EXCEPT ![o].status = "pending"]
        BY <1>8, <2>1 DEF sandbox_controller_retry
      <4>2. OperationsTyped'
        BY <1>1, <4>1 DEF TypeOK, OperationsTyped, OperationRow, Nonterminal
      <4>. QED  BY <3>1, <4>1, <4>2 DEF TypeOK
    <3>. QED  BY <1>8, <2>1, <3>2 DEF TypeOK, OperationsTyped, sandbox_controller_retry
  <2>. QED  BY <1>2, <2>1
<1>9. ASSUME NEW c \in Completions, sandbox_controller_complete_v5(o, w, t, c)
      PROVE  TypeOK'
  <2>1. CASE ~sandbox_controller_quarantine_stale(o)
    <3>1. /\ c \in CompletionRow
          /\ admissions[operations[o].sandbox] \in Backend \cup {None}
          /\ jobs[o].attempts \in 0 .. MaxAttempts
      BY <1>1, CompletionsTyped, JobTyped DEF TypeOK
    <3>2. /\ OperationsTyped' /\ jobs' \in [Op -> JobRow] /\ receipts' \in [Op -> ReceiptRow]
          /\ sandboxes' \in [Sandbox -> SandboxRow]
          /\ GrantsTyped'
      <4>1. sandbox_controller_complete(o, jobs[o].attempts, c, admissions[operations[o].sandbox])
        BY <1>9, <2>1 DEF sandbox_controller_complete_v5
      <4>. QED  BY <1>1, <3>1, <4>1, CompleteTyped
    <3>. QED  BY <1>9, <2>1, <3>2 DEF sandbox_controller_complete_v5, TypeOK, OperationsTyped,
                 GrantsTyped
  <2>. QED  BY <1>2, <2>1
<1>. QED  BY <1>3, <1>4, <1>5, <1>6, <1>7, <1>8, <1>9 DEF Leased

\* Time and the access grants keep the types.
LEMMA TypeOther ==
    ASSUME TypeOK,
           \/ \E o \in Op : LeaseExpires(o) \/ RetryFallsDue(o)
           \/ \E g \in Grant : GrantStep(g)
    PROVE  TypeOK'
<1>1. ASSUME NEW o \in Op, LeaseExpires(o) \/ RetryFallsDue(o)
      PROVE  TypeOK'
  <2>1. jobs' \in [Op -> JobRow]
    <3>1. CASE LeaseExpires(o)
      BY <3>1 DEF LeaseExpires, TypeOK, JobRow
    <3>2. CASE RetryFallsDue(o)
      BY <3>2 DEF RetryFallsDue, TypeOK, JobRow
    <3>. QED  BY <1>1, <3>1, <3>2
  <2>. QED  BY <1>1, <2>1 DEF LeaseExpires, RetryFallsDue, TypeOK
<1>2. ASSUME NEW g \in Grant, GrantStep(g)
      PROVE  TypeOK'
  <2>1. GrantsTyped'
    <3>1. ASSUME NEW s \in Sandbox, createAccessGrant(g, s) PROVE GrantsTyped'
      BY <3>1 DEF createAccessGrant, TypeOK, GrantsTyped, GrantRow
    <3>2. ASSUME NEW late \in BOOLEAN, sandbox_controller_consume_access_grant_v1(g, late)
          PROVE  GrantsTyped'
      <4>1. PICK state \in {"expired", "consumed"} : grants' = [grants EXCEPT ![g].state = state]
        BY <3>2 DEF sandbox_controller_consume_access_grant_v1
      <4>2. grants[g].state # "free"
        BY <3>2 DEF sandbox_controller_consume_access_grant_v1
      <4>. QED  BY <4>1, <4>2 DEF TypeOK, GrantsTyped, GrantRow
    <3>3. ASSUME NEW s \in Sandbox, agent_run_controller_issue_grant(g, s) PROVE GrantsTyped'
      <4>1. PICK state \in {"issuing", "active"} :
              grants' = [grants EXCEPT ![g] = [sandbox |-> s, state |-> state]]
        BY <3>3 DEF agent_run_controller_issue_grant
      <4>2. [sandbox |-> s, state |-> state] \in GrantRow
        BY DEF GrantRow
      <4>. QED  BY <4>1, <4>2 DEF TypeOK, GrantsTyped
    <3>. QED  BY <1>2, <3>1, <3>2, <3>3 DEF GrantStep
  <2>. QED  BY <1>2, <2>1 DEF GrantStep, createAccessGrant, agent_run_controller_issue_grant,
               sandbox_controller_consume_access_grant_v1, TypeOK, GrantsTyped
<1>. QED  BY <1>1, <1>2

\* Every transaction keeps the types.
LEMMA TypeStep == TypeOK /\ [Next]_vars => TypeOK'
<1>. SUFFICES ASSUME TypeOK, [Next]_vars PROVE TypeOK'
  OBVIOUS
<1>1. CASE UNCHANGED vars
  BY <1>1 DEF vars, TypeOK
<1>2. CASE Next
  BY <1>2, TypeEnqueue, TypeClaim, TypeLeased, TypeOther DEF Next
<1>. QED  BY <1>1, <1>2

\* Every reachable state is well typed: the rows keep their columns' types and
\* an enqueued operation or an issued grant names its sandbox.
THEOREM TypeCorrect == Spec => []TypeOK
  BY TypeInit, TypeStep, PTL DEF Spec

-----------------------------------------------------------------------------
(* No operation ever goes stale. *)

OneOpen ==
    \A o, p \in Op : /\ operations[o].status \in Nonterminal
                     /\ operations[p].status \in Nonterminal
                     /\ operations[o].sandbox = operations[p].sandbox
                     => o = p
ClosedJobs ==
    \A o \in Op : operations[o].status \in Terminal => jobs[o].completed /\ ~jobs[o].live
FreshRows ==
    \A s \in Sandbox : sandboxes[s].state = "none" => sandboxes[s].version = 0

\* The inductive invariant behind EveryOperationIsCurrent: an operation stays
\* current because it is the only open one of its sandbox, so no other operation
\* touches the row, and each of its own steps moves row and job together.
Open == OneOpen /\ EveryOperationIsCurrent /\ ClosedJobs /\ FreshRows

\* A step that touches one operation and one sandbox, on which no other
\* operation is open, preserves the invariant if it leaves that operation
\* current or closed.
LEMMA Footprint ==
    ASSUME TypeOK, Open, NEW o \in Op, NEW s \in Sandbox,
           \A p \in Op \ {o} : operations'[p] = operations[p] /\ jobs'[p] = jobs[p],
           \A r \in Sandbox \ {s} : sandboxes'[r] = sandboxes[r],
           \A p \in Op \ {o} : operations[p].status \in Nonterminal => operations[p].sandbox # s,
           operations'[o].status \in Nonterminal =>
              operations'[o].sandbox = s /\ sandbox_controller_operation_is_current(o)',
           operations'[o].status \in Terminal => jobs'[o].completed /\ ~jobs'[o].live,
           sandboxes'[s].state # "none"
    PROVE  Open'
<1>1. OneOpen'
  BY DEF Open, OneOpen
<1>2. EveryOperationIsCurrent'
  <2>. SUFFICES ASSUME NEW p \in Op, operations'[p].status \in Nonterminal
                PROVE  /\ operations'[p].sandbox \in Sandbox
                       /\ sandbox_controller_operation_is_current(p)'
    BY DEF EveryOperationIsCurrent
  <2>1. CASE p = o
    BY <2>1
  <2>2. CASE p # o
    <3>1. /\ operations'[p] = operations[p] /\ jobs'[p] = jobs[p]
          /\ operations[p].sandbox \in Sandbox \ {s}
          /\ sandbox_controller_operation_is_current(p)
      BY <2>2 DEF Open, EveryOperationIsCurrent
    <3>2. sandboxes'[operations[p].sandbox] = sandboxes[operations[p].sandbox]
      BY <3>1
    <3>. QED  BY <3>1, <3>2 DEF sandbox_controller_operation_is_current, Row
  <2>. QED  BY <2>1, <2>2
<1>3. ClosedJobs'
  BY DEF Open, ClosedJobs
<1>4. FreshRows'
  BY DEF Open, FreshRows
<1>. QED  BY <1>1, <1>2, <1>3, <1>4 DEF Open

\* A new operation is enqueued only when its sandbox has no open one, against
\* the version that the same transaction moves on from.
LEMMA OpenEnqueue ==
    ASSUME TypeOK, Open, NEW s \in Sandbox, NEW o \in Op, Enqueue(s, o)
    PROVE  Open'
<1>2. CASE createSandbox(s, o)
  <2>1. sandbox_controller_enqueue_operation(o, s, "create", 1)
    BY <1>2 DEF createSandbox, sandbox_create_bound_sandbox
  <2>2. /\ \A r \in Sandbox \ {s} : sandboxes'[r] = sandboxes[r]
        /\ sandboxes'[s].state = "requested" /\ sandboxes'[s].desired = "ready"
        /\ sandboxes'[s].version = 1 /\ sandboxes'[s].backend = None
    BY <1>2, RowTyped DEF createSandbox, sandbox_create_bound_sandbox, Update, TypeOK, Open,
       FreshRows
  <2>3. /\ operations'[o].sandbox = s /\ operations'[o].type = "create"
        /\ operations'[o].status = "pending" /\ operations'[o].expected = 1
        /\ jobs'[o].attempts = 0
        /\ \A p \in Op \ {o} : operations'[p] = operations[p] /\ jobs'[p] = jobs[p]
        /\ \A p \in Op \ {o} : operations[p].status \in Nonterminal => operations[p].sandbox # s
    BY <2>1 DEF sandbox_controller_enqueue_operation, NoNonterminal, TypeOK, IdleJob
  <2>4. sandbox_controller_operation_is_current(o)'
    BY <2>2, <2>3 DEF sandbox_controller_operation_is_current, Row
  <2>. QED  BY <2>2, <2>3, <2>4, Footprint DEF Terminal
<1>3. ASSUME NEW type \in {"stop", "delete"}, transitionSandbox(s, type),
             sandbox_controller_enqueue_operation(o, s, type, sandboxes[s].version)
      PROVE  Open'
  <2>1. /\ \A r \in Sandbox \ {s} : sandboxes'[r] = sandboxes[r]
        /\ sandboxes'[s].state = IF type = "stop" THEN "stopping" ELSE "deleting"
        /\ sandboxes'[s].desired = IF type = "stop" THEN "stopped" ELSE "deleted"
        /\ sandboxes'[s].version = sandboxes[s].version + 1
    BY <1>3, RowTyped DEF transitionSandbox, Update, TypeOK
  <2>2. /\ operations'[o].sandbox = s /\ operations'[o].type = type
        /\ operations'[o].status = "pending" /\ operations'[o].expected = sandboxes[s].version
        /\ \A p \in Op \ {o} : operations'[p] = operations[p] /\ jobs'[p] = jobs[p]
        /\ \A p \in Op \ {o} : operations[p].status \in Nonterminal => operations[p].sandbox # s
    BY <1>3 DEF sandbox_controller_enqueue_operation, NoNonterminal, TypeOK
  <2>3. sandbox_controller_operation_is_current(o)'
    BY <2>1, <2>2 DEF sandbox_controller_operation_is_current, Row
  <2>. QED  BY <2>1, <2>2, <2>3, Footprint DEF Terminal
<1>4. ASSUME NEW type \in {"stop", "delete"}, createOperation(s, o, type)
      PROVE  Open'
  BY <1>3, <1>4 DEF createOperation
<1>5. CASE sandbox_controller_enqueue_expired(s, o)
  BY <1>3, <1>5 DEF sandbox_controller_enqueue_expired
<1>6. CASE agent_run_controller_release_sandboxes(s, o)
  BY <1>3, <1>6 DEF agent_run_controller_release_sandboxes
<1>. QED  BY <1>2, <1>4, <1>5, <1>6 DEF Enqueue

\* An open operation that is ended, with an update of its own sandbox only.
LEMMA OpenEnd ==
    ASSUME TypeOK, Open, NEW o \in Op, operations[o].status \in Nonterminal,
           NEW n, NEW r, r.status \in Terminal, Terminate(o, n, r),
           NEW state, state # "none", NEW desired, NEW backend, NEW stopped_at,
           Update(operations[o].sandbox, state, desired, backend, stopped_at)
    PROVE  Open'
<1>. DEFINE s == operations[o].sandbox
<1>1. s \in Sandbox
  BY DEF Open, EveryOperationIsCurrent
<1>2. \A x \in Sandbox \ {s} : sandboxes'[x] = sandboxes[x]
  BY DEF Update, TypeOK
<1>3. sandboxes'[s].state = state
  BY <1>1 DEF Update, TypeOK
<1>4. /\ \A p \in Op \ {o} : operations'[p] = operations[p] /\ jobs'[p] = jobs[p]
      /\ operations'[o].status = r.status /\ jobs'[o] = FinishedJob(n)
  BY DEF Terminate, TypeOK, OperationRow
<1>5. \A p \in Op \ {o} : operations[p].status \in Nonterminal => operations[p].sandbox # s
  BY DEF Open, OneOpen
<1>6. operations'[o].status \notin Nonterminal /\ jobs'[o].completed /\ ~jobs'[o].live
  BY <1>4 DEF FinishedJob, Terminal, Nonterminal
<1>. HIDE DEF s
<1>. QED  BY <1>1, <1>2, <1>3, <1>4, <1>5, <1>6, Footprint

\* Giving up and completing end the operation.
LEMMA OpenGiveUp ==
    ASSUME TypeOK, Open, NEW o \in Op, operations[o].status \in Nonterminal, Exhaust(o)
    PROVE  Open'
<1>1. RecoveryReceipt(o).status \in Terminal
  BY DEF RecoveryReceipt, Receipt, Terminal
<1>. QED  BY <1>1, OpenEnd DEF Exhaust

\* A completion, whatever it reports, ends the operation.
LEMMA OpenComplete ==
    ASSUME TypeOK, Open, NEW o \in Op, operations[o].status \in Nonterminal,
           NEW n, NEW c \in CompletionRow, NEW admission,
           sandbox_controller_complete(o, n, c, admission)
    PROVE  Open'
<1>. DEFINE kept == IF c.destroyed THEN None ELSE Row(o).backend
            r == Receipt(c.status, c.cleanup, c.export, c.revoked, c.destroyed, kept, admission)
            state == Outcome(operations[o].type, c.status)
<1>1. /\ Terminate(o, n, r)
      /\ Update(operations[o].sandbox, state, Row(o).desired, kept, StoppedAt(o, c))
  BY DEF sandbox_controller_complete
<1>2. r.status \in Terminal
  BY DEF Receipt, CompletionRow
<1>3. state # "none"
  BY DEF Outcome
<1>. HIDE DEF r, kept, state
<1>. QED  BY <1>1, <1>2, <1>3, OpenEnd

\* A claim finds a current operation, so it leases it, exhausts it or completes
\* it; the stale branch is dead.
LEMMA OpenClaim ==
    ASSUME TypeOK, Open, NEW w \in Worker, NEW o \in Op, sandbox_controller_claim_v5(w, o)
    PROVE  Open'
<1>1. /\ operations[o].status \in Nonterminal
      /\ operations[o].sandbox \in Sandbox
      /\ sandbox_controller_operation_is_current(o)
  BY DEF sandbox_controller_claim_v5, Claimable, Open, EveryOperationIsCurrent
<1>2. CASE Exhaust(o)
  BY <1>1, <1>2, OpenGiveUp
<1>3. ASSUME NEW n, sandbox_controller_finalize_stopped_delete_v1(o, n)
      PROVE  Open'
  <2>1. /\ Completion("succeeded", None, TRUE, TRUE, TRUE, TRUE) \in CompletionRow
        /\ Completion("recovery_required", None, FALSE, FALSE, FALSE, FALSE) \in CompletionRow
    BY DEF Completion, CompletionRow, Terminal
  <2>2. ASSUME NEW c \in CompletionRow, NEW a, sandbox_controller_complete(o, n, c, a)
        PROVE  Open'
    BY <1>1, <2>2, OpenComplete
  <2>. QED  BY <1>3, <2>1, <2>2 DEF sandbox_controller_finalize_stopped_delete_v1
<1>4. CASE Lease(w, o)
  <2>. DEFINE s == operations[o].sandbox
  <2>1. /\ \A p \in Op \ {o} : operations'[p] = operations[p] /\ jobs'[p] = jobs[p]
        /\ operations'[o].status = "running" /\ operations'[o].type = operations[o].type
        /\ operations'[o].sandbox = s /\ operations'[o].expected = operations[o].expected
        /\ jobs'[o].attempts = jobs[o].attempts + 1
    BY <1>4 DEF Lease, TypeOK, OperationRow, LeasedJob
  <2>2. \A r \in Sandbox \ {s} : sandboxes'[r] = sandboxes[r]
    BY <1>4 DEF Lease, Update, TypeOK
  <2>3. \A p \in Op \ {o} : operations[p].status \in Nonterminal => operations[p].sandbox # s
    BY <1>1 DEF Open, OneOpen
  <2>4. jobs[o].attempts \in Nat /\ operations[o].expected \in Nat
    BY JobTyped, AttemptsAssumption DEF TypeOK, OperationRow
  <2>5. CASE operations[o].type = "create" /\ sandboxes[s].state = "requested"
    <3>1. /\ sandboxes'[s].state = "queued" /\ sandboxes'[s].desired = sandboxes[s].desired
          /\ sandboxes'[s].version = sandboxes[s].version + 1
          /\ sandboxes'[s].backend = sandboxes[s].backend
      BY <1>1, <1>4, <2>5 DEF Lease, Update, Row, TypeOK
    <3>2. sandbox_controller_operation_is_current(o)'
      BY <1>1, <2>1, <2>4, <2>5, <3>1 DEF sandbox_controller_operation_is_current, Row
    <3>. HIDE DEF s
    <3>. QED  BY <1>1, <2>1, <2>2, <2>3, <3>1, <3>2, Footprint DEF Terminal, s
  <2>6. CASE ~(operations[o].type = "create" /\ sandboxes[s].state = "requested")
    <3>1. sandboxes' = sandboxes
      BY <1>4, <2>6 DEF Lease, Row
    <3>2. sandbox_controller_operation_is_current(o)'
      BY <1>1, <2>1, <2>4, <2>6, <3>1 DEF sandbox_controller_operation_is_current, Row
    <3>3. sandboxes[s].state # "none"
      BY <1>1 DEF sandbox_controller_operation_is_current, Row
    <3>. QED  BY <1>1, <2>1, <2>2, <2>3, <3>1, <3>2, <3>3, Footprint DEF Terminal
  <2>. QED  BY <2>5, <2>6
<1>. QED  BY <1>1, <1>2, <1>3, <1>4 DEF sandbox_controller_claim_v5

\* A step that leaves operations, jobs and the sandbox rows alone.
LEMMA OpenUntouched ==
    ASSUME TypeOK, Open, operations' = operations, sandboxes' = sandboxes, jobs' = jobs
    PROVE  Open'
  BY DEF Open, OneOpen, EveryOperationIsCurrent, ClosedJobs, FreshRows,
     sandbox_controller_operation_is_current, Row

\* A call under a lease leaves its operation current or ends it.
LEMMA OpenLeased ==
    ASSUME TypeOK, Open, NEW o \in Op, NEW w \in Worker, NEW t \in Token, Leased(o, w, t)
    PROVE  Open'
<1>. DEFINE s == operations[o].sandbox
<1>1. operations[o].status = "running"
  BY DEF Leased, Fence, sandbox_controller_renew, sandbox_controller_bind_backend_v4,
     sandbox_controller_bind_backend_v3, sandbox_controller_bind_backend,
     sandbox_controller_record_source_materialization_v1, sandbox_controller_record_artifact_v1,
     sandbox_controller_complete_artifact_export_v1, sandbox_controller_retry,
     sandbox_controller_complete_v5
<1>2. /\ operations[o].status \in Nonterminal
      /\ s \in Sandbox
      /\ sandbox_controller_operation_is_current(o)
      /\ \A p \in Op \ {o} : operations[p].status \in Nonterminal => operations[p].sandbox # s
  BY <1>1 DEF Open, OneOpen, EveryOperationIsCurrent, Nonterminal
<1>3. CASE sandbox_controller_renew(o, w, t)
  BY <1>2, <1>3, OpenUntouched DEF sandbox_controller_renew, vars
<1>4. ASSUME NEW b \in Backend, sandbox_controller_bind_backend_v4(o, w, t, b)
      PROVE  Open'
  <2>1. operations' = operations /\ jobs' = jobs /\ operations[o].type = "create"
    BY <1>2, <1>4 DEF sandbox_controller_bind_backend_v4, sandbox_controller_bind_backend_v3,
       sandbox_controller_bind_backend
  <2>2. CASE sandboxes' = sandboxes
    BY <2>1, <2>2, OpenUntouched
  <2>3. CASE sandboxes' # sandboxes
    <3>1. /\ Update(s, "provisioning", sandboxes[s].desired, b, sandboxes[s].stopped_at)
          /\ sandboxes[s].backend = None
      BY <1>2, <1>4, <2>3 DEF sandbox_controller_bind_backend_v4,
         sandbox_controller_bind_backend_v3, sandbox_controller_bind_backend, Row
    <3>2. /\ sandboxes'[s].state = "provisioning" /\ sandboxes'[s].desired = sandboxes[s].desired
          /\ sandboxes'[s].version = sandboxes[s].version + 1 /\ sandboxes'[s].backend = b
          /\ \A r \in Sandbox \ {s} : sandboxes'[r] = sandboxes[r]
      BY <1>2, <3>1 DEF Update, TypeOK
    <3>3. b # None
      BY NoneAssumption
    <3>4. operations[o].expected \in Nat
      BY DEF TypeOK, OperationRow
    <3>5. sandbox_controller_operation_is_current(o)'
      BY <1>1, <1>2, <2>1, <3>1, <3>2, <3>3, <3>4 DEF sandbox_controller_operation_is_current, Row
    <3>. QED  BY <1>1, <1>2, <2>1, <3>2, <3>5, Footprint DEF Terminal
  <2>. QED  BY <2>2, <2>3
<1>5. ASSUME NEW b \in Backend,
             \/ sandbox_controller_record_source_materialization_v1(o, w, t, b)
             \/ sandbox_controller_record_artifact_v1(o, w, t, b)
             \/ sandbox_controller_complete_artifact_export_v1(o, w, t, b)
      PROVE  Open'
  BY <1>5, OpenUntouched DEF sandbox_controller_record_source_materialization_v1,
     sandbox_controller_record_artifact_v1, sandbox_controller_complete_artifact_export_v1
<1>6. CASE sandbox_controller_retry(o, w, t)
  <2>1. CASE Exhaust(o)
    BY <1>2, <2>1, OpenGiveUp
  <2>2. CASE ~Exhaust(o)
    <3>1. /\ jobs' = [jobs EXCEPT ![o] = IdleJob(jobs[o].attempts, FALSE)]
          /\ operations' = [operations EXCEPT ![o].status = "pending"]
          /\ sandboxes' = sandboxes
      BY <1>2, <1>6, <2>2 DEF sandbox_controller_retry
    <3>2. /\ \A p \in Op \ {o} : operations'[p] = operations[p] /\ jobs'[p] = jobs[p]
          /\ operations'[o].status = "pending" /\ operations'[o].type = operations[o].type
          /\ operations'[o].sandbox = s /\ operations'[o].expected = operations[o].expected
          /\ jobs'[o].attempts = jobs[o].attempts
      BY <3>1 DEF TypeOK, OperationRow, IdleJob
    <3>3. sandbox_controller_operation_is_current(o)'
      BY <1>1, <1>2, <3>1, <3>2 DEF sandbox_controller_operation_is_current, Row
    <3>4. sandboxes[s].state # "none"
      BY <1>2 DEF sandbox_controller_operation_is_current, Row
    <3>. QED  BY <1>2, <3>1, <3>2, <3>3, <3>4, Footprint DEF Terminal
  <2>. QED  BY <2>1, <2>2
<1>7. ASSUME NEW c \in Completions, sandbox_controller_complete_v5(o, w, t, c)
      PROVE  Open'
  <2>1. sandbox_controller_complete(o, jobs[o].attempts, c, admissions[operations[o].sandbox])
    BY <1>2, <1>7 DEF sandbox_controller_complete_v5
  <2>. QED  BY <1>2, <2>1, CompletionsTyped, OpenComplete
<1>. QED  BY <1>3, <1>4, <1>5, <1>6, <1>7 DEF Leased

\* Time only expires leases and lets retries fall due.
LEMMA OpenOther ==
    ASSUME TypeOK, Open,
           \/ \E o \in Op : LeaseExpires(o) \/ RetryFallsDue(o)
           \/ \E g \in Grant : GrantStep(g)
    PROVE  Open'
<1>1. ASSUME NEW o \in Op, LeaseExpires(o) \/ RetryFallsDue(o)
      PROVE  Open'
  <2>1. /\ operations' = operations /\ sandboxes' = sandboxes
        /\ \A p \in Op : /\ jobs'[p].attempts = jobs[p].attempts
                         /\ jobs'[p].completed = jobs[p].completed
                         /\ jobs'[p].live => jobs[p].live
    <3>1. CASE LeaseExpires(o)
      BY <3>1 DEF LeaseExpires, TypeOK, JobRow
    <3>2. CASE RetryFallsDue(o)
      BY <3>2 DEF RetryFallsDue, TypeOK, JobRow
    <3>. QED  BY <1>1, <3>1, <3>2
  <2>. QED  BY <2>1 DEF Open, OneOpen, EveryOperationIsCurrent, ClosedJobs, FreshRows,
               sandbox_controller_operation_is_current, Row
<1>2. ASSUME NEW g \in Grant, GrantStep(g)
      PROVE  Open'
  BY <1>2, OpenUntouched DEF GrantStep, createAccessGrant, agent_run_controller_issue_grant,
     sandbox_controller_consume_access_grant_v1
<1>. QED  BY <1>1, <1>2

\* Every transaction keeps the inductive invariant.
LEMMA OpenStep == TypeOK /\ Open /\ [Next]_vars => Open'
<1>. SUFFICES ASSUME TypeOK, Open, [Next]_vars PROVE Open'
  OBVIOUS
<1>1. CASE UNCHANGED vars
  BY <1>1, OpenUntouched DEF vars
<1>2. CASE Next
  BY <1>2, OpenEnqueue, OpenClaim, OpenLeased, OpenOther DEF Next
<1>. QED  BY <1>1, <1>2

\* Nothing is open in the empty tables.
LEMMA OpenInit == Init => Open
<1>. SUFFICES ASSUME Init PROVE Open
  OBVIOUS
<1>1. \A o \in Op : operations[o].status = "free"
  BY DEF Init
<1>2. FreshRows
  BY DEF Init, FreshRows
<1>. QED  BY <1>1, <1>2 DEF Open, OneOpen, EveryOperationIsCurrent, ClosedJobs, Nonterminal,
   Terminal

\* The inductive invariant holds in every reachable state.
THEOREM OpenInvariant == Spec => []Open
  BY TypeCorrect, OpenInit, OpenStep, PTL DEF Spec

\* Every pending or running operation is current in every reachable state: the
\* quarantine branches of the controller functions are never taken.
THEOREM NoOperationGoesStale == Spec => []EveryOperationIsCurrent
  BY OpenInvariant, PTL DEF Open

-----------------------------------------------------------------------------
(* What is terminal stays. *)

\* A step that writes the rows of one unfinished operation and of one sandbox
\* that is not deleted.
LEMMA KeepsFootprint ==
    ASSUME NEW o \in Op, NEW s, operations[o].status \notin Terminal,
           s \in Sandbox => sandboxes[s].state # "deleted",
           \A p \in Op \ {o} : /\ operations'[p] = operations[p] /\ jobs'[p] = jobs[p]
                               /\ receipts'[p] = receipts[p],
           \A r \in Sandbox \ {s} : sandboxes'[r] = sandboxes[r]
    PROVE  KeepsTerminal
  BY DEF KeepsTerminal

\* An open operation's sandbox is not deleted, because the operation is current.
LEMMA OpenNotDeleted ==
    ASSUME Open, NEW o \in Op, operations[o].status \in Nonterminal
    PROVE  /\ operations[o].status \notin Terminal
           /\ operations[o].sandbox \in Sandbox
           /\ sandboxes[operations[o].sandbox].state # "deleted"
           /\ sandbox_controller_operation_is_current(o)
  BY DEF Open, EveryOperationIsCurrent, sandbox_controller_operation_is_current, Row,
     Nonterminal, Terminal

\* A new operation takes a free row, and no deleted sandbox takes one.
LEMMA KeepsEnqueue ==
    ASSUME TypeOK, NEW s \in Sandbox, NEW o \in Op, Enqueue(s, o)
    PROVE  KeepsTerminal
<1>1. ASSUME NEW type, NEW e, NEW state, NEW desired, NEW backend, NEW at,
             Update(s, state, desired, backend, at),
             sandbox_controller_enqueue_operation(o, s, type, e),
             receipts' = receipts, sandboxes[s].state # "deleted"
      PROVE  KeepsTerminal
  <2>1. /\ operations[o].status \notin Terminal
        /\ \A p \in Op \ {o} : operations'[p] = operations[p] /\ jobs'[p] = jobs[p]
    BY <1>1 DEF sandbox_controller_enqueue_operation, TypeOK, Terminal
  <2>2. \A r \in Sandbox \ {s} : sandboxes'[r] = sandboxes[r]
    BY <1>1 DEF Update, TypeOK
  <2>. QED  BY <1>1, <2>1, <2>2, KeepsFootprint
<1>2. CASE createSandbox(s, o)
  BY <1>1, <1>2 DEF createSandbox, sandbox_create_bound_sandbox
<1>3. ASSUME NEW type \in {"stop", "delete"}, createOperation(s, o, type)
      PROVE  KeepsTerminal
  BY <1>1, <1>3 DEF createOperation, transitionSandbox, Blocked
<1>4. CASE sandbox_controller_enqueue_expired(s, o)
  BY <1>1, <1>4 DEF sandbox_controller_enqueue_expired, transitionSandbox
<1>5. CASE agent_run_controller_release_sandboxes(s, o)
  BY <1>1, <1>5 DEF agent_run_controller_release_sandboxes, transitionSandbox
<1>. QED  BY <1>2, <1>3, <1>4, <1>5 DEF Enqueue

\* Ending an open operation, with any receipt and any update of its sandbox.
LEMMA KeepsEnd ==
    ASSUME TypeOK, Open, NEW o \in Op, operations[o].status \in Nonterminal,
           NEW n, NEW r, Terminate(o, n, r), NEW state, NEW desired, NEW backend, NEW at,
           Update(operations[o].sandbox, state, desired, backend, at)
    PROVE  KeepsTerminal
<1>1. \A p \in Op \ {o} : /\ operations'[p] = operations[p] /\ jobs'[p] = jobs[p]
                         /\ receipts'[p] = receipts[p]
  BY DEF Terminate, TypeOK
<1>2. \A x \in Sandbox \ {operations[o].sandbox} : sandboxes'[x] = sandboxes[x]
  BY DEF Update, TypeOK
<1>. QED  BY <1>1, <1>2, OpenNotDeleted, KeepsFootprint

\* A claim changes an open operation and its sandbox only.
LEMMA KeepsClaim ==
    ASSUME TypeOK, Open, NEW w \in Worker, NEW o \in Op, sandbox_controller_claim_v5(w, o)
    PROVE  KeepsTerminal
<1>1. operations[o].status \in Nonterminal
  BY DEF sandbox_controller_claim_v5, Claimable
<1>2. CASE Exhaust(o)
  BY <1>1, <1>2, KeepsEnd DEF Exhaust
<1>3. ASSUME NEW n, sandbox_controller_finalize_stopped_delete_v1(o, n)
      PROVE  KeepsTerminal
  BY <1>1, <1>3, KeepsEnd DEF sandbox_controller_finalize_stopped_delete_v1,
     sandbox_controller_complete
<1>4. CASE Lease(w, o)
  <2>1. \A p \in Op \ {o} : /\ operations'[p] = operations[p] /\ jobs'[p] = jobs[p]
                           /\ receipts'[p] = receipts[p]
    BY <1>4 DEF Lease, TypeOK
  <2>2. \A r \in Sandbox \ {operations[o].sandbox} : sandboxes'[r] = sandboxes[r]
    BY <1>4 DEF Lease, Update, TypeOK
  <2>. QED  BY <1>1, <2>1, <2>2, OpenNotDeleted, KeepsFootprint
<1>. QED  BY <1>1, <1>2, <1>3, <1>4, OpenNotDeleted DEF sandbox_controller_claim_v5

\* A call under a lease changes an open operation and its sandbox only.
LEMMA KeepsLeased ==
    ASSUME TypeOK, Open, NEW o \in Op, NEW w \in Worker, NEW t \in Token, Leased(o, w, t)
    PROVE  KeepsTerminal
<1>1. operations[o].status \in Nonterminal
  BY DEF Leased, Fence, Nonterminal, sandbox_controller_renew,
     sandbox_controller_bind_backend_v4, sandbox_controller_bind_backend_v3,
     sandbox_controller_bind_backend,
     sandbox_controller_record_source_materialization_v1, sandbox_controller_record_artifact_v1,
     sandbox_controller_complete_artifact_export_v1, sandbox_controller_retry,
     sandbox_controller_complete_v5
<1>2. CASE sandbox_controller_renew(o, w, t)
  BY <1>1, <1>2, OpenNotDeleted DEF sandbox_controller_renew, vars, KeepsTerminal
<1>3. ASSUME NEW b \in Backend, sandbox_controller_bind_backend_v4(o, w, t, b)
      PROVE  KeepsTerminal
  <2>1. operations' = operations /\ jobs' = jobs /\ receipts' = receipts
    BY <1>1, <1>3, OpenNotDeleted DEF sandbox_controller_bind_backend_v4,
       sandbox_controller_bind_backend_v3, sandbox_controller_bind_backend
  <2>2. \A r \in Sandbox \ {operations[o].sandbox} : sandboxes'[r] = sandboxes[r]
    BY <1>1, <1>3, OpenNotDeleted DEF sandbox_controller_bind_backend_v4,
       sandbox_controller_bind_backend_v3, sandbox_controller_bind_backend, Update, TypeOK
  <2>. QED  BY <1>1, <2>1, <2>2, OpenNotDeleted, KeepsFootprint
<1>4. ASSUME NEW b \in Backend,
             \/ sandbox_controller_record_source_materialization_v1(o, w, t, b)
             \/ sandbox_controller_record_artifact_v1(o, w, t, b)
             \/ sandbox_controller_complete_artifact_export_v1(o, w, t, b)
      PROVE  KeepsTerminal
  BY <1>4 DEF sandbox_controller_record_source_materialization_v1, KeepsTerminal,
     sandbox_controller_record_artifact_v1, sandbox_controller_complete_artifact_export_v1
<1>5. CASE sandbox_controller_retry(o, w, t)
  <2>1. CASE Exhaust(o)
    BY <1>1, <2>1, KeepsEnd DEF Exhaust
  <2>2. CASE ~Exhaust(o)
    <3>1. /\ jobs' = [jobs EXCEPT ![o] = IdleJob(jobs[o].attempts, FALSE)]
          /\ operations' = [operations EXCEPT ![o].status = "pending"]
          /\ sandboxes' = sandboxes /\ receipts' = receipts
      BY <1>1, <1>5, <2>2, OpenNotDeleted DEF sandbox_controller_retry
    <3>2. \A p \in Op \ {o} : operations'[p] = operations[p] /\ jobs'[p] = jobs[p]
      BY <3>1 DEF TypeOK
    <3>. QED  BY <1>1, <3>1, <3>2, OpenNotDeleted, KeepsFootprint
  <2>. QED  BY <2>1, <2>2
<1>6. ASSUME NEW c \in Completions, sandbox_controller_complete_v5(o, w, t, c)
      PROVE  KeepsTerminal
  BY <1>1, <1>6, OpenNotDeleted, KeepsEnd DEF sandbox_controller_complete_v5,
     sandbox_controller_complete
<1>. QED  BY <1>2, <1>3, <1>4, <1>5, <1>6 DEF Leased

\* A terminal operation has no lease to expire and no retry to fall due.
LEMMA KeepsOther ==
    ASSUME TypeOK, Open,
           \/ \E o \in Op : LeaseExpires(o) \/ RetryFallsDue(o)
           \/ \E g \in Grant : GrantStep(g)
    PROVE  KeepsTerminal
<1>1. ASSUME NEW o \in Op, LeaseExpires(o) \/ RetryFallsDue(o)
      PROVE  KeepsTerminal
  <2>1. operations[o].status \notin Terminal
    BY <1>1 DEF LeaseExpires, RetryFallsDue, Open, ClosedJobs, Nonterminal, Terminal
  <2>2. \A p \in Op \ {o} : jobs'[p] = jobs[p]
    BY <1>1 DEF LeaseExpires, RetryFallsDue, TypeOK
  <2>. QED  BY <1>1, <2>1, <2>2 DEF LeaseExpires, RetryFallsDue, KeepsTerminal
<1>2. ASSUME NEW g \in Grant, GrantStep(g)
      PROVE  KeepsTerminal
  BY <1>2 DEF GrantStep, createAccessGrant, agent_run_controller_issue_grant,
     sandbox_controller_consume_access_grant_v1, KeepsTerminal
<1>. QED  BY <1>1, <1>2

\* Every transaction leaves what is terminal alone.
LEMMA KeepsStep == TypeOK /\ Open /\ [Next]_vars => [KeepsTerminal]_vars
  BY KeepsEnqueue, KeepsClaim, KeepsLeased, KeepsOther DEF Next

\* No transaction of the queue changes a terminal operation, its receipt, its
\* job or a deleted sandbox: late completions and re-claims are fenced off.
THEOREM TerminalStays == Spec => TerminalIsForever
  BY TypeCorrect, OpenInvariant, KeepsStep, PTL DEF Spec, TerminalIsForever
-----------------------------------------------------------------------------
(* No access after a stop. *)

\* A step keeps the grants of stopped sandboxes closed if the only sandboxes it
\* stops or deletes have no active grant left, and if it opens no grant.
LEMMA AccessFootprint ==
    ASSUME TypeOK, NoAccessAfterStop,
           \A g \in Grant \ RunGrant : grants'[g].state = "active" => grants'[g] = grants[g],
           \A s \in Sandbox : sandboxes'[s].state \in {"stopped", "deleted"} =>
              \/ sandboxes[s].state \in {"stopped", "deleted"}
              \/ \A g \in Grant : grants'[g].sandbox = s => grants'[g].state # "active"
    PROVE  NoAccessAfterStop'
  BY DEF NoAccessAfterStop, TypeOK

\* Moving a sandbox to any other state, with the grants untouched.
LEMMA AccessUpdate ==
    ASSUME TypeOK, NoAccessAfterStop, grants' = grants, NEW s,
           NEW state, state \notin {"stopped", "deleted"},
           NEW desired, NEW backend, NEW stopped_at,
           Update(s, state, desired, backend, stopped_at)
    PROVE  NoAccessAfterStop'
<1>1. \A r \in Sandbox : sandboxes'[r].state \in {"stopped", "deleted"} =>
         sandboxes[r].state \in {"stopped", "deleted"}
  BY DEF Update, TypeOK
<1>. QED  BY <1>1, AccessFootprint

\* A completion that stops or deletes its sandbox is refused unless it revokes
\* the sandbox's grants, which it does in the same transaction.
LEMMA AccessComplete ==
    ASSUME TypeOK, NoAccessAfterStop, NEW o \in Op, operations[o].status # "free",
           NEW n, NEW c \in CompletionRow, NEW admission,
           sandbox_controller_complete(o, n, c, admission)
    PROVE  NoAccessAfterStop'
<1>. DEFINE s == operations[o].sandbox
            state == Outcome(operations[o].type, c.status)
<1>1. s \in Sandbox /\ operations[o].type \in OperationType
  BY DEF TypeOK
<1>2. \A r \in Sandbox \ {s} : sandboxes'[r] = sandboxes[r]
  BY DEF sandbox_controller_complete, Update, TypeOK
<1>3. sandboxes'[s].state = state
  BY <1>1 DEF sandbox_controller_complete, Update, TypeOK
<1>4. \A g \in Grant : grants'[g].state = "active" => grants'[g] = grants[g]
  BY DEF sandbox_controller_complete, sandbox_revoke_access_grants, TypeOK, GrantRow
<1>5. CASE c.revoked
  <2>1. \A g \in Grant : grants'[g].sandbox = s => grants'[g].state # "active"
    BY <1>5 DEF sandbox_controller_complete, sandbox_revoke_access_grants, TypeOK, GrantRow
  <2>. QED  BY <1>2, <1>4, <2>1, AccessFootprint
<1>6. CASE ~c.revoked
  <2>1. state \notin {"stopped", "deleted"}
    BY <1>1, <1>6 DEF sandbox_controller_complete, Acceptable, Outcome, OperationType
  <2>. QED  BY <1>2, <1>3, <1>4, <2>1, AccessFootprint
<1>. QED  BY <1>5, <1>6

\* Giving an operation up stops nothing.
LEMMA AccessGiveUp ==
    ASSUME TypeOK, NoAccessAfterStop, NEW o \in Op,
           sandbox_controller_quarantine_stale(o) \/ Exhaust(o)
    PROVE  NoAccessAfterStop'
<1>1. CASE sandbox_controller_quarantine_stale(o)
  BY <1>1, AccessFootprint DEF sandbox_controller_quarantine_stale
<1>2. CASE Exhaust(o)
  BY <1>2, AccessUpdate DEF Exhaust
<1>. QED  BY <1>1, <1>2

\* Enqueueing a stop or a delete only announces it.
LEMMA AccessEnqueue ==
    ASSUME TypeOK, NoAccessAfterStop, NEW s \in Sandbox, NEW o \in Op, Enqueue(s, o)
    PROVE  NoAccessAfterStop'
<1>1. CASE createSandbox(s, o)
  BY <1>1, AccessUpdate DEF createSandbox, sandbox_create_bound_sandbox
<1>2. ASSUME NEW type \in {"stop", "delete"}, transitionSandbox(s, type), grants' = grants
      PROVE  NoAccessAfterStop'
  <2>1. (IF type = "stop" THEN "stopping" ELSE "deleting") \notin {"stopped", "deleted"}
    OBVIOUS
  <2>. QED  BY <1>2, <2>1, AccessUpdate DEF transitionSandbox
<1>3. ASSUME NEW type \in {"stop", "delete"}, createOperation(s, o, type)
      PROVE  NoAccessAfterStop'
  BY <1>2, <1>3 DEF createOperation
<1>4. CASE sandbox_controller_enqueue_expired(s, o)
  BY <1>2, <1>4 DEF sandbox_controller_enqueue_expired
<1>5. CASE agent_run_controller_release_sandboxes(s, o)
  BY <1>2, <1>5 DEF agent_run_controller_release_sandboxes
<1>. QED  BY <1>1, <1>3, <1>4, <1>5 DEF Enqueue

\* A claim stops or deletes a sandbox only through a completion.
LEMMA AccessClaim ==
    ASSUME TypeOK, NoAccessAfterStop, NEW w \in Worker, NEW o \in Op,
           sandbox_controller_claim_v5(w, o)
    PROVE  NoAccessAfterStop'
<1>1. operations[o].status # "free"
  BY DEF sandbox_controller_claim_v5, Claimable, Nonterminal
<1>2. CASE sandbox_controller_quarantine_stale(o) \/ Exhaust(o)
  BY <1>2, AccessGiveUp
<1>3. ASSUME NEW n, sandbox_controller_finalize_stopped_delete_v1(o, n)
      PROVE  NoAccessAfterStop'
  <2>1. /\ Completion("succeeded", None, TRUE, TRUE, TRUE, TRUE) \in CompletionRow
        /\ Completion("recovery_required", None, FALSE, FALSE, FALSE, FALSE) \in CompletionRow
    BY DEF Completion, CompletionRow, Terminal
  <2>2. ASSUME NEW c \in CompletionRow, NEW a, sandbox_controller_complete(o, n, c, a)
        PROVE  NoAccessAfterStop'
    BY <1>1, <2>2, AccessComplete
  <2>. QED  BY <1>3, <2>1, <2>2 DEF sandbox_controller_finalize_stopped_delete_v1
<1>4. CASE Lease(w, o)
  <2>1. CASE UNCHANGED sandboxes
    BY <1>4, <2>1, AccessFootprint DEF Lease
  <2>2. CASE Update(operations[o].sandbox, "queued", Row(o).desired, Row(o).backend,
     Row(o).stopped_at)
    BY <1>4, <2>2, AccessUpdate DEF Lease
  <2>. QED  BY <1>4, <2>1, <2>2 DEF Lease
<1>. QED  BY <1>2, <1>3, <1>4 DEF sandbox_controller_claim_v5

\* So does a call under a lease.
LEMMA AccessLeased ==
    ASSUME TypeOK, NoAccessAfterStop, NEW o \in Op, NEW w \in Worker, NEW t \in Token,
           Leased(o, w, t)
    PROVE  NoAccessAfterStop'
<1>1. CASE sandbox_controller_quarantine_stale(o) \/ Exhaust(o)
  BY <1>1, AccessGiveUp
<1>2. CASE UNCHANGED <<sandboxes, grants>>
  BY <1>2, AccessFootprint
<1>3. CASE sandbox_controller_renew(o, w, t)
  BY <1>1, <1>2, <1>3 DEF sandbox_controller_renew, vars
<1>4. ASSUME NEW b \in Backend, sandbox_controller_bind_backend_v4(o, w, t, b)
      PROVE  NoAccessAfterStop'
  <2>1. CASE grants' = grants /\ Update(operations[o].sandbox, "provisioning",
                                        Row(o).desired, b, Row(o).stopped_at)
    BY <2>1, AccessUpdate
  <2>. QED  BY <1>1, <1>2, <1>4, <2>1 DEF sandbox_controller_bind_backend_v4,
     sandbox_controller_bind_backend_v3, sandbox_controller_bind_backend
<1>5. ASSUME NEW b \in Backend,
             \/ sandbox_controller_record_source_materialization_v1(o, w, t, b)
             \/ sandbox_controller_record_artifact_v1(o, w, t, b)
             \/ sandbox_controller_complete_artifact_export_v1(o, w, t, b)
      PROVE  NoAccessAfterStop'
  BY <1>2, <1>5 DEF sandbox_controller_record_source_materialization_v1,
     sandbox_controller_record_artifact_v1, sandbox_controller_complete_artifact_export_v1
<1>6. CASE sandbox_controller_retry(o, w, t)
  BY <1>1, <1>2, <1>6 DEF sandbox_controller_retry
<1>7. ASSUME NEW c \in Completions, sandbox_controller_complete_v5(o, w, t, c)
      PROVE  NoAccessAfterStop'
  <2>1. operations[o].status # "free" /\ c \in CompletionRow
    BY <1>7, CompletionsTyped DEF sandbox_controller_complete_v5, Fence
  <2>2. ASSUME NEW n, NEW a, sandbox_controller_complete(o, n, c, a)
        PROVE  NoAccessAfterStop'
    BY <2>1, <2>2, AccessComplete
  <2>. QED  BY <1>1, <1>7, <2>2 DEF sandbox_controller_complete_v5
<1>. QED  BY <1>3, <1>4, <1>5, <1>6, <1>7 DEF Leased

\* The control API opens a grant only on a ready sandbox; consuming and expiring
\* close grants.
LEMMA AccessGrant ==
    ASSUME TypeOK, NoAccessAfterStop, NEW g \in Grant, GrantStep(g)
    PROVE  NoAccessAfterStop'
<1>1. ASSUME NEW s \in Sandbox, createAccessGrant(g, s)
      PROVE  NoAccessAfterStop'
  BY <1>1 DEF createAccessGrant, NoAccessAfterStop, TypeOK, GrantRow
<1>2. ASSUME NEW s \in Sandbox, agent_run_controller_issue_grant(g, s)
      PROVE  NoAccessAfterStop'
  BY <1>2 DEF agent_run_controller_issue_grant, NoAccessAfterStop, TypeOK, GrantRow
<1>3. ASSUME NEW late \in BOOLEAN, sandbox_controller_consume_access_grant_v1(g, late)
      PROVE  NoAccessAfterStop'
  BY <1>3 DEF sandbox_controller_consume_access_grant_v1, NoAccessAfterStop, TypeOK, GrantRow
<1>. QED  BY <1>1, <1>2, <1>3 DEF GrantStep

\* Every transaction keeps the grants of stopped and deleted sandboxes closed.
LEMMA AccessStep == TypeOK /\ NoAccessAfterStop /\ [Next]_vars => NoAccessAfterStop'
<1>. SUFFICES ASSUME TypeOK, NoAccessAfterStop, [Next]_vars PROVE NoAccessAfterStop'
  OBVIOUS
<1>1. CASE UNCHANGED vars
  BY <1>1, AccessFootprint DEF vars
<1>2. ASSUME NEW o \in Op, LeaseExpires(o) \/ RetryFallsDue(o)
      PROVE  NoAccessAfterStop'
  BY <1>2, AccessFootprint DEF LeaseExpires, RetryFallsDue
<1>3. CASE Next
  BY <1>2, <1>3, AccessEnqueue, AccessClaim, AccessLeased, AccessGrant DEF Next
<1>. QED  BY <1>1, <1>3

\* Once a sandbox is stopped or deleted no grant of the control API is active on
\* it: revocation and the state change are one transaction, and the API issues a
\* grant only under the lock of a ready sandbox.
THEOREM StoppedIsClosed == Spec => []NoAccessAfterStop
<1>1. Init => NoAccessAfterStop
  BY DEF Init, NoAccessAfterStop
<1>. QED  BY <1>1, TypeCorrect, AccessStep, PTL DEF Spec

-----------------------------------------------------------------------------
(* Ready, stopped and deleted sandboxes are backed by receipts. *)

\* An operation has its receipt exactly when it is terminal, with its status.
ReceiptOf(o) ==
    IF operations[o].status \in Terminal
      THEN receipts[o].status = operations[o].status
      ELSE receipts[o].status = "none" /\ ~receipts[o].destroyed

\* What a sandbox owes at any time; the last three are the properties, the
\* first two what makes them inductive: nothing is admitted before a bind, and
\* the backend that is bound is the one the sources were materialized in.
Unadmitted(s) ==
    sandboxes[s].state \in {"none", "requested", "queued"} =>
        admissions[s] = None /\ sandboxes[s].backend = None
SourcesNamed(s) ==
    s \in WithSources /\ sandboxes[s].backend # None => sources[s] = sandboxes[s].backend
Remembered(s) ==
    /\ sandboxes[s].backend \in {None, admissions[s]}
    /\ admissions[s] # None /\ sandboxes[s].backend = None =>
          \E o \in Op : /\ operations[o].sandbox = s
                        /\ receipts[o].destroyed
                        /\ receipts[o].admission = admissions[s]
ReadyProof(s, o) ==
    /\ operations[o].sandbox = s /\ operations[o].type = "create"
    /\ receipts[o].status = "succeeded"
    /\ receipts[o].backend = sandboxes[s].backend
Evidenced(s) ==
    sandboxes[s].state = "ready" =>
        /\ sandboxes[s].backend # None
        /\ s \in WithSources => sources[s] = sandboxes[s].backend
        /\ \E o \in Op : ReadyProof(s, o)
DeleteProof(s, o) ==
    /\ operations[o].sandbox = s
    /\ receipts[o].cleanup /\ receipts[o].revoked /\ receipts[o].destroyed
    /\ receipts[o].admission = admissions[s]
    /\ IF admissions[s] # None
         THEN o \in exports /\ receipts[o].status = "succeeded"
         ELSE operations[o].type = "create" /\ receipts[o].status = "failed"
Proven(s) ==
    sandboxes[s].state = "deleted" =>
        /\ s \in WithRequired => s \in artifacts
        /\ \E o \in Op : DeleteProof(s, o)

EvidenceOf(s) ==
    Unadmitted(s) /\ SourcesNamed(s) /\ Remembered(s) /\ Evidenced(s) /\ Proven(s)

\* The inductive invariant behind the three evidence properties.
Evidence == (\A o \in Op : ReceiptOf(o)) /\ (\A s \in Sandbox : EvidenceOf(s))

\* What an operation that is not terminal may change: its own row and receipt and
\* the rows of one sandbox; artifacts and exports only grow.
Touches(o, s) ==
    /\ operations[o].status \notin Terminal
    /\ \A p \in Op \ {o} : operations'[p] = operations[p] /\ receipts'[p] = receipts[p]
    /\ \A r \in Sandbox \ {s} : /\ sandboxes'[r] = sandboxes[r] /\ admissions'[r] = admissions[r]
                               /\ sources'[r] = sources[r]
    /\ artifacts \subseteq artifacts' /\ exports \subseteq exports'

\* Receipts that prove something are those of terminal operations, which such a
\* step does not touch: it owes only what its own sandbox needs.
LEMMA EvidenceFootprint ==
    ASSUME Evidence, NEW o \in Op, NEW s \in Sandbox, Touches(o, s), ReceiptOf(o)', EvidenceOf(s)'
    PROVE  Evidence'
<1>1. \A p \in Op : ReceiptOf(p)'
  BY DEF Evidence, Touches, ReceiptOf
<1>2. ASSUME NEW r \in Sandbox \ {s} PROVE EvidenceOf(r)'
  <2>1. EvidenceOf(r) /\ ReceiptOf(o)
    BY DEF Evidence
  <2>2. Unadmitted(r)' /\ SourcesNamed(r)'
    BY <2>1 DEF EvidenceOf, Unadmitted, SourcesNamed, Touches
  <2>3. Remembered(r)'
    BY <2>1 DEF EvidenceOf, Remembered, Touches, ReceiptOf
  <2>4. Evidenced(r)'
    BY <2>1 DEF EvidenceOf, Evidenced, ReadyProof, Touches, ReceiptOf
  <2>5. Proven(r)'
    BY <2>1 DEF EvidenceOf, Proven, DeleteProof, Touches, ReceiptOf
  <2>. QED  BY <2>2, <2>3, <2>4, <2>5 DEF EvidenceOf
<1>. QED  BY <1>1, <1>2 DEF Evidence

\* A step that leaves the backend, the admission and the sources of its sandbox
\* alone and does not make the sandbox ready, deleted or new.
LEMMA EvidenceKept ==
    ASSUME Evidence, NEW o \in Op, NEW s \in Sandbox, Touches(o, s), ReceiptOf(o)',
           sandboxes'[s].backend = sandboxes[s].backend,
           admissions'[s] = admissions[s], sources'[s] = sources[s],
           sandboxes'[s].state \in {"none", "requested", "queued"} =>
              sandboxes[s].state \in {"none", "requested", "queued"},
           sandboxes'[s].state \in {"ready", "deleted"} => sandboxes'[s].state = sandboxes[s].state
    PROVE  Evidence'
<1>1. EvidenceOf(s) /\ ReceiptOf(o)
  BY DEF Evidence
<1>2. Unadmitted(s)' /\ SourcesNamed(s)'
  BY <1>1 DEF EvidenceOf, Unadmitted, SourcesNamed
<1>3. Remembered(s)'
  BY <1>1 DEF EvidenceOf, Remembered, Touches, ReceiptOf
<1>4. Evidenced(s)'
  BY <1>1 DEF EvidenceOf, Evidenced, ReadyProof, Touches, ReceiptOf
<1>5. Proven(s)'
  BY <1>1 DEF EvidenceOf, Proven, DeleteProof, Touches, ReceiptOf
<1>. QED  BY <1>2, <1>3, <1>4, <1>5, EvidenceFootprint DEF EvidenceOf

\* Enqueueing leaves identities alone, and a new sandbox has none.
LEMMA EvidenceEnqueue ==
    ASSUME TypeOK, Evidence, NEW s \in Sandbox, NEW o \in Op, Enqueue(s, o)
    PROVE  Evidence'
<1>1. ASSUME NEW type, NEW e, sandbox_controller_enqueue_operation(o, s, type, e),
             NEW state, NEW desired, NEW backend, NEW at, Update(s, state, desired, backend, at),
             backend = sandboxes[s].backend,
             state \in {"stopping", "deleting"} \/ (state = "requested" /\ sandboxes[s].state = "none"),
             UNCHANGED <<receipts, admissions, sources, artifacts, exports>>
      PROVE  Evidence'
  <2>1. /\ sandboxes'[s].backend = sandboxes[s].backend /\ sandboxes'[s].state = state
        /\ \A r \in Sandbox \ {s} : sandboxes'[r] = sandboxes[r]
    BY <1>1 DEF Update, TypeOK
  <2>2. /\ operations[o].status = "free" /\ operations'[o].status = "pending"
        /\ \A p \in Op \ {o} : operations'[p] = operations[p]
    BY <1>1 DEF sandbox_controller_enqueue_operation, TypeOK
  <2>3. Touches(o, s)
    BY <1>1, <2>1, <2>2 DEF Touches, Terminal
  <2>4. ReceiptOf(o)'
    BY <1>1, <2>2 DEF Evidence, ReceiptOf, Terminal
  <2>. QED  BY <1>1, <2>1, <2>3, <2>4, EvidenceKept
<1>2. CASE createSandbox(s, o)
  <2>1. sandboxes[s].backend = None
    BY <1>2 DEF createSandbox, sandbox_create_bound_sandbox, Evidence, EvidenceOf, Unadmitted
  <2>. QED  BY <1>1, <1>2, <2>1 DEF createSandbox, sandbox_create_bound_sandbox
<1>3. ASSUME NEW type \in {"stop", "delete"}, transitionSandbox(s, type),
             sandbox_controller_enqueue_operation(o, s, type, sandboxes[s].version),
             UNCHANGED <<receipts, admissions, sources, artifacts, exports>>
      PROVE  Evidence'
  <2>. DEFINE state == IF type = "stop" THEN "stopping" ELSE "deleting"
  <2>1. state \in {"stopping", "deleting"}
    OBVIOUS
  <2>2. Update(s, state, IF type = "stop" THEN "stopped" ELSE "deleted", sandboxes[s].backend,
               sandboxes[s].stopped_at)
    BY <1>3 DEF transitionSandbox
  <2>. HIDE DEF state
  <2>. QED  BY <1>1, <1>3, <2>1, <2>2
<1>4. ASSUME NEW type \in {"stop", "delete"}, createOperation(s, o, type)
      PROVE  Evidence'
  BY <1>3, <1>4 DEF createOperation
<1>5. CASE sandbox_controller_enqueue_expired(s, o)
  BY <1>3, <1>5 DEF sandbox_controller_enqueue_expired
<1>6. CASE agent_run_controller_release_sandboxes(s, o)
  BY <1>3, <1>6 DEF agent_run_controller_release_sandboxes
<1>. QED  BY <1>2, <1>4, <1>5, <1>6 DEF Enqueue

\* An exhausted operation leaves its sandbox failed, with its backend.
LEMMA EvidenceExhaust ==
    ASSUME TypeOK, Open, Evidence, NEW o \in Op, operations[o].status \in Nonterminal, Exhaust(o)
    PROVE  Evidence'
<1>1. RecoveryReceipt(o).status \in Terminal
  BY DEF RecoveryReceipt, Receipt, Terminal
<1>. PICK s \in Sandbox : s = operations[o].sandbox
  BY OpenNotDeleted
<1>2. /\ Terminate(o, jobs[o].attempts, RecoveryReceipt(o))
      /\ Update(s, "failed", Row(o).desired, Row(o).backend, Row(o).stopped_at)
      /\ UNCHANGED <<admissions, sources, artifacts, exports>>
  BY DEF Exhaust
<1>3. /\ Touches(o, s) /\ ReceiptOf(o)'
      /\ sandboxes'[s].state = "failed" /\ sandboxes'[s].backend = sandboxes[s].backend
  <2>1. /\ \A p \in Op \ {o} : operations'[p] = operations[p] /\ receipts'[p] = receipts[p]
        /\ operations'[o].status = RecoveryReceipt(o).status
        /\ receipts'[o] = RecoveryReceipt(o)
    BY <1>2 DEF Terminate, TypeOK, OperationRow
  <2>2. /\ \A x \in Sandbox \ {s} : sandboxes'[x] = sandboxes[x]
        /\ sandboxes'[s].state = "failed" /\ sandboxes'[s].backend = sandboxes[s].backend
    BY <1>2 DEF Update, TypeOK, Row
  <2>3. Touches(o, s)
    BY <1>2, <2>1, <2>2 DEF Touches, Nonterminal, Terminal
  <2>4. ReceiptOf(o)'
    BY <1>1, <2>1 DEF ReceiptOf
  <2>. QED  BY <2>2, <2>3, <2>4
<1>. QED  BY <1>2, <1>3, EvidenceKept

\* A completion keeps the evidence when a receipt that reports an admitted
\* backend destroyed names it, and when a delete succeeds on such a receipt of
\* its own after an export, or on the proof of a create that failed.
LEMMA EvidenceComplete ==
    ASSUME TypeOK, Open, Evidence, NEW o \in Op, operations[o].status \in Nonterminal,
           NEW n, NEW c \in CompletionRow, NEW admission,
           sandbox_controller_complete(o, n, c, admission),
           admissions' = admissions, sources' = sources, artifacts' = artifacts,
           exports \subseteq exports',
           c.destroyed /\ admissions[operations[o].sandbox] # None =>
              admission = admissions[operations[o].sandbox],
           c.status = "succeeded" /\ operations[o].type = "delete" =>
              \/ /\ admissions[operations[o].sandbox] # None
                 /\ admission = admissions[operations[o].sandbox] /\ o \in exports'
              \/ \E p \in Op : FailedCreateProof(p, o)
    PROVE  Evidence'
<1>. PICK s \in Sandbox : s = operations[o].sandbox
  BY OpenNotDeleted
<1>. DEFINE kept == IF c.destroyed THEN None ELSE Row(o).backend
            state == Outcome(operations[o].type, c.status)
            r == Receipt(c.status, c.cleanup, c.export, c.revoked, c.destroyed, kept, admission)
<1>1. /\ Terminate(o, n, r) /\ Update(s, state, Row(o).desired, kept, StoppedAt(o, c))
      /\ Acceptable(o, c)
  BY DEF sandbox_controller_complete
<1>2. /\ r.status \in Terminal /\ r.status = c.status /\ r.cleanup = c.cleanup
      /\ r.revoked = c.revoked /\ r.destroyed = c.destroyed /\ r.backend = kept
      /\ r.admission = admission
  BY DEF Receipt, CompletionRow
<1>3. state \notin {"none", "requested", "queued"}
  BY DEF Outcome
<1>. HIDE DEF r, state
<1>4. /\ Touches(o, s) /\ ReceiptOf(o)'
      /\ sandboxes'[s].state = state /\ sandboxes'[s].backend = kept
      /\ operations'[o].sandbox = s /\ operations'[o].type = operations[o].type
      /\ receipts'[o] = r
  <2>1. /\ \A p \in Op \ {o} : operations'[p] = operations[p] /\ receipts'[p] = receipts[p]
        /\ operations'[o].status = r.status /\ receipts'[o] = r
        /\ operations'[o].sandbox = s /\ operations'[o].type = operations[o].type
    BY <1>1 DEF Terminate, TypeOK, OperationRow
  <2>2. /\ \A x \in Sandbox \ {s} : sandboxes'[x] = sandboxes[x]
        /\ sandboxes'[s].state = state /\ sandboxes'[s].backend = kept
    BY <1>1 DEF Update, TypeOK
  <2>3. Touches(o, s)
    BY <2>1, <2>2 DEF Touches, Nonterminal, Terminal
  <2>4. ReceiptOf(o)'
    BY <1>2, <2>1 DEF ReceiptOf
  <2>. QED  BY <2>1, <2>2, <2>3, <2>4
<1>5. EvidenceOf(s) /\ ReceiptOf(o) /\ kept \in {None, sandboxes[s].backend}
  BY <1>4 DEF Evidence, Row
<1>6. Unadmitted(s)' /\ SourcesNamed(s)'
  BY <1>3, <1>4, <1>5 DEF EvidenceOf, Unadmitted, SourcesNamed
<1>7. Remembered(s)'
  <2>1. CASE c.destroyed
    BY <1>2, <1>4, <2>1 DEF Remembered
  <2>2. CASE ~c.destroyed
    <3>1. kept = sandboxes[s].backend
      BY <2>2 DEF Row
    <3>. QED  BY <1>4, <1>5, <3>1 DEF EvidenceOf, Remembered, Touches, ReceiptOf, Nonterminal,
                 Terminal
  <2>. QED  BY <2>1, <2>2
<1>8. Evidenced(s)'
  <2>. SUFFICES ASSUME state = "ready" PROVE Evidenced(s)'
    BY <1>4 DEF Evidenced
  <2>1. c.status = "succeeded" /\ operations[o].type = "create"
    BY DEF state, Outcome
  <2>2. sandboxes[s].backend # None /\ kept = sandboxes[s].backend
    BY <1>1, <2>1 DEF Acceptable, Row
  <2>3. s \in WithSources => sources[s] = sandboxes[s].backend
    BY <1>5, <2>2 DEF EvidenceOf, SourcesNamed
  <2>4. ReadyProof(s, o)'
    BY <1>2, <1>4, <2>1 DEF ReadyProof
  <2>. QED  BY <1>4, <2>2, <2>3, <2>4 DEF Evidenced
<1>9. Proven(s)'
  <2>. SUFFICES ASSUME state = "deleted" PROVE Proven(s)'
    BY <1>4 DEF Proven
  <2>1. c.status = "succeeded" /\ operations[o].type = "delete"
    BY OpenNotDeleted DEF state, Outcome, sandbox_controller_operation_is_current
  <2>2. /\ c.cleanup /\ c.revoked /\ c.destroyed
        /\ s \in WithRequired => s \in artifacts
    BY <1>1, <2>1 DEF Acceptable
  <2>3. CASE admissions[s] # None /\ admission = admissions[s] /\ o \in exports'
    <3>1. DeleteProof(s, o)'
      BY <1>2, <1>4, <2>1, <2>2, <2>3 DEF DeleteProof
    <3>. QED  BY <2>2, <3>1 DEF Proven
  <2>4. ASSUME NEW p \in Op, FailedCreateProof(p, o) PROVE Proven(s)'
    <3>1. p # o /\ ReceiptOf(p)
      BY <2>4 DEF FailedCreateProof, Nonterminal, Evidence
    <3>2. DeleteProof(s, p)'
      BY <1>4, <2>4, <3>1 DEF DeleteProof, FailedCreateProof, Touches, ReceiptOf, Terminal
    <3>. QED  BY <2>2, <3>2 DEF Proven
  <2>. QED  BY <2>1, <2>3, <2>4
<1>. QED  BY <1>4, <1>6, <1>7, <1>8, <1>9, EvidenceFootprint DEF EvidenceOf

\* A claim leases or gives up, or deletes a sandbox without backend on proof.
LEMMA EvidenceClaim ==
    ASSUME TypeOK, Open, Evidence, NEW w \in Worker, NEW o \in Op,
           sandbox_controller_claim_v5(w, o)
    PROVE  Evidence'
<1>1. operations[o].status \in Nonterminal
  BY DEF sandbox_controller_claim_v5, Claimable
<1>. PICK s \in Sandbox : s = operations[o].sandbox
  BY <1>1, OpenNotDeleted
<1>2. CASE Exhaust(o)
  BY <1>1, <1>2, EvidenceExhaust
<1>3. ASSUME NEW n, sandbox_controller_finalize_stopped_delete_v1(o, n)
      PROVE  Evidence'
  <2>. DEFINE done == Completion("succeeded", None, TRUE, TRUE, TRUE, TRUE)
              unverified == Completion("recovery_required", None, FALSE, FALSE, FALSE, FALSE)
  <2>1. /\ done \in CompletionRow /\ done.status = "succeeded" /\ done.destroyed
        /\ unverified \in CompletionRow /\ unverified.status = "recovery_required"
        /\ ~unverified.destroyed
    BY DEF Completion, CompletionRow, Terminal
  <2>2. UNCHANGED <<admissions, sources, artifacts>> /\ exports \subseteq exports'
    BY <1>3 DEF sandbox_controller_finalize_stopped_delete_v1
  <2>. HIDE DEF done, unverified
  <2>3. ASSUME NEW p \in Op, StopProof(p, o) PROVE Evidence'
    <3>1. /\ sandbox_controller_complete(o, n, done, admissions[s]) /\ o \in exports'
          /\ admissions[s] # None
      BY <1>3, <2>3 DEF sandbox_controller_finalize_stopped_delete_v1, done, StopProof
    <3>. QED  BY <1>1, <2>1, <2>2, <3>1, EvidenceComplete
  <2>4. CASE ~(\E p \in Op : StopProof(p, o))
    <3>1. ASSUME NEW p \in Op, FailedCreateProof(p, o) PROVE Evidence'
      <4>1. sandbox_controller_complete(o, n, done, None) /\ admissions[s] = None
        BY <1>3, <2>4, <3>1 DEF sandbox_controller_finalize_stopped_delete_v1, done,
           FailedCreateProof
      <4>. QED  BY <1>1, <2>1, <2>2, <3>1, <4>1, EvidenceComplete
    <3>2. CASE ~(\E p \in Op : FailedCreateProof(p, o))
      <4>1. sandbox_controller_complete(o, n, unverified, None)
        BY <1>3, <2>4, <3>2 DEF sandbox_controller_finalize_stopped_delete_v1, unverified
      <4>. QED  BY <1>1, <2>1, <2>2, <4>1, EvidenceComplete
    <3>. QED  BY <3>1, <3>2
  <2>. QED  BY <2>3, <2>4
<1>4. CASE Lease(w, o)
  <2>1. operations[o].status \notin Terminal
    BY <1>1, OpenNotDeleted
  <2>2. /\ operations'[o].status = "running" /\ receipts' = receipts
        /\ \A p \in Op \ {o} : operations'[p] = operations[p]
    BY <1>4 DEF Lease, TypeOK, OperationRow
  <2>3. /\ \A x \in Sandbox \ {s} : sandboxes'[x] = sandboxes[x]
        /\ sandboxes'[s].backend = sandboxes[s].backend
        /\ \/ sandboxes'[s].state = sandboxes[s].state
           \/ sandboxes'[s].state = "queued" /\ sandboxes[s].state = "requested"
    BY <1>4, <2>1 DEF Lease, Update, Row, TypeOK
  <2>4. Touches(o, s)
    BY <1>4, <2>1, <2>2, <2>3 DEF Touches, Lease
  <2>5. ReceiptOf(o)'
    BY <2>1, <2>2 DEF ReceiptOf, Evidence, Terminal
  <2>. QED  BY <1>4, <2>1, <2>3, <2>4, <2>5, EvidenceKept DEF Lease
<1>. QED  BY <1>1, <1>2, <1>3, <1>4, OpenNotDeleted DEF sandbox_controller_claim_v5

\* Binding names the admitted backend once, the one the sources are in.
LEMMA EvidenceBind ==
    ASSUME TypeOK, Open, Evidence, NEW o \in Op, NEW w \in Worker, NEW t \in Token,
           NEW b \in Backend, sandbox_controller_bind_backend_v4(o, w, t, b)
    PROVE  Evidence'
<1>1. /\ operations[o].status \in Nonterminal /\ operations[o].type = "create" /\ b # None
  BY NoneAssumption DEF sandbox_controller_bind_backend_v4, sandbox_controller_bind_backend_v3,
     Fence, Nonterminal
<1>. PICK s \in Sandbox : s = operations[o].sandbox
  BY <1>1, OpenNotDeleted
<1>2. /\ operations[o].status \notin Terminal
      /\ sandbox_controller_operation_is_current(o)
  BY <1>1, OpenNotDeleted
<1>3. /\ sandbox_controller_bind_backend(o, b)
      /\ admissions' = [admissions EXCEPT ![s] = IF @ = None THEN b ELSE @]
      /\ UNCHANGED <<operations, receipts, sources, artifacts, exports>>
      /\ s \in WithSources => sources[s] = b
  BY <1>2 DEF sandbox_controller_bind_backend_v4, sandbox_controller_bind_backend_v3
<1>4. EvidenceOf(s) /\ ReceiptOf(o)
  BY <1>2 DEF Evidence
<1>5. sandboxes[s].state \in {"requested", "queued", "provisioning"}
  BY <1>1, <1>2 DEF sandbox_controller_operation_is_current, Row
<1>6. sandboxes[s].backend = None => admissions[s] = None
  BY <1>1, <1>2, <1>4 DEF sandbox_controller_operation_is_current, Row, EvidenceOf, Unadmitted
<1>7. /\ sandboxes'[s].backend = b /\ admissions'[s] = b
      /\ sandboxes'[s].state = "provisioning"
      /\ \A x \in Sandbox \ {s} : sandboxes'[x] = sandboxes[x] /\ admissions'[x] = admissions[x]
  <2>1. CASE sandboxes[s].backend = b
    <3>1. sandboxes' = sandboxes
      BY <1>3, <2>1 DEF sandbox_controller_bind_backend, Row
    <3>2. sandboxes[s].state = "provisioning"
      BY <1>1, <1>2, <2>1 DEF sandbox_controller_operation_is_current, Row
    <3>3. admissions[s] = b
      BY <1>1, <1>4, <2>1 DEF EvidenceOf, Remembered
    <3>. QED  BY <1>1, <1>2, <1>3, <2>1, <3>1, <3>2, <3>3 DEF TypeOK
  <2>2. CASE sandboxes[s].backend # b
    <3>1. Update(s, "provisioning", Row(o).desired, b, Row(o).stopped_at) /\ admissions[s] = None
      BY <1>3, <1>6, <2>2 DEF sandbox_controller_bind_backend, Row
    <3>. QED  BY <1>2, <1>3, <3>1 DEF Update, TypeOK
  <2>. QED  BY <2>1, <2>2
<1>8. Touches(o, s)
  BY <1>2, <1>3, <1>7 DEF Touches
<1>9. ReceiptOf(o)'
  BY <1>3, <1>4 DEF ReceiptOf
<1>10. EvidenceOf(s)'
  BY <1>1, <1>3, <1>7 DEF EvidenceOf, Unadmitted, SourcesNamed, Remembered, Evidenced, Proven
<1>. QED  BY <1>2, <1>8, <1>9, <1>10, EvidenceFootprint

\* The other calls under a lease.
LEMMA EvidenceLeased ==
    ASSUME TypeOK, Open, Evidence, NEW o \in Op, NEW w \in Worker, NEW t \in Token,
           Leased(o, w, t)
    PROVE  Evidence'
<1>1. operations[o].status \in Nonterminal
  BY DEF Leased, Fence, Nonterminal, sandbox_controller_renew,
     sandbox_controller_bind_backend_v4, sandbox_controller_bind_backend_v3,
     sandbox_controller_record_source_materialization_v1, sandbox_controller_record_artifact_v1,
     sandbox_controller_complete_artifact_export_v1, sandbox_controller_retry,
     sandbox_controller_complete_v5
<1>. PICK s \in Sandbox : s = operations[o].sandbox
  BY <1>1, OpenNotDeleted
<1>2. /\ operations[o].status \notin Terminal
      /\ sandbox_controller_operation_is_current(o)
  BY <1>1, OpenNotDeleted
<1>3. ReceiptOf(o) /\ EvidenceOf(s)
  BY <1>2 DEF Evidence
<1>4. ASSUME operations' = operations, receipts' = receipts, sandboxes' = sandboxes,
             admissions' = admissions, sources' = sources,
             artifacts \subseteq artifacts', exports \subseteq exports'
      PROVE  Evidence'
  <2>1. Touches(o, s) /\ ReceiptOf(o)'
    BY <1>2, <1>3, <1>4 DEF Touches, ReceiptOf
  <2>. QED  BY <1>2, <1>4, <2>1, EvidenceKept
<1>5. CASE sandbox_controller_renew(o, w, t)
  BY <1>2, <1>4, <1>5 DEF sandbox_controller_renew, vars
<1>6. ASSUME NEW b \in Backend, sandbox_controller_record_source_materialization_v1(o, w, t, b)
      PROVE  Evidence'
  <2>1. /\ UNCHANGED <<sandboxes, operations, receipts, admissions, artifacts, exports>>
        /\ sources[s] # None => sources' = sources
        /\ \A x \in Sandbox \ {s} : sources'[x] = sources[x]
    BY <1>2, <1>6 DEF sandbox_controller_record_source_materialization_v1, TypeOK
  <2>2. Touches(o, s) /\ ReceiptOf(o)'
    BY <1>2, <1>3, <2>1 DEF Touches, ReceiptOf
  <2>3. EvidenceOf(s)'
    BY <1>2, <1>3, <2>1 DEF EvidenceOf, Unadmitted, SourcesNamed, Remembered, Evidenced, Proven,
       ReadyProof, DeleteProof
  <2>. QED  BY <1>2, <2>2, <2>3, EvidenceFootprint
<1>7. ASSUME NEW b \in Backend,
             \/ sandbox_controller_record_artifact_v1(o, w, t, b)
             \/ sandbox_controller_complete_artifact_export_v1(o, w, t, b)
      PROVE  Evidence'
  BY <1>4, <1>7 DEF sandbox_controller_record_artifact_v1,
     sandbox_controller_complete_artifact_export_v1
<1>8. CASE sandbox_controller_retry(o, w, t)
  <2>1. CASE Exhaust(o)
    BY <1>1, <2>1, EvidenceExhaust
  <2>2. CASE ~Exhaust(o)
    <3>1. /\ operations' = [operations EXCEPT ![o].status = "pending"]
          /\ UNCHANGED <<sandboxes, receipts, admissions, sources, artifacts, exports>>
      BY <1>2, <1>8, <2>2 DEF sandbox_controller_retry
    <3>2. /\ operations'[o].status = "pending"
          /\ \A p \in Op \ {o} : operations'[p] = operations[p]
      BY <3>1 DEF TypeOK, OperationRow
    <3>3. Touches(o, s) /\ ReceiptOf(o)'
      BY <1>2, <1>3, <3>1, <3>2 DEF Touches, ReceiptOf, Terminal
    <3>. QED  BY <1>2, <3>1, <3>3, EvidenceKept
  <2>. QED  BY <2>1, <2>2
<1>9. ASSUME NEW c \in Completions, sandbox_controller_complete_v5(o, w, t, c)
      PROVE  Evidence'
  <2>1. /\ sandbox_controller_complete(o, jobs[o].attempts, c, admissions[s])
        /\ UNCHANGED <<admissions, sources, artifacts, exports>>
        /\ WrapperV5(o, c) /\ WrapperV3(o, c)
    BY <1>2, <1>9 DEF sandbox_controller_complete_v5
  <2>2. c \in CompletionRow
    BY CompletionsTyped
  <2>3. c.status = "succeeded" /\ operations[o].type = "delete" =>
           admissions[s] # None /\ o \in exports'
    BY <2>1 DEF WrapperV5, WrapperV3
  <2>. QED  BY <1>1, <2>1, <2>2, <2>3, EvidenceComplete
<1>. QED  BY <1>5, <1>6, <1>7, <1>8, <1>9, EvidenceBind DEF Leased

\* Every transaction keeps the evidence.
LEMMA EvidenceStep == TypeOK /\ Open /\ Evidence /\ [Next]_vars => Evidence'
<1>. SUFFICES ASSUME TypeOK, Open, Evidence, [Next]_vars PROVE Evidence'
  OBVIOUS
<1>1. CASE UNCHANGED <<operations, receipts, sandboxes, admissions, sources, artifacts, exports>>
  BY <1>1 DEF Evidence, ReceiptOf, EvidenceOf, Unadmitted, SourcesNamed, Remembered, Evidenced,
     Proven, ReadyProof, DeleteProof
<1>2. ASSUME NEW o \in Op, LeaseExpires(o) \/ RetryFallsDue(o) PROVE Evidence'
  BY <1>1, <1>2 DEF LeaseExpires, RetryFallsDue
<1>3. ASSUME NEW g \in Grant, GrantStep(g) PROVE Evidence'
  BY <1>1, <1>3 DEF GrantStep, createAccessGrant, agent_run_controller_issue_grant,
     sandbox_controller_consume_access_grant_v1
<1>4. CASE UNCHANGED vars
  BY <1>1, <1>4 DEF vars
<1>. QED  BY <1>2, <1>3, <1>4, EvidenceEnqueue, EvidenceClaim, EvidenceLeased DEF Next

\* Empty tables owe nothing.
LEMMA EvidenceInit == Init => Evidence
<1>. SUFFICES ASSUME Init PROVE Evidence
  OBVIOUS
<1>1. ASSUME NEW o \in Op PROVE ReceiptOf(o)
  BY DEF Init, ReceiptOf, Receipt, Terminal
<1>2. ASSUME NEW s \in Sandbox PROVE EvidenceOf(s)
  BY DEF Init, EvidenceOf, Unadmitted, SourcesNamed, Remembered, Evidenced, Proven
<1>. QED  BY <1>1, <1>2 DEF Evidence

\* Receipts, admissions, sources and rows agree in every reachable state.
THEOREM EvidenceInvariant == Spec => []Evidence
  BY TypeCorrect, OpenInvariant, EvidenceInit, EvidenceStep, PTL DEF Spec

\* The database never forgets a backend that may still run: a row names the
\* admitted backend until a receipt reports that very backend destroyed.
THEOREM NoBackendForgotten == Spec => []BackendIsNeverForgotten
<1>1. Evidence => BackendIsNeverForgotten
  BY DEF Evidence, EvidenceOf, Remembered, BackendIsNeverForgotten
<1>. QED  BY <1>1, EvidenceInvariant, PTL

\* A sandbox is ready only with an admitted backend that holds its sources and
\* with the receipt of the create that made it.
THEOREM ReadyHasEvidence == Spec => []ReadyIsEvidenced
<1>1. Evidence => ReadyIsEvidenced
  BY DEF Evidence, EvidenceOf, Evidenced, ReadyProof, ReadyIsEvidenced
<1>. QED  BY <1>1, EvidenceInvariant, PTL

\* A sandbox is deleted only on the receipt of a cleanup that exported and
\* destroyed what was admitted, or of a create that destroyed all it had made.
THEOREM DeletedHasProof == Spec => []DeletedIsProven
<1>1. Evidence => DeletedIsProven
  BY DEF Evidence, EvidenceOf, Proven, DeleteProof, DeletedIsProven
<1>. QED  BY <1>1, EvidenceInvariant, PTL

-----------------------------------------------------------------------------
(* The inductive invariant. *)

PC == Executing \cup {"idle", "failed", "destroying", "proving", "destroyed", "finish"}
WorkerRow ==
    [pc : PC, op : Op \cup {None}, token : 0 .. MaxAttempts, backend : Backend \cup {None},
     sources : Backend \cup {None}, exported : BOOLEAN, failure : Failure \cup {"none"}]
ClusterRow == [phase : Phase, uid : Backend \cup {None}]

ControllerTypeOK ==
    /\ workers \in [Worker -> WorkerRow]
    /\ retained \in [Worker -> [Sandbox -> Backend \cup {None}]]
    /\ cluster \in [Sandbox -> ClusterRow]
    /\ uids \subseteq Backend
    /\ \A s \in Sandbox : cluster[s].phase # "absent" => cluster[s].uid \in Backend

\* A worker that is not idle has claimed an operation under a token; past its
\* first observation it goes by an identity; it destroys unbound creates only;
\* and before it deletes anything the required artifact is stored.
Identified == {"sources", "release", "await", "bind", "ready"}
Cleaning == {"export", "receipt", "begin", "finalize", "absence", "cleaned"}
Stored(s) == s \in WithRequired => s \in artifacts
Equipped(w) ==
    workers[w].pc # "idle" =>
        /\ workers[w].op \in Op /\ workers[w].token \in Token
        /\ operations[workers[w].op].status # "free"
        /\ workers[w].pc \in Identified => Expected(w) \in Backend
        /\ workers[w].pc \in Cleaning => workers[w].backend \in Backend
        /\ workers[w].pc = "destroying" => Item(w).type = "create"
        /\ workers[w].exported \/ workers[w].pc = "begin" => Stored(Of(w))

\* What the holder of the lease has observed is still so: nobody else may change
\* the sandbox while the lease is live.
Seen(w) ==
    workers[w].pc # "idle" /\ Holds(w) =>
        /\ workers[w].pc \in {"bind", "ready"} =>
              cluster[Of(w)] = [phase |-> "running", uid |-> Expected(w)]
        /\ workers[w].pc \in {"cleaned", "destroyed"} => cluster[Of(w)].phase = "absent"

\* The create of a sandbox is its first operation, and an export is recorded
\* once the artifact is.
CreateFirst ==
    /\ \A o \in Op : operations[o].status # "free" =>
          sandboxes[operations[o].sandbox].state # "none"
    /\ \A o, p \in Op :
          /\ operations[o].status \in Nonterminal /\ operations[o].type = "create"
          /\ operations[p].status # "free" /\ operations[p].sandbox = operations[o].sandbox
          => p = o
ExportsStored ==
    \A o \in exports : operations[o].status # "free" /\ Stored(operations[o].sandbox)

QueueInv == TypeOK /\ Open /\ Evidence /\ CreateFirst /\ ExportsStored

ControllerInv ==
    /\ QueueInv /\ ControllerTypeOK
    /\ \A w \in Worker : Equipped(w) /\ Seen(w)
    /\ DestroyedMeansGone /\ ReadyIsRunning /\ NoArtifactLost

-----------------------------------------------------------------------------
(* What the queue's transactions leave alone. *)

\* Rows in use stay in use and keep their sandbox and type; artifacts stay.
Kept ==
    /\ \A o \in Op : operations[o].status # "free" =>
          /\ operations'[o].status # "free"
          /\ operations'[o].sandbox = operations[o].sandbox
          /\ operations'[o].type = operations[o].type
    /\ \A s \in Sandbox : sandboxes[s].state # "none" => sandboxes'[s].state # "none"
    /\ artifacts \subseteq artifacts'

\* A worker gets no lease out of the step.
NoNewLease(v) == \A o \in Op, t \in Token : Fence(o, v, t)' => Fence(o, v, t)

\* Nothing is enqueued.
NoNewOp == \A o \in Op : operations'[o].status # "free" => operations[o].status # "free"

\* Nothing is reported destroyed, ready or created.
Quiet ==
    /\ \A o \in Op : receipts'[o].destroyed => receipts[o].destroyed
    /\ \A s \in Sandbox : sandboxes'[s].state = "ready" => sandboxes'[s] = sandboxes[s]
    /\ \A o \in Op : operations'[o].type = "create" /\ operations'[o].status = "succeeded" =>
          operations[o].status = "succeeded"

\* The step writes the rows of one operation and of one sandbox.
Writes(o, s) ==
    /\ \A p \in Op \ {o} : /\ operations'[p] = operations[p] /\ jobs'[p] = jobs[p]
                           /\ receipts'[p] = receipts[p]
    /\ \A r \in Sandbox \ {s} : sandboxes'[r] = sandboxes[r]
    /\ artifacts \subseteq artifacts'

\* What such a step owes for those two rows.
LEMMA QuietFootprint ==
    ASSUME NEW o \in Op, NEW s \in Sandbox, Writes(o, s),
           operations[o].status # "free" =>
              /\ operations'[o].status # "free"
              /\ operations'[o].sandbox = operations[o].sandbox
              /\ operations'[o].type = operations[o].type,
           sandboxes[s].state # "none" => sandboxes'[s].state # "none"
    PROVE  /\ Kept /\ (operations[o].status # "free" => NoNewOp)
           /\ ~jobs'[o].live \/ jobs'[o].completed => \A v \in Worker : NoNewLease(v)
           /\ /\ receipts'[o].destroyed => receipts[o].destroyed
              /\ sandboxes'[s].state = "ready" => sandboxes'[s] = sandboxes[s]
              /\ operations'[o].type = "create" /\ operations'[o].status = "succeeded" =>
                    operations[o].status = "succeeded"
              => Quiet
<1>1. Kept /\ (operations[o].status # "free" => NoNewOp)
  BY DEF Kept, NoNewOp, Writes
<1>2. ASSUME ~jobs'[o].live \/ jobs'[o].completed, NEW v \in Worker PROVE NoNewLease(v)
  BY <1>2 DEF NoNewLease, Fence, Writes
<1>3. ASSUME receipts'[o].destroyed => receipts[o].destroyed,
             sandboxes'[s].state = "ready" => sandboxes'[s] = sandboxes[s],
             operations'[o].type = "create" /\ operations'[o].status = "succeeded" =>
                operations[o].status = "succeeded"
      PROVE  Quiet
  BY <1>3 DEF Quiet, Writes
<1>. QED  BY <1>1, <1>2, <1>3

\* Enqueueing reports nothing and leases nothing.
LEMMA QuietEnqueue ==
    ASSUME TypeOK, NEW s \in Sandbox, NEW o \in Op, Enqueue(s, o)
    PROVE  Kept /\ Quiet /\ \A v \in Worker : NoNewLease(v)
<1>1. ASSUME NEW type, NEW e, NEW state, NEW desired, NEW backend, NEW at,
             Update(s, state, desired, backend, at), state \notin {"none", "ready"},
             sandbox_controller_enqueue_operation(o, s, type, e),
             receipts' = receipts, artifacts' = artifacts
      PROVE  Kept /\ Quiet /\ \A v \in Worker : NoNewLease(v)
  <2>1. /\ operations[o].status = "free" /\ operations'[o].status = "pending"
        /\ ~jobs'[o].live
        /\ \A p \in Op \ {o} : operations'[p] = operations[p] /\ jobs'[p] = jobs[p]
    BY <1>1 DEF sandbox_controller_enqueue_operation, TypeOK, IdleJob
  <2>2. sandboxes'[s].state = state /\ \A r \in Sandbox \ {s} : sandboxes'[r] = sandboxes[r]
    BY <1>1 DEF Update, TypeOK
  <2>3. Writes(o, s)
    BY <1>1, <2>1, <2>2 DEF Writes
  <2>. QED  BY <1>1, <2>1, <2>2, <2>3, QuietFootprint
<1>2. CASE createSandbox(s, o)
  BY <1>1, <1>2 DEF createSandbox, sandbox_create_bound_sandbox
<1>3. ASSUME NEW type \in {"stop", "delete"}, transitionSandbox(s, type),
             sandbox_controller_enqueue_operation(o, s, type, sandboxes[s].version),
             receipts' = receipts, artifacts' = artifacts
      PROVE  Kept /\ Quiet /\ \A v \in Worker : NoNewLease(v)
  <2>1. (IF type = "stop" THEN "stopping" ELSE "deleting") \notin {"none", "ready"}
    OBVIOUS
  <2>. QED  BY <1>1, <1>3, <2>1 DEF transitionSandbox
<1>4. ASSUME NEW type \in {"stop", "delete"}, createOperation(s, o, type)
      PROVE  Kept /\ Quiet /\ \A v \in Worker : NoNewLease(v)
  BY <1>3, <1>4 DEF createOperation
<1>5. CASE sandbox_controller_enqueue_expired(s, o)
  BY <1>3, <1>5 DEF sandbox_controller_enqueue_expired
<1>6. CASE agent_run_controller_release_sandboxes(s, o)
  BY <1>3, <1>6 DEF agent_run_controller_release_sandboxes
<1>. QED  BY <1>2, <1>4, <1>5, <1>6 DEF Enqueue

\* Time and access grants.
LEMMA QuietOther ==
    ASSUME TypeOK,
           \/ \E o \in Op : LeaseExpires(o) \/ RetryFallsDue(o)
           \/ \E g \in Grant : GrantStep(g)
    PROVE  Kept /\ Quiet /\ \A v \in Worker : NoNewLease(v)
<1>1. ASSUME operations' = operations, receipts' = receipts, sandboxes' = sandboxes,
             artifacts' = artifacts,
             \A o \in Op : /\ jobs'[o].owner = jobs[o].owner /\ jobs'[o].token = jobs[o].token
                           /\ jobs'[o].completed = jobs[o].completed
                           /\ jobs'[o].live => jobs[o].live
      PROVE  Kept /\ Quiet /\ \A v \in Worker : NoNewLease(v)
  BY <1>1 DEF Kept, Quiet, NoNewLease, Fence
<1>2. ASSUME NEW o \in Op, LeaseExpires(o) \/ RetryFallsDue(o)
      PROVE  Kept /\ Quiet /\ \A v \in Worker : NoNewLease(v)
  <2>1. \A p \in Op : /\ jobs'[p].owner = jobs[p].owner /\ jobs'[p].token = jobs[p].token
                      /\ jobs'[p].completed = jobs[p].completed
                      /\ jobs'[p].live => jobs[p].live
    <3>1. CASE LeaseExpires(o)
      BY <3>1 DEF LeaseExpires, TypeOK, JobRow
    <3>2. CASE RetryFallsDue(o)
      BY <3>2 DEF RetryFallsDue, TypeOK, JobRow
    <3>. QED  BY <1>2, <3>1, <3>2
  <2>. QED  BY <1>1, <1>2, <2>1 DEF LeaseExpires, RetryFallsDue
<1>3. ASSUME NEW g \in Grant, GrantStep(g)
      PROVE  Kept /\ Quiet /\ \A v \in Worker : NoNewLease(v)
  BY <1>1, <1>3 DEF GrantStep, createAccessGrant, agent_run_controller_issue_grant,
     sandbox_controller_consume_access_grant_v1
<1>. QED  BY <1>2, <1>3

\* An operation a worker may speak for is open.
LEMMA FencedIsOpen ==
    ASSUME Open, NEW o \in Op, NEW w, NEW t, Fence(o, w, t)
    PROVE  /\ operations[o].status = "running" /\ operations[o].status \in Nonterminal
           /\ operations[o].sandbox \in Sandbox
           /\ sandbox_controller_operation_is_current(o)
           /\ sandboxes[operations[o].sandbox].state \notin {"none", "ready"}
<1>1. operations[o].status \in Nonterminal
  BY DEF Fence, Nonterminal
<1>. QED  BY <1>1, OpenNotDeleted DEF Fence, sandbox_controller_operation_is_current, Row

\* Giving an operation up reports nothing.
LEMMA QuietExhaust ==
    ASSUME TypeOK, Open, NEW o \in Op, operations[o].status \in Nonterminal, Exhaust(o)
    PROVE  Kept /\ NoNewOp /\ Quiet /\ \A v \in Worker : NoNewLease(v)
<1>1. PICK s \in Sandbox : s = operations[o].sandbox
  BY OpenNotDeleted
<1>2. RecoveryReceipt(o).status = "recovery_required" /\ ~RecoveryReceipt(o).destroyed
  BY DEF RecoveryReceipt, Receipt
<1>3. /\ \A p \in Op \ {o} : /\ operations'[p] = operations[p] /\ jobs'[p] = jobs[p]
                             /\ receipts'[p] = receipts[p]
      /\ operations'[o].status = "recovery_required" /\ ~receipts'[o].destroyed
      /\ operations'[o].sandbox = operations[o].sandbox
      /\ operations'[o].type = operations[o].type
      /\ jobs'[o].completed
  BY <1>2 DEF Exhaust, Terminate, FinishedJob, TypeOK, OperationRow
<1>4. /\ \A x \in Sandbox \ {s} : sandboxes'[x] = sandboxes[x]
      /\ sandboxes'[s].state = "failed"
  BY <1>1 DEF Exhaust, Update, TypeOK
<1>5. Writes(o, s)
  BY <1>3, <1>4 DEF Writes, Exhaust
<1>6. operations[o].status # "free"
  BY DEF Nonterminal
<1>. QED  BY <1>3, <1>4, <1>5, <1>6, QuietFootprint

\* The calls a worker makes on the way.
LEMMA QuietCall ==
    ASSUME TypeOK, Open, NEW o \in Op, NEW w \in Worker, NEW t, NEW b \in Backend,
           \/ sandbox_controller_bind_backend_v4(o, w, t, b)
           \/ sandbox_controller_record_source_materialization_v1(o, w, t, b)
           \/ sandbox_controller_record_artifact_v1(o, w, t, b)
           \/ sandbox_controller_complete_artifact_export_v1(o, w, t, b)
    PROVE  Kept /\ NoNewOp /\ Quiet /\ \A v \in Worker : NoNewLease(v)
<1>1. Fence(o, w, t)
  BY DEF sandbox_controller_bind_backend_v4, sandbox_controller_bind_backend_v3,
     sandbox_controller_record_source_materialization_v1, sandbox_controller_record_artifact_v1,
     sandbox_controller_complete_artifact_export_v1
<1>2. PICK s \in Sandbox : s = operations[o].sandbox
  BY <1>1, FencedIsOpen
<1>3. /\ operations[o].status \in Nonterminal /\ operations[o].status # "free"
      /\ sandbox_controller_operation_is_current(o)
      /\ sandboxes[s].state \notin {"none", "ready"}
  BY <1>1, <1>2, FencedIsOpen DEF Nonterminal
<1>4. CASE sandbox_controller_bind_backend_v4(o, w, t, b)
  <2>1. /\ operations' = operations /\ jobs' = jobs /\ receipts' = receipts
        /\ artifacts' = artifacts /\ sandbox_controller_bind_backend(o, b)
    BY <1>3, <1>4 DEF sandbox_controller_bind_backend_v4, sandbox_controller_bind_backend_v3
  <2>2. /\ \A x \in Sandbox \ {s} : sandboxes'[x] = sandboxes[x]
        /\ sandboxes'[s].state \notin {"none", "ready"}
    BY <1>2, <1>3, <2>1 DEF sandbox_controller_bind_backend, Update, TypeOK
  <2>3. Writes(o, s)
    BY <2>1, <2>2 DEF Writes
  <2>4. Kept /\ NoNewOp /\ Quiet
    BY <1>3, <2>1, <2>2, <2>3, QuietFootprint
  <2>. QED  BY <2>1, <2>4 DEF NoNewLease, Fence
<1>5. ASSUME operations' = operations, jobs' = jobs, receipts' = receipts, sandboxes' = sandboxes,
             artifacts \subseteq artifacts'
      PROVE  Kept /\ NoNewOp /\ Quiet /\ \A v \in Worker : NoNewLease(v)
  BY <1>5 DEF Kept, NoNewOp, Quiet, NoNewLease, Fence
<1>6. CASE \/ sandbox_controller_record_source_materialization_v1(o, w, t, b)
           \/ sandbox_controller_record_artifact_v1(o, w, t, b)
           \/ sandbox_controller_complete_artifact_export_v1(o, w, t, b)
  BY <1>5, <1>6 DEF sandbox_controller_record_source_materialization_v1,
     sandbox_controller_record_artifact_v1, sandbox_controller_complete_artifact_export_v1
<1>. QED  BY <1>4, <1>6

\* A retry gives the lease back.
LEMMA QuietRetry ==
    ASSUME TypeOK, Open, NEW o \in Op, NEW w, NEW t, sandbox_controller_retry(o, w, t)
    PROVE  Kept /\ NoNewOp /\ Quiet /\ \A v \in Worker : NoNewLease(v)
<1>1. PICK s \in Sandbox : s = operations[o].sandbox
  BY FencedIsOpen DEF sandbox_controller_retry
<1>2. /\ operations[o].status \in Nonterminal /\ operations[o].status # "free"
      /\ sandbox_controller_operation_is_current(o)
  BY FencedIsOpen DEF Nonterminal, sandbox_controller_retry
<1>3. CASE Exhaust(o)
  BY <1>2, <1>3, QuietExhaust
<1>4. CASE ~Exhaust(o)
  <2>1. /\ jobs' = [jobs EXCEPT ![o] = IdleJob(jobs[o].attempts, FALSE)]
        /\ operations' = [operations EXCEPT ![o].status = "pending"]
        /\ sandboxes' = sandboxes /\ receipts' = receipts /\ artifacts' = artifacts
    BY <1>2, <1>4 DEF sandbox_controller_retry
  <2>2. /\ operations'[o].status = "pending" /\ ~jobs'[o].live
        /\ operations'[o].sandbox = operations[o].sandbox
        /\ operations'[o].type = operations[o].type
        /\ \A p \in Op \ {o} : operations'[p] = operations[p] /\ jobs'[p] = jobs[p]
    BY <2>1 DEF TypeOK, OperationRow, IdleJob
  <2>3. Writes(o, s)
    BY <2>1, <2>2 DEF Writes
  <2>. QED  BY <1>2, <2>1, <2>2, <2>3, QuietFootprint
<1>. QED  BY <1>3, <1>4

\* The rows of o and of its sandbox s are ended as completion c says.
Ended(o, s, c) ==
    /\ \A p \in Op \ {o} : operations'[p] = operations[p] /\ receipts'[p] = receipts[p]
    /\ \A x \in Sandbox \ {s} : sandboxes'[x] = sandboxes[x]
    /\ operations'[o].status = c.status /\ receipts'[o].destroyed = c.destroyed
    /\ operations'[o].sandbox = s /\ operations'[o].type = operations[o].type
    /\ sandboxes'[s].state = "ready" =>
          c.status = "succeeded" /\ ~c.destroyed /\ sandboxes'[s].backend = c.backend
    /\ operations[o].type = "create" /\ c.status = "succeeded" => ~c.destroyed

\* A completion reports, of its own operation, what the worker told it.
LEMMA CompleteEffect ==
    ASSUME TypeOK, Open, NEW o \in Op, operations[o].status \in Nonterminal,
           NEW s \in Sandbox, s = operations[o].sandbox,
           NEW n, NEW c \in CompletionRow, NEW admission,
           sandbox_controller_complete(o, n, c, admission), artifacts' = artifacts
    PROVE  Kept /\ NoNewOp /\ (\A v \in Worker : NoNewLease(v)) /\ Ended(o, s, c)
<1>. DEFINE kept == IF c.destroyed THEN None ELSE Row(o).backend
            state == Outcome(operations[o].type, c.status)
            r == Receipt(c.status, c.cleanup, c.export, c.revoked, c.destroyed, kept, admission)
<1>1. /\ Terminate(o, n, r) /\ Update(s, state, Row(o).desired, kept, StoppedAt(o, c))
      /\ Acceptable(o, c)
  BY DEF sandbox_controller_complete
<1>2. r.status = c.status /\ r.destroyed = c.destroyed /\ c.status \in Terminal
  BY DEF Receipt, CompletionRow
<1>3. state # "none" /\ (state = "ready" => c.status = "succeeded" /\ operations[o].type = "create")
  BY OpenNotDeleted DEF Outcome, sandbox_controller_operation_is_current
<1>. HIDE DEF r, state
<1>4. /\ \A p \in Op \ {o} : /\ operations'[p] = operations[p] /\ jobs'[p] = jobs[p]
                             /\ receipts'[p] = receipts[p]
      /\ operations'[o].status = c.status /\ receipts'[o].destroyed = c.destroyed
      /\ operations'[o].sandbox = s /\ operations'[o].type = operations[o].type
      /\ jobs'[o].completed
  BY <1>1, <1>2 DEF Terminate, FinishedJob, TypeOK, OperationRow
<1>5. /\ \A x \in Sandbox \ {s} : sandboxes'[x] = sandboxes[x]
      /\ sandboxes'[s].state = state /\ sandboxes'[s].backend = kept
  BY <1>1 DEF Update, TypeOK
<1>6. Writes(o, s)
  BY <1>4, <1>5 DEF Writes
<1>7. c.status # "free" /\ operations[o].status # "free"
  BY <1>2 DEF Terminal, Nonterminal
<1>8. Kept /\ NoNewOp /\ \A v \in Worker : NoNewLease(v)
  BY <1>3, <1>4, <1>5, <1>6, <1>7, QuietFootprint
<1>9. ASSUME state = "ready" PROVE c.status = "succeeded" /\ ~c.destroyed /\ kept = c.backend
  BY <1>1, <1>3, <1>9 DEF Acceptable, Row
<1>10. operations[o].type = "create" /\ c.status = "succeeded" => ~c.destroyed
  BY <1>1 DEF Acceptable
<1>. QED  BY <1>4, <1>5, <1>8, <1>9, <1>10 DEF Ended

\* Whatever is destroyed after the step had a destroyed receipt before it, and
\* nothing becomes ready or created.
Repeats ==
    /\ \A p \in Op : receipts'[p].destroyed =>
          \E q \in Op : receipts[q].destroyed /\ operations[q].sandbox = operations'[p].sandbox
    /\ \A s \in Sandbox : sandboxes'[s].state = "ready" => sandboxes'[s] = sandboxes[s]
    /\ \A p \in Op : operations'[p].type = "create" /\ operations'[p].status = "succeeded" =>
          operations[p].status = "succeeded"

\* A row with a destroyed receipt is in use, so a quiet step repeats.
LEMMA QuietRepeats ==
    ASSUME Evidence, Kept, Quiet
    PROVE  Repeats
<1>1. \A p \in Op : receipts[p].destroyed => operations[p].status # "free"
  BY DEF Evidence, ReceiptOf, Terminal
<1>. QED  BY <1>1 DEF Kept, Quiet, Repeats

\* A claim leases to the worker that made it, or ends the operation; a delete it
\* ends as done rests on an earlier receipt that the backend was destroyed.
LEMMA ClaimEffect ==
    ASSUME TypeOK, Open, Evidence, NEW w \in Worker, NEW o \in Op,
           sandbox_controller_claim_v5(w, o)
    PROVE  /\ Kept /\ NoNewOp /\ Repeats /\ \A v \in Worker \ {w} : NoNewLease(v)
           /\ operations[o].status \in Nonterminal
           /\ jobs'[o].owner = w => jobs'[o].token \in Token
           /\ jobs'[o].owner # w => NoNewLease(w)
<1>1. /\ operations[o].status \in Nonterminal
      /\ sandbox_controller_operation_is_current(o)
  BY OpenNotDeleted DEF sandbox_controller_claim_v5, Claimable
<1>2. PICK s \in Sandbox : s = operations[o].sandbox
  BY <1>1, OpenNotDeleted
<1>3. CASE Exhaust(o)
  <2>1. jobs'[o].owner # w
    BY <1>3, NoneAssumption DEF Exhaust, Terminate, FinishedJob, TypeOK
  <2>. QED  BY <1>1, <1>3, <2>1, QuietExhaust, QuietRepeats
<1>4. ASSUME NEW n, sandbox_controller_finalize_stopped_delete_v1(o, n)
      PROVE  Kept /\ NoNewOp /\ Repeats /\ (\A v \in Worker : NoNewLease(v)) /\ jobs'[o].owner # w
  <2>. DEFINE done == Completion("succeeded", None, TRUE, TRUE, TRUE, TRUE)
              unverified == Completion("recovery_required", None, FALSE, FALSE, FALSE, FALSE)
  <2>1. /\ done \in CompletionRow /\ done.destroyed
        /\ unverified \in CompletionRow /\ ~unverified.destroyed
        /\ unverified.status # "succeeded"
    BY DEF Completion, CompletionRow, Terminal
  <2>2. artifacts' = artifacts
    BY <1>4 DEF sandbox_controller_finalize_stopped_delete_v1
  <2>3. \E a : \/ /\ sandbox_controller_complete(o, n, done, a)
                  /\ \E q \in Op : receipts[q].destroyed /\ operations[q].sandbox = s
               \/ sandbox_controller_complete(o, n, unverified, a)
    BY <1>2, <1>4 DEF sandbox_controller_finalize_stopped_delete_v1, StopProof, FailedCreateProof
  <2>. HIDE DEF done, unverified
  <2>4. PICK c \in CompletionRow :
           /\ \E a : sandbox_controller_complete(o, n, c, a)
           /\ c.destroyed => \E q \in Op : receipts[q].destroyed /\ operations[q].sandbox = s
           /\ c.status = "succeeded" => c.destroyed
    BY <2>1, <2>3
  <2>5. Kept /\ NoNewOp /\ (\A v \in Worker : NoNewLease(v)) /\ Ended(o, s, c)
    BY <1>1, <1>2, <2>2, <2>4, CompleteEffect
  <2>6. jobs'[o].owner # w
    BY <2>4, NoneAssumption DEF sandbox_controller_complete, Terminate, FinishedJob, TypeOK
  <2>7. Repeats
    BY <2>4, <2>5 DEF Repeats, Ended
  <2>. QED  BY <2>5, <2>6, <2>7
<1>5. ASSUME Lease(w, o)
      PROVE  Kept /\ NoNewOp /\ Repeats /\ (\A v \in Worker \ {w} : NoNewLease(v)) /\ jobs'[o].owner = w
  <2>1. /\ \A p \in Op \ {o} : operations'[p] = operations[p] /\ jobs'[p] = jobs[p]
        /\ operations'[o].status = "running"
        /\ operations'[o].sandbox = operations[o].sandbox
        /\ operations'[o].type = operations[o].type
        /\ jobs'[o].owner = w /\ jobs'[o].token = jobs[o].attempts + 1
        /\ receipts' = receipts /\ artifacts' = artifacts
    BY <1>5 DEF Lease, LeasedJob, TypeOK, OperationRow
  <2>2. /\ \A x \in Sandbox \ {s} : sandboxes'[x] = sandboxes[x]
        /\ sandboxes'[s] = sandboxes[s] \/ sandboxes'[s].state = "queued"
    BY <1>2, <1>5 DEF Lease, Update, TypeOK
  <2>3. Writes(o, s)
    BY <2>1, <2>2 DEF Writes
  <2>4. Kept /\ NoNewOp /\ Quiet
    BY <1>1, <2>1, <2>2, <2>3, QuietFootprint DEF Nonterminal
  <2>5. \A v \in Worker \ {w} : NoNewLease(v)
    BY <2>1 DEF NoNewLease, Fence
  <2>. QED  BY <2>1, <2>4, <2>5, QuietRepeats
<1>6. ASSUME Lease(w, o), jobs[o].attempts < MaxAttempts PROVE jobs'[o].token \in Token
  <2>1. jobs'[o].token = jobs[o].attempts + 1
    BY <1>6 DEF Lease, LeasedJob, TypeOK
  <2>. QED  BY <1>6, <2>1, JobTyped, AttemptsAssumption DEF Token
<1>. QED  BY <1>1, <1>3, <1>4, <1>5, <1>6, JobTyped, AttemptsAssumption
     DEF sandbox_controller_claim_v5

-----------------------------------------------------------------------------
(* Creates come first, and exports follow their artifact. *)

\* The status of a row in use.
LEMMA StatusTyped ==
    ASSUME TypeOK, NEW o \in Op, operations[o].status # "free"
    PROVE  /\ operations[o].sandbox \in Sandbox
           /\ operations[o].status \in Nonterminal \/ operations[o].status \in Terminal
  BY DEF TypeOK, OperationRow

\* A step that enqueues nothing keeps the order of a sandbox's operations.
LEMMA OrderKept ==
    ASSUME TypeOK, CreateFirst, Kept, NoNewOp, KeepsTerminal
    PROVE  CreateFirst'
<1>1. ASSUME NEW o \in Op, operations'[o].status # "free"
      PROVE  sandboxes'[operations'[o].sandbox].state # "none"
  BY <1>1, StatusTyped DEF CreateFirst, Kept, NoNewOp
<1>2. ASSUME NEW o \in Op, NEW p \in Op,
             operations'[o].status \in Nonterminal, operations'[o].type = "create",
             operations'[p].status # "free", operations'[p].sandbox = operations'[o].sandbox
      PROVE  p = o
  <2>1. operations[o].status # "free" /\ operations[p].status # "free"
    BY <1>2 DEF NoNewOp, Nonterminal
  <2>2. operations[o].status \in Nonterminal
    BY <1>2, <2>1, StatusTyped DEF KeepsTerminal, Nonterminal, Terminal
  <2>. QED  BY <1>2, <2>1, <2>2 DEF CreateFirst, Kept
<1>. QED  BY <1>1, <1>2 DEF CreateFirst

\* The create is enqueued with the sandbox's row, later operations once it is done.
LEMMA OrderEnqueue ==
    ASSUME TypeOK, CreateFirst, NEW s \in Sandbox, NEW o \in Op, Enqueue(s, o)
    PROVE  CreateFirst'
<1>1. ASSUME NEW type, NEW e, sandbox_controller_enqueue_operation(o, s, type, e),
             NEW state, NEW desired, NEW backend, NEW at, Update(s, state, desired, backend, at),
             state # "none", type = "create" => sandboxes[s].state = "none"
      PROVE  CreateFirst'
  <2>1. /\ \A p \in Op \ {o} : operations'[p] = operations[p]
        /\ operations'[o].sandbox = s /\ operations'[o].type = type
        /\ \A p \in Op : operations[p].sandbox = s => operations[p].status \notin Nonterminal
    BY <1>1 DEF sandbox_controller_enqueue_operation, NoNonterminal, TypeOK
  <2>2. /\ sandboxes'[s].state # "none"
        /\ \A r \in Sandbox \ {s} : sandboxes'[r] = sandboxes[r]
    BY <1>1 DEF Update, TypeOK
  <2>3. ASSUME NEW p \in Op, operations'[p].status # "free"
        PROVE  sandboxes'[operations'[p].sandbox].state # "none"
    BY <2>1, <2>2, <2>3, StatusTyped DEF CreateFirst
  <2>4. ASSUME NEW p \in Op, NEW q \in Op,
               operations'[p].status \in Nonterminal, operations'[p].type = "create",
               operations'[q].status # "free", operations'[q].sandbox = operations'[p].sandbox
        PROVE  q = p
    <3>1. CASE p = o
      BY <1>1, <2>1, <2>4, <3>1 DEF CreateFirst
    <3>2. CASE p # o /\ q = o
      BY <2>1, <2>4, <3>2
    <3>3. CASE p # o /\ q # o
      BY <2>1, <2>4, <3>3 DEF CreateFirst
    <3>. QED  BY <3>1, <3>2, <3>3
  <2>. QED  BY <2>3, <2>4 DEF CreateFirst
<1>2. CASE createSandbox(s, o)
  BY <1>1, <1>2 DEF createSandbox, sandbox_create_bound_sandbox
<1>3. ASSUME NEW type \in {"stop", "delete"}, transitionSandbox(s, type),
             sandbox_controller_enqueue_operation(o, s, type, sandboxes[s].version)
      PROVE  CreateFirst'
  <2>1. (IF type = "stop" THEN "stopping" ELSE "deleting") # "none"
    OBVIOUS
  <2>. QED  BY <1>1, <1>3, <2>1 DEF transitionSandbox
<1>4. ASSUME NEW type \in {"stop", "delete"}, createOperation(s, o, type)
      PROVE  CreateFirst'
  BY <1>3, <1>4 DEF createOperation
<1>5. CASE sandbox_controller_enqueue_expired(s, o)
  BY <1>3, <1>5 DEF sandbox_controller_enqueue_expired
<1>6. CASE agent_run_controller_release_sandboxes(s, o)
  BY <1>3, <1>6 DEF agent_run_controller_release_sandboxes
<1>. QED  BY <1>2, <1>4, <1>5, <1>6 DEF Enqueue

\* What a call under a lease leaves alone.
LEMMA LeasedEffect ==
    ASSUME TypeOK, Open, NEW o \in Op, NEW w \in Worker, NEW t \in Token, Leased(o, w, t)
    PROVE  Kept /\ NoNewOp /\ \A v \in Worker : NoNewLease(v)
<1>1. CASE sandbox_controller_renew(o, w, t)
  <2>1. UNCHANGED vars
    BY <1>1, FencedIsOpen DEF sandbox_controller_renew
  <2>. QED  BY <2>1 DEF vars, Kept, NoNewOp, NoNewLease, Fence
<1>2. ASSUME NEW c \in Completions, sandbox_controller_complete_v5(o, w, t, c)
      PROVE  Kept /\ NoNewOp /\ \A v \in Worker : NoNewLease(v)
  <2>1. PICK s \in Sandbox : s = operations[o].sandbox
    BY <1>2, FencedIsOpen DEF sandbox_controller_complete_v5
  <2>2. /\ operations[o].status \in Nonterminal
        /\ \E n, a : sandbox_controller_complete(o, n, c, a)
        /\ artifacts' = artifacts
    BY <1>2, FencedIsOpen DEF sandbox_controller_complete_v5
  <2>3. c \in CompletionRow
    BY CompletionsTyped
  <2>. QED  BY <2>1, <2>2, <2>3, CompleteEffect
<1>. QED  BY <1>1, <1>2, QuietRetry, QuietCall DEF Leased

\* An export is recorded for an open operation whose artifact is stored.
LEMMA ExportsStep ==
    ASSUME TypeOK, Open, ExportsStored, Kept, Next
    PROVE  ExportsStored'
<1>1. ASSUME \A o \in exports' \ exports : /\ o \in Op /\ operations[o].status # "free"
                                           /\ Stored(operations[o].sandbox)
      PROVE  ExportsStored'
  <2>1. ASSUME NEW o \in exports'
        PROVE  /\ operations'[o].status # "free"
               /\ operations'[o].sandbox \in WithRequired => operations'[o].sandbox \in artifacts'
    BY <1>1, <2>1 DEF ExportsStored, Kept, Stored, TypeOK
  <2>. QED  BY <2>1 DEF ExportsStored, Stored
<1>2. CASE exports' = exports
  BY <1>1, <1>2
<1>3. ASSUME NEW w \in Worker, NEW o \in Op, sandbox_controller_claim_v5(w, o)
      PROVE  ExportsStored'
  <2>1. operations[o].status # "free" /\ sandbox_controller_operation_is_current(o)
    BY <1>3, OpenNotDeleted DEF sandbox_controller_claim_v5, Claimable, Nonterminal
  <2>2. ASSUME NEW n, sandbox_controller_finalize_stopped_delete_v1(o, n) PROVE ExportsStored'
    <3>. DEFINE done == Completion("succeeded", None, TRUE, TRUE, TRUE, TRUE)
    <3>1. CASE \E p \in Op : StopProof(p, o)
      <4>1. /\ \E a : sandbox_controller_complete(o, n, done, a)
            /\ exports' = exports \cup {o} /\ done.export
        BY <2>2, <3>1 DEF sandbox_controller_finalize_stopped_delete_v1, Completion
      <4>2. Stored(operations[o].sandbox)
        BY <4>1 DEF sandbox_controller_complete, Acceptable, Stored
      <4>. QED  BY <1>1, <2>1, <4>1, <4>2
    <3>2. CASE ~(\E p \in Op : StopProof(p, o))
      BY <1>2, <2>2, <3>2 DEF sandbox_controller_finalize_stopped_delete_v1
    <3>. QED  BY <3>1, <3>2
  <2>. QED  BY <1>2, <1>3, <2>1, <2>2 DEF sandbox_controller_claim_v5, Exhaust, Lease
<1>4. ASSUME NEW o \in Op, NEW w \in Worker, NEW t \in Token, Leased(o, w, t)
      PROVE  ExportsStored'
  <2>1. ASSUME NEW b, sandbox_controller_complete_artifact_export_v1(o, w, t, b)
        PROVE  ExportsStored'
    <3>1. /\ exports' = exports \cup {o} /\ Stored(operations[o].sandbox)
          /\ operations[o].status # "free"
      BY <2>1 DEF sandbox_controller_complete_artifact_export_v1, Stored, Fence
    <3>. QED  BY <1>1, <3>1
  <2>. QED  BY <1>2, <1>4, <2>1, FencedIsOpen DEF Leased, sandbox_controller_renew, vars,
            sandbox_controller_bind_backend_v4, sandbox_controller_bind_backend_v3,
            sandbox_controller_record_source_materialization_v1,
            sandbox_controller_record_artifact_v1, sandbox_controller_retry, Exhaust,
            sandbox_controller_complete_v5
<1>5. ASSUME NEW s \in Sandbox, NEW o \in Op, Enqueue(s, o) PROVE ExportsStored'
  BY <1>2, <1>5 DEF Enqueue, createSandbox, createOperation, sandbox_controller_enqueue_expired,
     agent_run_controller_release_sandboxes
<1>6. ASSUME NEW o \in Op, LeaseExpires(o) \/ RetryFallsDue(o) PROVE ExportsStored'
  BY <1>2, <1>6 DEF LeaseExpires, RetryFallsDue
<1>7. ASSUME NEW g \in Grant, GrantStep(g) PROVE ExportsStored'
  BY <1>2, <1>7 DEF GrantStep, createAccessGrant, agent_run_controller_issue_grant,
     sandbox_controller_consume_access_grant_v1
<1>. QED  BY <1>3, <1>4, <1>5, <1>6, <1>7 DEF Next

\* Every transaction of the queue keeps the queue's invariant.
LEMMA QueueStep == QueueInv /\ [Next]_vars => QueueInv' /\ Kept
<1>. SUFFICES ASSUME QueueInv, [Next]_vars PROVE QueueInv' /\ Kept
  OBVIOUS
<1>1. TypeOK /\ Open /\ Evidence /\ CreateFirst /\ ExportsStored
  BY DEF QueueInv
<1>2. TypeOK' /\ Open' /\ Evidence' /\ [KeepsTerminal]_vars
  BY <1>1, TypeStep, OpenStep, EvidenceStep, KeepsStep
<1>3. CASE UNCHANGED vars
  BY <1>1, <1>2, <1>3 DEF vars, QueueInv, CreateFirst, ExportsStored, Stored, Kept
<1>4. CASE Next /\ KeepsTerminal
  <2>1. ASSUME NEW s \in Sandbox, NEW o \in Op, Enqueue(s, o) PROVE Kept /\ CreateFirst'
    BY <1>1, <2>1, QuietEnqueue, OrderEnqueue
  <2>2. ASSUME NEW w \in Worker, NEW o \in Op, sandbox_controller_claim_v5(w, o)
        PROVE  Kept /\ CreateFirst'
    BY <1>1, <1>4, <2>2, ClaimEffect, OrderKept
  <2>3. ASSUME NEW o \in Op, NEW w \in Worker, NEW t \in Token, Leased(o, w, t)
        PROVE  Kept /\ CreateFirst'
    BY <1>1, <1>4, <2>3, LeasedEffect, OrderKept
  <2>4. ASSUME \/ \E o \in Op : LeaseExpires(o) \/ RetryFallsDue(o)
               \/ \E g \in Grant : GrantStep(g)
        PROVE  Kept /\ CreateFirst'
    <3>1. operations' = operations
      BY <2>4 DEF LeaseExpires, RetryFallsDue, GrantStep, createAccessGrant,
         agent_run_controller_issue_grant, sandbox_controller_consume_access_grant_v1
    <3>. QED  BY <1>1, <1>4, <2>4, <3>1, QuietOther, OrderKept DEF NoNewOp
  <2>5. Kept /\ CreateFirst'
    BY <1>4, <2>1, <2>2, <2>3, <2>4 DEF Next
  <2>. QED  BY <1>1, <1>2, <1>4, <2>5, ExportsStep DEF QueueInv
<1>. QED  BY <1>2, <1>3, <1>4

-----------------------------------------------------------------------------
(* A worker's turn. *)

\* The worker moves to pc with its work item, the others stay.
Turned(w, pc) ==
    /\ workers' \in [Worker -> WorkerRow]
    /\ \A v \in Worker \ {w} : workers'[v] = workers[v]
    /\ workers'[w].pc = pc
    /\ pc # "idle" =>
          /\ workers'[w].op = workers[w].op /\ workers'[w].token = workers[w].token
          /\ workers'[w].backend = workers[w].backend /\ workers'[w].sources = workers[w].sources
          /\ workers'[w].exported = workers[w].exported

\* What must be so for a worker to be at pc.
Due(w, pc) ==
    /\ pc \in Identified => retained' = retained /\ Expected(w) \in Backend
    /\ pc \in Cleaning => workers[w].backend \in Backend
    /\ pc = "destroying" => Item(w).type = "create"
    /\ pc = "begin" => (Of(w) \in WithRequired => Of(w) \in artifacts')
    /\ Holds(w) =>
          /\ pc \in {"bind", "ready"} =>
                cluster'[Of(w)] = [phase |-> "running", uid |-> Expected(w)]
          /\ pc \in {"cleaned", "destroyed"} => cluster'[Of(w)].phase = "absent"

\* The three ways a worker moves.
LEMMA Turns ==
    ASSUME ControllerTypeOK, NEW w \in Worker
    PROVE  /\ \A pc \in PC \ {"idle"} : Goto(w, pc) => Turned(w, pc)
           /\ \A f \in Failure : Fail(w, f) => Turned(w, "failed")
           /\ Rest(w) => Turned(w, "idle")
<1>1. ASSUME NEW pc \in PC \ {"idle"}, Goto(w, pc) PROVE Turned(w, pc)
  BY <1>1 DEF ControllerTypeOK, Goto, Turned, WorkerRow
<1>2. ASSUME NEW f \in Failure, Fail(w, f) PROVE Turned(w, "failed")
  <2>1. "failed" \in PC
    BY DEF PC
  <2>. QED  BY <1>2, <2>1 DEF ControllerTypeOK, Fail, Turned, WorkerRow
<1>3. ASSUME Rest(w) PROVE Turned(w, "idle")
  <2>1. Idle \in WorkerRow /\ Idle.pc = "idle"
    BY AttemptsAssumption DEF Idle, WorkerRow, PC
  <2>. QED  BY <1>3, <2>1 DEF ControllerTypeOK, Rest, Turned
<1>. QED  BY <1>1, <1>2, <1>3

\* These places ask for nothing.
LEMMA DueFree ==
    ASSUME NEW w, NEW pc \in {"idle", "poll", "failed", "proving", "finish"}
    PROVE  Due(w, pc)
  BY DEF Due, Identified, Cleaning

\* A worker under way.
LEMMA Busy ==
    ASSUME ControllerInv, NEW w \in Worker, workers[w].pc # "idle"
    PROVE  /\ workers[w].op \in Op /\ workers[w].token \in Token
           /\ operations[workers[w].op].status # "free" /\ Of(w) \in Sandbox
<1>1. workers[w].op \in Op /\ workers[w].token \in Token /\ operations[workers[w].op].status # "free"
  BY DEF ControllerInv, Equipped
<1>2. Of(w) \in Sandbox
  BY <1>1, StatusTyped DEF ControllerInv, QueueInv, Of, Item
<1>. QED  BY <1>1, <1>2

\* No two workers hold the same sandbox.
LEMMA OneHolder ==
    ASSUME ControllerInv, NEW v \in Worker, NEW w \in Worker,
           workers[v].pc # "idle", workers[w].pc # "idle",
           Holds(v), Holds(w), Of(v) = Of(w)
    PROVE  v = w
<1>1. /\ workers[v].op \in Op /\ workers[w].op \in Op
      /\ operations[workers[v].op].status \in Nonterminal
      /\ operations[workers[w].op].status \in Nonterminal
  BY Busy DEF Holds, Fence, Nonterminal
<1>2. workers[v].op = workers[w].op
  BY <1>1 DEF ControllerInv, QueueInv, Open, OneOpen, Of, Item
<1>. QED  BY <1>2 DEF Holds, Fence

\* What other workers know stays true: only the holder of the lease changes a
\* sandbox, and Kubernetes leaves running and absent ones alone.
LEMMA OthersKept ==
    ASSUME ControllerInv, Kept, NEW v \in Worker,
           workers'[v] = workers[v], retained'[v] = retained[v], NoNewLease(v),
           workers[v].pc # "idle" /\ Holds(v) /\ cluster[Of(v)].phase \in {"running", "absent"} =>
              cluster'[Of(v)] = cluster[Of(v)]
    PROVE  Equipped(v)' /\ Seen(v)'
<1>. SUFFICES ASSUME workers[v].pc # "idle" PROVE Equipped(v)' /\ Seen(v)'
  BY DEF Equipped, Seen
<1>1. Equipped(v) /\ Seen(v)
  BY DEF ControllerInv
<1>2. /\ workers[v].op \in Op /\ workers[v].token \in Token
      /\ operations[workers[v].op].status # "free"
  BY Busy
<1>3. /\ operations'[workers'[v].op].status # "free"
      /\ Of(v)' = Of(v) /\ Item(v).type' = Item(v).type
  BY <1>2 DEF Kept, Of, Item
<1>4. Expected(v)' = Expected(v)
  BY <1>3 DEF Expected
<1>5. Equipped(v)'
  BY <1>1, <1>2, <1>3, <1>4 DEF Equipped, Stored, Kept
<1>6. Holds(v)' => Holds(v)
  BY <1>2 DEF NoNewLease, Holds
<1>7. Seen(v)'
  BY <1>1, <1>3, <1>4, <1>6 DEF Seen
<1>. QED  BY <1>5, <1>7

\* A turn that arrives where it may be, and changes at most the sandbox it holds.
LEMMA TurnKept ==
    ASSUME ControllerInv, Kept, NEW w \in Worker, workers[w].pc # "idle",
           NEW pc, Turned(w, pc), Due(w, pc),
           \A v \in Worker : NoNewLease(v),
           \A v \in Worker \ {w} : retained'[v] = retained[v],
           \A s \in Sandbox : cluster'[s] = cluster[s] \/ (s = Of(w) /\ Holds(w))
    PROVE  \A v \in Worker : Equipped(v)' /\ Seen(v)'
<1>1. ASSUME NEW v \in Worker \ {w} PROVE Equipped(v)' /\ Seen(v)'
  <2>1. workers[v].pc # "idle" /\ Holds(v) => cluster'[Of(v)] = cluster[Of(v)]
    BY Busy, OneHolder
  <2>. QED  BY <2>1, OthersKept DEF Turned
<1>2. Equipped(w)' /\ Seen(w)'
  <2>. SUFFICES ASSUME pc # "idle" PROVE Equipped(w)' /\ Seen(w)'
    BY DEF Turned, Equipped, Seen
  <2>1. Equipped(w)
    BY DEF ControllerInv
  <2>2. /\ workers[w].op \in Op /\ workers[w].token \in Token
        /\ operations[workers[w].op].status # "free"
    BY Busy
  <2>3. /\ workers'[w].op = workers[w].op /\ workers'[w].token = workers[w].token
        /\ workers'[w].backend = workers[w].backend /\ workers'[w].sources = workers[w].sources
        /\ workers'[w].exported = workers[w].exported /\ workers'[w].pc = pc
    BY DEF Turned
  <2>4. /\ operations'[workers'[w].op].status # "free"
        /\ Of(w)' = Of(w) /\ Item(w).type' = Item(w).type
    BY <2>2, <2>3 DEF Kept, Of, Item
  <2>5. pc \in Identified => Expected(w)' = Expected(w)
    BY <2>3, <2>4 DEF Expected, Due
  <2>6. Equipped(w)'
    BY <2>1, <2>2, <2>3, <2>4, <2>5 DEF Equipped, Stored, Kept, Due
  <2>7. Holds(w)' => Holds(w)
    BY <2>2, <2>3 DEF NoNewLease, Holds
  <2>8. {"bind", "ready"} \subseteq Identified
    BY DEF Identified
  <2>9. Seen(w)'
    BY <2>3, <2>4, <2>5, <2>7, <2>8 DEF Seen, Due
  <2>. QED  BY <2>6, <2>9
<1>. QED  BY <1>1, <1>2

-----------------------------------------------------------------------------
(* What the world owes the reports. *)

\* A change of a sandbox's object that no report forbids.
Gone == {"deleting", "draining", "absent"}
CreatedOn(s) ==
    \E o \in Op : /\ operations[o].sandbox = s /\ operations[o].type = "create"
                  /\ operations[o].status = "succeeded"
Lawful(s) ==
    /\ cluster[s].phase = "absent" /\ cluster'[s].phase # "absent" =>
          \A o \in Op : operations[o].sandbox = s => ~receipts[o].destroyed
    /\ sandboxes[s].state = "ready" => cluster'[s] = cluster[s]
    /\ cluster'[s].phase \in Gone /\ cluster[s].phase \notin Gone /\ CreatedOn(s) => Stored(s)

\* Lawful changes under transactions that report nothing new keep the reports true.
LEMMA ReportsKept ==
    ASSUME ControllerInv, Kept, Repeats, \A s \in Sandbox : Lawful(s)
    PROVE  DestroyedMeansGone' /\ ReadyIsRunning' /\ NoArtifactLost'
<1>1. DestroyedMeansGone'
  <2>. SUFFICES ASSUME NEW p \in Op, receipts'[p].destroyed
                PROVE  cluster'[operations'[p].sandbox].phase = "absent"
    BY DEF DestroyedMeansGone
  <2>1. PICK q \in Op : receipts[q].destroyed /\ operations[q].sandbox = operations'[p].sandbox
    BY DEF Repeats
  <2>2. operations[q].status # "free"
    BY <2>1 DEF ControllerInv, QueueInv, Evidence, ReceiptOf, Terminal
  <2>3. operations[q].sandbox \in Sandbox
    BY <2>2, StatusTyped DEF ControllerInv, QueueInv
  <2>4. cluster[operations[q].sandbox].phase = "absent"
    BY <2>1 DEF ControllerInv, DestroyedMeansGone
  <2>. QED  BY <2>1, <2>3, <2>4 DEF Lawful
<1>2. ReadyIsRunning'
  BY DEF ControllerInv, ReadyIsRunning, Repeats, Lawful
<1>3. NoArtifactLost'
  <2>. SUFFICES ASSUME NEW s \in WithRequired, NEW o \in Op,
                       operations'[o].sandbox = s, operations'[o].type = "create",
                       operations'[o].status = "succeeded", cluster'[s].phase \in Gone
                PROVE  s \in artifacts'
    BY DEF NoArtifactLost, Gone
  <2>1. operations[o].status = "succeeded"
    BY DEF Repeats
  <2>2. operations[o].sandbox = s /\ operations[o].type = "create"
    BY <2>1 DEF Kept
  <2>3. CreatedOn(s) /\ s \in Sandbox
    BY <2>1, <2>2, ContractAssumption DEF CreatedOn
  <2>4. s \in artifacts
    BY <2>1, <2>2, <2>3 DEF Lawful, Stored, ControllerInv, NoArtifactLost, Gone
  <2>. QED  BY <2>4 DEF Kept
<1>. QED  BY <1>1, <1>2, <1>3

\* A completion keeps the reports true if what it reports is so.
LEMMA ReportsComplete ==
    ASSUME ControllerInv, Kept, cluster' = cluster,
           NEW o \in Op, NEW s \in Sandbox, NEW c, Ended(o, s, c),
           c.destroyed => cluster[s].phase = "absent",
           c.status = "succeeded" /\ ~c.destroyed =>
              cluster[s] = [phase |-> "running", uid |-> c.backend]
    PROVE  DestroyedMeansGone' /\ ReadyIsRunning' /\ NoArtifactLost'
<1>1. DestroyedMeansGone'
  BY DEF ControllerInv, DestroyedMeansGone, Ended
<1>2. ReadyIsRunning'
  BY DEF ControllerInv, ReadyIsRunning, Ended
<1>3. NoArtifactLost'
  <2>. SUFFICES ASSUME NEW r \in WithRequired, NEW p \in Op,
                       operations'[p].sandbox = r, operations'[p].type = "create",
                       operations'[p].status = "succeeded", cluster[r].phase \in Gone
                PROVE  r \in artifacts'
    BY DEF NoArtifactLost, Gone
  <2>1. CASE p = o
    BY <2>1 DEF Ended, Gone
  <2>2. CASE p # o
    BY <2>2 DEF Ended, Gone, ControllerInv, NoArtifactLost, Kept
  <2>. QED  BY <2>1, <2>2
<1>. QED  BY <1>1, <1>2, <1>3

-----------------------------------------------------------------------------
(* The invariant is inductive. *)

\* Tables that do not change are kept.
LEMMA StillTables ==
    ASSUME QueueInv, UNCHANGED vars
    PROVE  /\ QueueInv' /\ Kept /\ NoNewOp /\ Quiet /\ Repeats
           /\ \A v \in Worker : NoNewLease(v)
<1>1. QueueInv'
  BY QueueStep
<1>2. Kept /\ NoNewOp /\ Quiet /\ \A v \in Worker : NoNewLease(v)
  BY DEF vars, Kept, NoNewOp, Quiet, NoNewLease, Fence
<1>3. Repeats
  BY <1>2, QuietRepeats DEF QueueInv
<1>. QED  BY <1>1, <1>2, <1>3

\* A turn that calls the database, with nothing to report.
LEMMA CallTurn ==
    ASSUME ControllerInv, QueueInv', Kept, NoNewOp, Repeats, \A v \in Worker : NoNewLease(v),
           NEW w \in Worker, workers[w].pc # "idle", NEW pc, Turned(w, pc), Due(w, pc),
           retained' = retained, cluster' = cluster, uids' = uids
    PROVE  ControllerInv'
<1>1. \A v \in Worker : Equipped(v)' /\ Seen(v)'
  BY TurnKept
<1>2. DestroyedMeansGone' /\ ReadyIsRunning' /\ NoArtifactLost'
  BY ReportsKept DEF Lawful
<1>3. ControllerTypeOK'
  BY DEF ControllerInv, ControllerTypeOK, Turned
<1>. QED  BY <1>1, <1>2, <1>3 DEF ControllerInv

\* A turn of the worker alone.
LEMMA InternalTurn ==
    ASSUME ControllerInv, Internal, NEW w \in Worker, workers[w].pc # "idle",
           NEW pc, Turned(w, pc), Due(w, pc)
    PROVE  ControllerInv'
<1>1. UNCHANGED vars /\ retained' = retained /\ cluster' = cluster /\ uids' = uids
  BY DEF Internal
<1>2. QueueInv
  BY DEF ControllerInv
<1>. QED  BY <1>1, <1>2, StillTables, CallTurn

\* A call that is refused drops the attempt.
LEMMA RefusedTurn ==
    ASSUME ControllerInv, NEW w \in Worker, workers[w].pc # "idle", Rest(w), Internal
    PROVE  ControllerInv'
<1>1. Turned(w, "idle") /\ Due(w, "idle")
  BY Turns, DueFree DEF ControllerInv
<1>. QED  BY <1>1, InternalTurn

\* A turn that changes the object of the sandbox whose lease the worker holds.
LEMMA ClusterTurn ==
    ASSUME ControllerInv, UNCHANGED vars, NEW w \in Worker, workers[w].pc # "idle", Holds(w),
           NEW pc, Turned(w, pc), Due(w, pc),
           retained' \in [Worker -> [Sandbox -> Backend \cup {None}]],
           \A v \in Worker \ {w} : retained'[v] = retained[v],
           uids' \subseteq Backend,
           NEW row \in ClusterRow, row.phase # "absent" => row.uid \in Backend,
           cluster' = [cluster EXCEPT ![Of(w)] = row], Lawful(Of(w))
    PROVE  ControllerInv'
<1>1. Of(w) \in Sandbox
  BY Busy
<1>2. /\ cluster' \in [Sandbox -> ClusterRow] /\ cluster'[Of(w)] = row
      /\ \A s \in Sandbox : s # Of(w) => cluster'[s] = cluster[s]
  BY <1>1 DEF ControllerInv, ControllerTypeOK
<1>3. QueueInv
  BY DEF ControllerInv
<1>4. /\ QueueInv' /\ Kept /\ NoNewOp /\ Repeats
      /\ \A v \in Worker : NoNewLease(v)
  BY <1>3, StillTables
<1>5. \A v \in Worker : Equipped(v)' /\ Seen(v)'
  BY <1>2, <1>4, TurnKept
<1>6. \A s \in Sandbox : Lawful(s)
  BY <1>2 DEF Lawful
<1>7. DestroyedMeansGone' /\ ReadyIsRunning' /\ NoArtifactLost'
  BY <1>4, <1>6, ReportsKept
<1>8. ControllerTypeOK'
  BY <1>2 DEF ControllerInv, ControllerTypeOK, Turned
<1>. QED  BY <1>4, <1>5, <1>7, <1>8 DEF ControllerInv

\* The object a worker observes is the one it goes by.
LEMMA ObservedIsReal ==
    ASSUME ControllerInv, NEW w \in Worker, workers[w].pc # "idle",
           NEW phases, "absent" \notin phases, Observed(w, phases)
    PROVE  /\ Expected(w) \in Backend
           /\ cluster[Of(w)].phase \in phases
           /\ cluster[Of(w)] = [phase |-> cluster[Of(w)].phase, uid |-> Expected(w)]
<1>1. Of(w) \in Sandbox
  BY Busy
<1>2. cluster[Of(w)].phase # "absent" /\ cluster[Of(w)].uid = Expected(w)
  BY DEF Observed
<1>. QED  BY <1>1, <1>2 DEF Observed, ControllerInv, ControllerTypeOK, ClusterRow

\* Steps of a create that only look.
LEMMA CreateObserves ==
    ASSUME ControllerInv, NEW w \in Worker,
           ObserveRecorded(w) \/ ObservePlain(w) \/ ObserveSourced(w) \/ AwaitReady(w)
    PROVE  ControllerInv'
<1>1. Internal /\ workers[w].pc # "idle" /\ ControllerTypeOK
  BY DEF ObserveRecorded, ObservePlain, ObserveSourced, AwaitReady, At, ControllerInv
<1>2. retained' = retained /\ cluster' = cluster
  BY <1>1 DEF Internal
<1>3. {"poll", "bind", "ready", "release", "sources"} \subseteq PC \ {"idle"}
  BY DEF PC, Executing
<1>4. ASSUME validateCreated(w),
             Goto(w, IF workers[w].backend = None THEN "bind" ELSE "ready")
      PROVE  ControllerInv'
  <2>1. /\ Expected(w) \in Backend
        /\ cluster[Of(w)] = [phase |-> "running", uid |-> Expected(w)]
    <3>1. /\ Expected(w) \in Backend /\ cluster[Of(w)].phase \in {"running"}
          /\ cluster[Of(w)] = [phase |-> cluster[Of(w)].phase, uid |-> Expected(w)]
      BY <1>1, <1>4, ObservedIsReal DEF validateCreated
    <3>. QED  BY <3>1
  <2>2. PICK pc \in {"bind", "ready"} : Goto(w, pc)
    BY <1>4
  <2>3. Turned(w, pc)
    BY <1>1, <1>3, <2>2, Turns
  <2>4. Due(w, pc)
    BY <1>2, <2>1 DEF Due, Cleaning
  <2>. QED  BY <1>1, <2>3, <2>4, InternalTurn
<1>5. CASE ObserveRecorded(w)
  BY <1>1, <1>3, <1>5, Turns, DueFree, InternalTurn DEF ObserveRecorded
<1>6. CASE ObserveSourced(w)
  <2>1. Expected(w) \in Backend
    BY <1>1, <1>6, ObservedIsReal DEF ObserveSourced
  <2>2. CASE Fail(w, "ambiguous")
    BY <1>1, <2>2, Turns, DueFree, InternalTurn DEF Failure
  <2>3. ASSUME NEW pc \in {"release", "sources"}, Goto(w, pc) PROVE ControllerInv'
    <3>1. Turned(w, pc)
      BY <1>1, <1>3, <2>3, Turns
    <3>2. Due(w, pc)
      BY <1>2, <2>1 DEF Due, Cleaning
    <3>. QED  BY <1>1, <3>1, <3>2, InternalTurn
  <2>. QED  BY <1>6, <2>2, <2>3 DEF ObserveSourced
<1>7. CASE ObservePlain(w)
  BY <1>4, <1>7 DEF ObservePlain
<1>8. CASE AwaitReady(w)
  BY <1>4, <1>8 DEF AwaitReady
<1>. QED  BY <1>5, <1>6, <1>7, <1>8

\* Steps of a cleanup that only look.
LEMMA CleanupObserves ==
    ASSUME ControllerInv, NEW w \in Worker, BeginCleanup(w) \/ waitForOwnedAbsence(w)
    PROVE  ControllerInv'
<1>1. Internal /\ workers[w].pc # "idle" /\ ControllerTypeOK /\ Equipped(w)
  BY DEF BeginCleanup, waitForOwnedAbsence, At, ControllerInv
<1>2. retained' = retained /\ cluster' = cluster /\ artifacts' = artifacts
  BY <1>1 DEF Internal, vars
<1>3. {"begin", "export", "receipt", "cleaned"} \subseteq PC \ {"idle"}
  BY DEF PC, Executing
<1>4. CASE BeginCleanup(w)
  <2>1. CASE workers[w].backend = None
    BY <1>1, <1>4, <2>1, Turns, DueFree, InternalTurn DEF BeginCleanup, Failure
  <2>2. CASE workers[w].backend # None
    <3>1. workers[w].backend \in Backend
      BY <1>1, <2>2 DEF ControllerTypeOK, WorkerRow
    <3>2. PICK pc \in {"begin", "export", "receipt"} :
             /\ Goto(w, pc)
             /\ pc = "begin" => workers[w].exported
      BY <1>4, <2>2 DEF BeginCleanup
    <3>3. Turned(w, pc)
      BY <1>1, <1>3, <3>2, Turns
    <3>4. Due(w, pc)
      BY <1>1, <1>2, <3>1, <3>2 DEF Due, Identified, Equipped, Stored
    <3>. QED  BY <1>1, <3>3, <3>4, InternalTurn
  <2>. QED  BY <2>1, <2>2
<1>5. CASE waitForOwnedAbsence(w)
  <2>1. Turned(w, "cleaned")
    BY <1>1, <1>3, <1>5, Turns DEF waitForOwnedAbsence
  <2>2. workers[w].backend \in Backend
    BY <1>1, <1>5 DEF waitForOwnedAbsence, At, Equipped, Cleaning
  <2>3. Due(w, "cleaned")
    BY <1>2, <1>5, <2>2 DEF Due, Identified, waitForOwnedAbsence, ObserveAbsence
  <2>. QED  BY <1>1, <2>1, <2>3, InternalTurn
<1>. QED  BY <1>4, <1>5

\* Steps of a failing attempt that touch nothing but the worker.
LEMMA FailureObserves ==
    ASSUME ControllerInv, NEW w \in Worker,
           \/ RejectItem(w) \/ RefreshLease(w) \/ ProveAbsence(w) \/ LeaseLost(w)
           \/ \E f \in Failure : StepFails(w, f)
    PROVE  ControllerInv'
<1>1. Internal /\ workers[w].pc # "idle" /\ ControllerTypeOK
  BY DEF RejectItem, RefreshLease, ProveAbsence, LeaseLost, StepFails, At, ControllerInv,
     Executing
<1>2. retained' = retained /\ cluster' = cluster
  BY <1>1 DEF Internal
<1>3. {"finish", "destroying", "destroyed"} \subseteq PC \ {"idle"}
  BY DEF PC
<1>4. ASSUME Goto(w, "finish") PROVE ControllerInv'
  BY <1>1, <1>3, <1>4, Turns, DueFree, InternalTurn
<1>5. CASE RejectItem(w)
  <2>1. Turned(w, "finish")
    BY <1>1, <1>3, <1>5 DEF RejectItem, ControllerTypeOK, Turned, WorkerRow, Failure
  <2>. QED  BY <1>1, <2>1, DueFree, InternalTurn
<1>6. CASE RefreshLease(w)
  <2>1. ASSUME destroysUnboundCreate(w), Goto(w, "destroying") PROVE ControllerInv'
    <3>1. Turned(w, "destroying")
      BY <1>1, <1>3, <2>1, Turns
    <3>2. Due(w, "destroying")
      BY <2>1 DEF Due, Identified, Cleaning, destroysUnboundCreate
    <3>. QED  BY <1>1, <3>1, <3>2, InternalTurn
  <2>. QED  BY <1>4, <1>6, <2>1 DEF RefreshLease
<1>7. CASE ProveAbsence(w)
  <2>1. ASSUME ObserveAbsence(w), Goto(w, "destroyed") PROVE ControllerInv'
    <3>1. Turned(w, "destroyed")
      BY <1>1, <1>3, <2>1, Turns
    <3>2. Due(w, "destroyed")
      BY <1>2, <2>1 DEF Due, Identified, Cleaning, ObserveAbsence
    <3>. QED  BY <1>1, <3>1, <3>2, InternalTurn
  <2>. QED  BY <1>4, <1>7, <2>1 DEF ProveAbsence
<1>8. CASE LeaseLost(w)
  BY <1>1, <1>8, RefusedTurn DEF LeaseLost
<1>9. ASSUME NEW f \in Failure, StepFails(w, f) PROVE ControllerInv'
  BY <1>1, <1>9, Turns, DueFree, InternalTurn DEF StepFails
<1>. QED  BY <1>5, <1>6, <1>7, <1>8, <1>9

\* While a worker holds a sandbox it is not ready; while its create is open
\* nothing of it was reported destroyed or created.
LEMMA HolderFacts ==
    ASSUME ControllerInv, NEW w \in Worker, workers[w].pc # "idle", Holds(w)
    PROVE  /\ sandboxes[Of(w)].state # "ready"
           /\ Item(w).type = "create" =>
                 /\ ~CreatedOn(Of(w))
                 /\ \A o \in Op : operations[o].sandbox = Of(w) => ~receipts[o].destroyed
<1>1. workers[w].op \in Op /\ operations[workers[w].op].status \in Nonterminal
  BY Busy DEF Holds, Fence, Nonterminal
<1>2. sandboxes[Of(w)].state # "ready"
  BY Busy, FencedIsOpen DEF Holds, Of, Item, ControllerInv, QueueInv
<1>3. ASSUME Item(w).type = "create", NEW o \in Op, operations[o].sandbox = Of(w),
             operations[o].status # "free"
      PROVE  operations[o].status \notin Terminal
  BY <1>1, <1>3 DEF ControllerInv, QueueInv, CreateFirst, Of, Item, Nonterminal, Terminal
<1>4. Item(w).type = "create" => ~CreatedOn(Of(w))
  BY <1>3 DEF CreatedOn, Terminal
<1>5. ASSUME Item(w).type = "create", NEW o \in Op, operations[o].sandbox = Of(w)
      PROVE  ~receipts[o].destroyed
  BY <1>3, <1>5 DEF ControllerInv, QueueInv, Evidence, ReceiptOf, Terminal
<1>. QED  BY <1>2, <1>4, <1>5

\* A turn that changes the phase of the live object it holds.
LEMMA PhaseTurn ==
    ASSUME ControllerInv, UNCHANGED vars, NEW w \in Worker, workers[w].pc # "idle", Holds(w),
           NEW pc, Turned(w, pc), Due(w, pc), retained' = retained, uids' = uids,
           NEW phase \in Phase \ {"absent"}, cluster[Of(w)].phase # "absent",
           cluster' = [cluster EXCEPT ![Of(w)].phase = phase],
           phase \in Gone /\ cluster[Of(w)].phase \notin Gone /\ CreatedOn(Of(w)) => Stored(Of(w))
    PROVE  ControllerInv'
<1>1. Of(w) \in Sandbox
  BY Busy
<1>2. PICK row \in ClusterRow : /\ row.phase = phase /\ row.uid = cluster[Of(w)].uid
                                /\ cluster' = [cluster EXCEPT ![Of(w)] = row]
  <2>1. [cluster[Of(w)] EXCEPT !.phase = phase] \in ClusterRow
    BY <1>1 DEF ControllerInv, ControllerTypeOK, ClusterRow
  <2>. QED  BY <1>1, <2>1 DEF ControllerInv, ControllerTypeOK, ClusterRow
<1>3. row.uid \in Backend /\ cluster'[Of(w)].phase = phase
  BY <1>1, <1>2 DEF ControllerInv, ControllerTypeOK
<1>4. Lawful(Of(w))
  BY <1>3, HolderFacts DEF Lawful
<1>5. /\ retained' \in [Worker -> [Sandbox -> Backend \cup {None}]]
      /\ \A v \in Worker \ {w} : retained'[v] = retained[v]
      /\ uids' \subseteq Backend
  BY DEF ControllerInv, ControllerTypeOK
<1>. QED  BY <1>2, <1>3, <1>4, <1>5, ClusterTurn

\* EnsureCreated creates only under the lease of an open create.
LEMMA EnsureCreatedKept ==
    ASSUME ControllerInv, NEW w \in Worker, EnsureCreated(w)
    PROVE  ControllerInv'
<1>1. /\ workers[w].pc # "idle" /\ ControllerTypeOK /\ UNCHANGED vars /\ Of(w) \in Sandbox
      /\ Item(w).type = "create"
  BY Busy DEF EnsureCreated, At, ControllerInv
<1>2. {"poll", "failed"} \subseteq PC \ {"idle"}
  BY DEF PC, Executing
<1>3. CASE Holds(w) /\ CreateSandbox(w)
  <2>1. PICK b \in Backend, phase \in {"starting", "deleting", "draining"} :
           /\ cluster' = [cluster EXCEPT ![Of(w)] = [phase |-> phase, uid |-> b]]
           /\ uids' = uids \cup {b}
           /\ \/ Goto(w, "poll") /\ retainRecord(w, b)
              \/ (\E f \in Failure : Fail(w, f)) /\ UNCHANGED retained
    BY <1>3 DEF CreateSandbox, rejectCreated
  <2>2. PICK pc \in {"poll", "failed"} : Turned(w, pc)
    BY <1>1, <1>2, <2>1, Turns
  <2>3. Due(w, pc)
    BY DueFree
  <2>4. /\ retained' \in [Worker -> [Sandbox -> Backend \cup {None}]]
        /\ \A v \in Worker \ {w} : retained'[v] = retained[v]
    BY <1>1, <2>1 DEF ControllerTypeOK, retainRecord
  <2>5. uids' \subseteq Backend
    BY <1>1, <2>1 DEF ControllerTypeOK
  <2>6. PICK row \in ClusterRow : row.uid \in Backend /\ cluster' = [cluster EXCEPT ![Of(w)] = row]
    BY <2>1 DEF ClusterRow, Phase
  <2>7. Lawful(Of(w))
    BY <1>1, <1>3, HolderFacts DEF Lawful
  <2>. QED  BY <1>1, <1>3, <2>2, <2>3, <2>4, <2>5, <2>6, <2>7, ClusterTurn
<1>4. CASE Goto(w, "poll") /\ UNCHANGED <<retained, cluster, uids>>
  BY <1>1, <1>2, <1>4, Turns, DueFree, InternalTurn DEF Internal
<1>5. CASE Fail(w, "ambiguous") /\ UNCHANGED <<retained, cluster, uids>>
  BY <1>1, <1>5, Turns, DueFree, InternalTurn DEF Internal, Failure
<1>. QED  BY <1>3, <1>4, <1>5 DEF EnsureCreated

\* Releasing the sources, under the lease.
LEMMA ReleaseKept ==
    ASSUME ControllerInv, NEW w \in Worker, ReleaseSources(w)
    PROVE  ControllerInv'
<1>1. /\ workers[w].pc # "idle" /\ ControllerTypeOK /\ UNCHANGED vars /\ Of(w) \in Sandbox
      /\ Holds(w) /\ retained' = retained /\ uids' = uids /\ Expected(w) \in Backend
  BY Busy DEF ReleaseSources, At, ControllerInv, Equipped, Identified
<1>2. {"await"} \subseteq PC \ {"idle"}
  BY DEF PC, Executing
<1>3. PICK pc \in {"await", "failed"} : Turned(w, pc)
  BY <1>1, <1>2, Turns DEF ReleaseSources, Answered, Failure
<1>4. Due(w, pc)
  BY <1>1 DEF Due, Cleaning
<1>5. CASE cluster' = cluster
  BY <1>1, <1>3, <1>4, <1>5, InternalTurn DEF Internal
<1>6. CASE /\ cluster[Of(w)].phase = "admitted"
           /\ cluster' = [cluster EXCEPT ![Of(w)].phase = "released"]
  <2>1. "released" \in Phase \ {"absent"} /\ "released" \notin Gone
    BY DEF Phase, Gone
  <2>. QED  BY <1>1, <1>3, <1>4, <1>6, <2>1, PhaseTurn
<1>. QED  BY <1>5, <1>6 DEF ReleaseSources

\* Deleting, under the lease and after the artifact is stored.
LEMMA BeginDeleteKept ==
    ASSUME ControllerInv, NEW w \in Worker, BeginDelete(w)
    PROVE  ControllerInv'
<1>1. /\ workers[w].pc # "idle" /\ ControllerTypeOK /\ UNCHANGED vars /\ Of(w) \in Sandbox
      /\ Holds(w) /\ retained' = retained /\ uids' = uids /\ workers[w].backend \in Backend
      /\ Stored(Of(w))
  BY Busy DEF BeginDelete, At, ControllerInv, Equipped, Cleaning
<1>2. {"absence", "finalize"} \subseteq PC \ {"idle"}
  BY DEF PC, Executing
<1>3. PICK pc \in {"absence", "finalize", "failed"} : Turned(w, pc)
  BY <1>1, <1>2, Turns DEF BeginDelete, Delete, Failure
<1>4. Due(w, pc)
  BY <1>1 DEF Due, Identified
<1>5. CASE cluster' = cluster
  BY <1>1, <1>3, <1>4, <1>5, InternalTurn DEF Internal
<1>6. CASE Delete(w)
  <2>1. /\ "deleting" \in Phase \ {"absent"} /\ cluster[Of(w)].phase # "absent"
        /\ cluster' = [cluster EXCEPT ![Of(w)].phase = "deleting"]
    BY <1>6 DEF Phase, Delete, Live
  <2>. QED  BY <1>1, <1>3, <1>4, <2>1, PhaseTurn
<1>. QED  BY <1>5, <1>6 DEF BeginDelete

\* Removing the finalizer of an object that is being deleted.
LEMMA FinalizeKept ==
    ASSUME ControllerInv, NEW w \in Worker, Finalize(w)
    PROVE  ControllerInv'
<1>1. /\ workers[w].pc # "idle" /\ ControllerTypeOK /\ UNCHANGED vars /\ Of(w) \in Sandbox
      /\ Holds(w) /\ retained' = retained /\ uids' = uids /\ workers[w].backend \in Backend
  BY Busy DEF Finalize, At, ControllerInv, Equipped, Cleaning
<1>2. {"absence"} \subseteq PC \ {"idle"}
  BY DEF PC, Executing
<1>3. PICK pc \in {"absence", "failed"} : Turned(w, pc)
  BY <1>1, <1>2, Turns DEF Finalize, FinalizePreExported, Answered, Failure
<1>4. Due(w, pc)
  BY <1>1 DEF Due, Identified
<1>5. /\ "draining" \in Phase \ {"absent"} /\ cluster[Of(w)].phase = "deleting"
      /\ cluster' = [cluster EXCEPT ![Of(w)].phase = "draining"]
      /\ cluster[Of(w)].phase \in Gone
  BY DEF Phase, Gone, Finalize, validateDeleting, FinalizePreExported
<1>. QED  BY <1>1, <1>3, <1>4, <1>5, PhaseTurn

\* Destroying what an open create left, under the lease.
LEMMA DestroyKept ==
    ASSUME ControllerInv, NEW w \in Worker, DestroyUnbound(w)
    PROVE  ControllerInv'
<1>1. /\ workers[w].pc # "idle" /\ ControllerTypeOK /\ UNCHANGED vars /\ Of(w) \in Sandbox
      /\ Holds(w) /\ retained' = retained /\ uids' = uids /\ Item(w).type = "create"
  BY Busy DEF DestroyUnbound, At, ControllerInv, Equipped
<1>2. {"proving", "finish"} \subseteq PC \ {"idle"}
  BY DEF PC
<1>3. PICK pc \in {"proving", "finish"} : Turned(w, pc)
  BY <1>1, <1>2, Turns DEF DestroyUnbound
<1>4. Due(w, pc)
  BY DueFree
<1>5. CASE cluster' = cluster
  BY <1>1, <1>3, <1>4, <1>5, InternalTurn DEF Internal
<1>6. ASSUME cluster[Of(w)].phase # "absent",
             NEW done \in BOOLEAN, NEW phase \in rejectCreated(cluster[Of(w)].phase, done),
             cluster' = [cluster EXCEPT ![Of(w)].phase = phase]
      PROVE  ControllerInv'
  <2>1. cluster[Of(w)].phase \in Phase
    BY <1>1 DEF ControllerTypeOK, ClusterRow
  <2>2. phase \in Phase \ {"absent"}
    BY <1>6, <2>1 DEF rejectCreated, Phase
  <2>3. ~CreatedOn(Of(w))
    BY <1>1, HolderFacts
  <2>. QED  BY <1>1, <1>3, <1>4, <1>6, <2>2, <2>3, PhaseTurn
<1>. QED  BY <1>5, <1>6 DEF DestroyUnbound

\* Kubernetes moves on.
LEMMA ProgressKept ==
    ASSUME ControllerInv, NEW s \in Sandbox, Progress(s)
    PROVE  ControllerInv'
<1>1. UNCHANGED vars /\ workers' = workers /\ retained' = retained /\ uids' = uids
  BY DEF Progress
<1>2. QueueInv /\ ControllerTypeOK
  BY DEF ControllerInv
<1>3. /\ cluster' \in [Sandbox -> ClusterRow]
      /\ \A r \in Sandbox \ {s} : cluster'[r] = cluster[r]
      /\ cluster'[s].phase # "absent" => cluster'[s].uid \in Backend
      /\ cluster[s].phase \notin {"running", "absent"}
      /\ cluster'[s].phase \in Gone => cluster[s].phase \in Gone
  <2>1. ASSUME NEW phase \in {"admitted", "running"},
               cluster' = [cluster EXCEPT ![s].phase = phase]
        PROVE  /\ cluster' \in [Sandbox -> ClusterRow]
               /\ \A r \in Sandbox \ {s} : cluster'[r] = cluster[r]
               /\ cluster'[s].uid = cluster[s].uid /\ cluster'[s].phase \notin Gone
    BY <1>2, <2>1 DEF ControllerTypeOK, ClusterRow, Phase, Gone
  <2>2. ASSUME cluster' = [cluster EXCEPT ![s] = Absent]
        PROVE  /\ cluster' \in [Sandbox -> ClusterRow]
               /\ \A r \in Sandbox \ {s} : cluster'[r] = cluster[r]
               /\ cluster'[s].phase = "absent"
    <3>1. Absent \in ClusterRow /\ Absent.phase = "absent"
      BY DEF Absent, ClusterRow, Phase
    <3>. QED  BY <1>2, <2>2, <3>1 DEF ControllerTypeOK
  <2>3. CASE cluster[s].phase = "draining" /\ cluster' = [cluster EXCEPT ![s] = Absent]
    BY <2>2, <2>3 DEF Gone
  <2>4. CASE /\ cluster[s].phase \in {"starting", "admitted", "released"}
             /\ \E phase \in {"admitted", "running"} :
                   cluster' = [cluster EXCEPT ![s].phase = phase]
    BY <1>2, <2>1, <2>4 DEF ControllerTypeOK
  <2>. QED  BY <2>3, <2>4 DEF Progress
<1>4. /\ QueueInv' /\ Kept /\ NoNewOp /\ Repeats
      /\ \A v \in Worker : NoNewLease(v)
  BY <1>1, <1>2, StillTables
<1>5. ASSUME NEW v \in Worker PROVE Equipped(v)' /\ Seen(v)'
  <2>1. /\ workers[v].pc # "idle" => Of(v) \in Sandbox
        /\ workers'[v] = workers[v] /\ retained'[v] = retained[v]
    BY <1>1, Busy
  <2>2. \A x \in Sandbox : cluster[x].phase \in {"running", "absent"} => cluster'[x] = cluster[x]
    BY <1>3
  <2>. QED  BY <1>4, <2>1, <2>2, OthersKept
<1>6. sandboxes[s].state # "ready"
  <2>1. sandboxes[s].state = "ready" =>
           cluster[s] = [phase |-> "running", uid |-> sandboxes[s].backend]
    BY DEF ControllerInv, ReadyIsRunning
  <2>2. sandboxes[s].state = "ready" => cluster[s].phase = "running"
    BY <2>1
  <2>. QED  BY <1>3, <2>2
<1>7. \A x \in Sandbox : Lawful(x)
  BY <1>3, <1>6 DEF Lawful
<1>8. DestroyedMeansGone' /\ ReadyIsRunning' /\ NoArtifactLost'
  BY <1>4, <1>7, ReportsKept
<1>9. ControllerTypeOK'
  BY <1>1, <1>2, <1>3 DEF ControllerTypeOK
<1>. QED  BY <1>4, <1>5, <1>8, <1>9 DEF ControllerInv

\* A crash forgets.
LEMMA CrashKept ==
    ASSUME ControllerInv, NEW w \in Worker, Crash(w)
    PROVE  ControllerInv'
<1>1. UNCHANGED vars /\ cluster' = cluster /\ uids' = uids /\ Rest(w)
  BY DEF Crash, Rest
<1>2. QueueInv /\ ControllerTypeOK
  BY DEF ControllerInv
<1>3. /\ QueueInv' /\ Kept /\ NoNewOp /\ Repeats
      /\ \A v \in Worker : NoNewLease(v)
  BY <1>1, <1>2, StillTables
<1>4. Turned(w, "idle")
  BY <1>1, <1>2, Turns
<1>5. /\ retained' \in [Worker -> [Sandbox -> Backend \cup {None}]]
      /\ \A v \in Worker \ {w} : retained'[v] = retained[v]
  BY <1>2 DEF ControllerTypeOK, Crash
<1>6. ASSUME NEW v \in Worker \ {w} PROVE Equipped(v)' /\ Seen(v)'
  BY <1>1, <1>3, <1>4, <1>5, OthersKept DEF Turned
<1>7. Equipped(w)' /\ Seen(w)'
  BY <1>4 DEF Turned, Equipped, Seen
<1>8. DestroyedMeansGone' /\ ReadyIsRunning' /\ NoArtifactLost'
  BY <1>1, <1>3, ReportsKept DEF Lawful
<1>9. ControllerTypeOK'
  BY <1>1, <1>2, <1>4, <1>5 DEF ControllerTypeOK, Turned
<1>. QED  BY <1>3, <1>6, <1>7, <1>8, <1>9 DEF ControllerInv

\* A committed call whose answer arrives or is lost.
LEMMA AnsweredTurn ==
    ASSUME ControllerInv, QueueInv', Kept, NoNewOp, Quiet, \A v \in Worker : NoNewLease(v),
           NEW w \in Worker, workers[w].pc # "idle",
           NEW pc \in PC \ {"idle"}, Answered(w, pc), Due(w, pc),
           UNCHANGED <<retained, cluster, uids>>
    PROVE  ControllerInv'
<1>1. ControllerTypeOK /\ Repeats /\ retained' = retained /\ cluster' = cluster /\ uids' = uids
  BY QuietRepeats DEF ControllerInv, QueueInv
<1>2. PICK x \in {pc, "failed"} : Turned(w, x)
  BY <1>1, Turns DEF Answered, Failure
<1>3. Due(w, x)
  BY DueFree
<1>. QED  BY <1>1, <1>2, <1>3, CallTurn

\* The calls that record progress.
LEMMA CallKept ==
    ASSUME ControllerInv, QueueInv', NEW w \in Worker,
           RecordSources(w) \/ BindBackend(w) \/ ExportArtifacts(w) \/ CompleteArtifactExport(w)
    PROVE  ControllerInv'
<1>1. /\ workers[w].pc # "idle" /\ TypeOK /\ Open /\ ControllerTypeOK /\ workers[w].op \in Op
      /\ Equipped(w) /\ Seen(w)
  BY Busy DEF RecordSources, BindBackend, ExportArtifacts, CompleteArtifactExport, At,
     ControllerInv, QueueInv
<1>2. {"release", "ready", "receipt", "begin"} \subseteq PC \ {"idle"}
  BY DEF PC, Executing
<1>3. CASE RecordSources(w)
  <2>1. CASE Rest(w) /\ Internal
    BY <1>1, <2>1, RefusedTurn
  <2>2. CASE /\ sandbox_controller_record_source_materialization_v1(
                    workers[w].op, w, workers[w].token, Expected(w))
             /\ Answered(w, "release") /\ UNCHANGED <<retained, cluster, uids>>
    <3>1. Expected(w) \in Backend
      BY <1>1, <1>3 DEF RecordSources, At, Equipped, Identified
    <3>2. Due(w, "release")
      BY <2>2, <3>1 DEF Due, Cleaning
    <3>3. Kept /\ NoNewOp /\ Quiet /\ \A v \in Worker : NoNewLease(v)
      BY <1>1, <2>2, <3>1, QuietCall
    <3>. QED  BY <1>1, <1>2, <2>2, <3>2, <3>3, AnsweredTurn
  <2>. QED  BY <1>3, <2>1, <2>2 DEF RecordSources, Refused
<1>4. CASE BindBackend(w)
  <2>1. CASE Rest(w) /\ Internal
    BY <1>1, <2>1, RefusedTurn
  <2>2. CASE /\ sandbox_controller_bind_backend_v4(
                    workers[w].op, w, workers[w].token, Expected(w))
             /\ Answered(w, "ready") /\ UNCHANGED <<retained, cluster, uids>>
    <3>1. Expected(w) \in Backend
      BY <1>1, <1>4 DEF BindBackend, At, Equipped, Identified
    <3>2. Due(w, "ready")
      BY <1>1, <1>4, <2>2, <3>1 DEF Due, Cleaning, BindBackend, At, Seen
    <3>3. Kept /\ NoNewOp /\ Quiet /\ \A v \in Worker : NoNewLease(v)
      BY <1>1, <2>2, <3>1, QuietCall
    <3>. QED  BY <1>1, <1>2, <2>2, <3>2, <3>3, AnsweredTurn
  <2>. QED  BY <1>4, <2>1, <2>2 DEF BindBackend, Refused
<1>5. CASE ExportArtifacts(w)
  <2>1. CASE Rest(w) /\ Internal
    BY <1>1, <2>1, RefusedTurn
  <2>2. workers[w].backend \in Backend
    BY <1>1, <1>5 DEF ExportArtifacts, At, Equipped, Cleaning
  <2>3. Due(w, "receipt")
    BY <2>2 DEF Due, Identified
  <2>4. CASE Goto(w, "receipt") /\ Internal
    BY <1>1, <1>2, <2>3, <2>4, Turns, InternalTurn
  <2>5. CASE /\ sandbox_controller_record_artifact_v1(
                    workers[w].op, w, workers[w].token, workers[w].backend)
             /\ Answered(w, "receipt") /\ UNCHANGED <<retained, cluster, uids>>
    <3>1. Kept /\ NoNewOp /\ Quiet /\ \A v \in Worker : NoNewLease(v)
      BY <1>1, <2>2, <2>5, QuietCall
    <3>. QED  BY <1>1, <1>2, <2>3, <2>5, <3>1, AnsweredTurn
  <2>. QED  BY <1>5, <2>1, <2>4, <2>5 DEF ExportArtifacts, RecordArtifact, Refused
<1>6. CASE CompleteArtifactExport(w)
  <2>1. CASE Rest(w) /\ Internal
    BY <1>1, <2>1, RefusedTurn
  <2>2. CASE /\ sandbox_controller_complete_artifact_export_v1(
                    workers[w].op, w, workers[w].token, workers[w].backend)
             /\ Answered(w, "begin") /\ UNCHANGED <<retained, cluster, uids>>
    <3>1. workers[w].backend \in Backend
      BY <1>1, <1>6 DEF CompleteArtifactExport, At, Equipped, Cleaning
    <3>2. Of(w) \in WithRequired => Of(w) \in artifacts'
      BY <2>2 DEF sandbox_controller_complete_artifact_export_v1, Of, Item
    <3>3. Due(w, "begin")
      BY <3>1, <3>2 DEF Due, Identified
    <3>4. Kept /\ NoNewOp /\ Quiet /\ \A v \in Worker : NoNewLease(v)
      BY <1>1, <2>2, <3>1, QuietCall
    <3>. QED  BY <1>1, <1>2, <2>2, <3>3, <3>4, AnsweredTurn
  <2>. QED  BY <1>6, <2>1, <2>2 DEF CompleteArtifactExport, Refused
<1>. QED  BY <1>3, <1>4, <1>5, <1>6

\* A completion whose report is so, if the lease is still held.
LEMMA CompleteTurn ==
    ASSUME ControllerInv, QueueInv', NEW w \in Worker, workers[w].pc # "idle",
           NEW c \in Completions, NEW lost, Complete(w, c, lost),
           Holds(w) /\ c.destroyed => cluster[Of(w)].phase = "absent",
           Holds(w) /\ c.status = "succeeded" /\ ~c.destroyed =>
              cluster[Of(w)] = [phase |-> "running", uid |-> c.backend]
    PROVE  ControllerInv'
<1>1. /\ TypeOK /\ Open /\ ControllerTypeOK /\ workers[w].op \in Op
      /\ Of(w) \in Sandbox /\ c \in CompletionRow
  BY Busy, CompletionsTyped DEF ControllerInv, QueueInv
<1>2. CASE Rest(w) /\ Internal
  BY <1>2, RefusedTurn
<1>3. CASE /\ sandbox_controller_complete_v5(workers[w].op, w, workers[w].token, c)
           /\ Rest(w) \/ Fail(w, "retryable")
           /\ UNCHANGED <<retained, cluster, uids>>
  <2>1. Holds(w) /\ retained' = retained /\ cluster' = cluster /\ uids' = uids
    BY <1>3 DEF sandbox_controller_complete_v5, Holds
  <2>2. PICK o \in Op, s \in Sandbox : o = workers[w].op /\ s = Of(w)
    BY <1>1
  <2>3. /\ operations[o].status \in Nonterminal /\ s = operations[o].sandbox
        /\ sandbox_controller_operation_is_current(o)
    BY <1>1, <2>1, <2>2, FencedIsOpen DEF Holds, Of, Item
  <2>4. artifacts' = artifacts /\ \E n, a : sandbox_controller_complete(o, n, c, a)
    BY <1>3, <2>2, <2>3 DEF sandbox_controller_complete_v5
  <2>5. Kept /\ NoNewOp /\ (\A v \in Worker : NoNewLease(v)) /\ Ended(o, s, c)
    BY <1>1, <2>3, <2>4, CompleteEffect
  <2>6. DestroyedMeansGone' /\ ReadyIsRunning' /\ NoArtifactLost'
    BY <2>1, <2>2, <2>5, ReportsComplete
  <2>7. PICK pc \in {"idle", "failed"} : Turned(w, pc)
    BY <1>1, <1>3, Turns DEF Failure
  <2>8. Due(w, pc)
    BY DueFree
  <2>9. \A v \in Worker : Equipped(v)' /\ Seen(v)'
    BY <2>1, <2>5, <2>7, <2>8, TurnKept
  <2>10. ControllerTypeOK'
    BY <1>1, <2>1, <2>7 DEF ControllerTypeOK, Turned
  <2>. QED  BY <2>6, <2>9, <2>10 DEF ControllerInv
<1>. QED  BY <1>2, <1>3 DEF Complete, Refused

\* The reports a worker makes, and the retry.
LEMMA ReportKept ==
    ASSUME ControllerInv, QueueInv', NEW w \in Worker,
           CompleteCreate(w) \/ CompleteCleanup(w) \/ finishDestroyedCreate(w) \/ finishFailure(w)
    PROVE  ControllerInv'
<1>1. /\ workers[w].pc # "idle" /\ TypeOK /\ Open /\ ControllerTypeOK /\ workers[w].op \in Op
      /\ Equipped(w) /\ Seen(w)
  BY Busy DEF CompleteCreate, CompleteCleanup, finishDestroyedCreate, finishFailure, At,
     ControllerInv, QueueInv
<1>2. CASE CompleteCreate(w)
  <2>1. Expected(w) \in Backend
    BY <1>1, <1>2 DEF CompleteCreate, At, Equipped, Identified
  <2>2. PICK c \in Completions :
           c = Completion("succeeded", Expected(w), FALSE, FALSE, FALSE, FALSE)
    BY <2>1 DEF Completions
  <2>3. c.backend = Expected(w) /\ ~c.destroyed
    BY <2>2 DEF Completion
  <2>4. Holds(w) => cluster[Of(w)] = [phase |-> "running", uid |-> c.backend]
    BY <1>1, <1>2, <2>3 DEF CompleteCreate, At, Seen
  <2>5. Complete(w, c, TRUE)
    BY <1>2, <2>2 DEF CompleteCreate
  <2>. QED  BY <1>1, <2>3, <2>4, <2>5, CompleteTurn
<1>3. CASE CompleteCleanup(w)
  <2>1. workers[w].backend \in Backend
    BY <1>1, <1>3 DEF CompleteCleanup, At, Equipped, Cleaning
  <2>2. PICK c \in Completions :
           c = Completion("succeeded", workers[w].backend, TRUE, TRUE, TRUE, TRUE)
    BY <2>1 DEF Completions
  <2>3. c.destroyed
    BY <2>2 DEF Completion
  <2>4. Holds(w) => cluster[Of(w)].phase = "absent"
    BY <1>1, <1>3 DEF CompleteCleanup, At, Seen
  <2>5. Complete(w, c, TRUE)
    BY <1>3, <2>2 DEF CompleteCleanup
  <2>. QED  BY <1>1, <2>3, <2>4, <2>5, CompleteTurn
<1>4. CASE finishDestroyedCreate(w)
  <2>1. PICK c \in Completions : c = Completion("failed", None, TRUE, FALSE, TRUE, TRUE)
    BY DEF Completions
  <2>2. c.destroyed
    BY <2>1 DEF Completion
  <2>3. Holds(w) => cluster[Of(w)].phase = "absent"
    BY <1>1, <1>4 DEF finishDestroyedCreate, At, Seen
  <2>4. Complete(w, c, FALSE)
    BY <1>4, <2>1 DEF finishDestroyedCreate
  <2>. QED  BY <1>1, <2>2, <2>3, <2>4, CompleteTurn
<1>5. CASE finishFailure(w)
  <2>1. ASSUME NEW c \in Completions, Complete(w, c, FALSE), ~c.destroyed, c.status # "succeeded"
        PROVE  ControllerInv'
    BY <1>1, <2>1, CompleteTurn
  <2>2. CASE Complete(w, Completion("recovery_required", workers[w].backend,
                                    FALSE, FALSE, FALSE, FALSE), FALSE)
    <3>1. workers[w].backend \in Backend \cup {None}
      BY <1>1 DEF ControllerTypeOK, WorkerRow
    <3>2. PICK c \in Completions :
             c = Completion("recovery_required", workers[w].backend, FALSE, FALSE, FALSE, FALSE)
      BY <3>1 DEF Completions
    <3>3. ~c.destroyed /\ c.status # "succeeded"
      BY <3>2 DEF Completion
    <3>. QED  BY <2>1, <2>2, <3>2, <3>3
  <2>3. CASE Complete(w, Completion("failed", None, FALSE, FALSE, FALSE, FALSE), FALSE)
    <3>1. PICK c \in Completions : c = Completion("failed", None, FALSE, FALSE, FALSE, FALSE)
      BY DEF Completions
    <3>2. ~c.destroyed /\ c.status # "succeeded"
      BY <3>1 DEF Completion
    <3>. QED  BY <2>1, <2>3, <3>1, <3>2
  <2>4. CASE Retry(w)
    <3>1. CASE Rest(w) /\ Internal
      BY <1>1, <3>1, RefusedTurn
    <3>2. CASE /\ sandbox_controller_retry(workers[w].op, w, workers[w].token)
               /\ Rest(w) /\ UNCHANGED <<retained, cluster, uids>>
      <4>1. Kept /\ NoNewOp /\ Quiet /\ \A v \in Worker : NoNewLease(v)
        BY <1>1, <3>2, QuietRetry
      <4>2. Repeats
        BY <4>1, QuietRepeats DEF ControllerInv, QueueInv
      <4>3. Turned(w, "idle") /\ Due(w, "idle")
        BY <1>1, <3>2, Turns, DueFree
      <4>4. retained' = retained /\ cluster' = cluster /\ uids' = uids
        BY <3>2
      <4>. QED  BY <1>1, <4>1, <4>2, <4>3, <4>4, CallTurn
    <3>. QED  BY <2>4, <3>1, <3>2 DEF Retry, Refused
  <2>. QED  BY <1>5, <2>2, <2>3, <2>4 DEF finishFailure
<1>. QED  BY <1>2, <1>3, <1>4, <1>5

\* A step in which no worker moves and no object changes.
LEMMA OutsideKept ==
    ASSUME ControllerInv, QueueInv', Outside
    PROVE  ControllerInv'
<1>1. workers' = workers /\ retained' = retained /\ cluster' = cluster /\ uids' = uids
  BY DEF Outside, controllerVars
<1>2. TypeOK /\ Open /\ Evidence
  BY DEF ControllerInv, QueueInv
<1>3. Kept /\ Quiet /\ \A v \in Worker : NoNewLease(v)
  BY <1>2, QuietEnqueue, QuietOther DEF Outside
<1>4. Repeats
  BY <1>2, <1>3, QuietRepeats
<1>5. ASSUME NEW v \in Worker PROVE Equipped(v)' /\ Seen(v)'
  BY <1>1, <1>3, OthersKept
<1>6. DestroyedMeansGone' /\ ReadyIsRunning' /\ NoArtifactLost'
  BY <1>1, <1>3, <1>4, ReportsKept DEF Lawful
<1>7. ControllerTypeOK'
  BY <1>1 DEF ControllerInv, ControllerTypeOK
<1>. QED  BY <1>5, <1>6, <1>7 DEF ControllerInv

\* A claim hands out a work item that agrees with the tables.
LEMMA ClaimKept ==
    ASSUME ControllerInv, QueueInv', NEW w \in Worker, NEW o \in Op,
           Claim(w, o) \/ ClaimUndecoded(w, o)
    PROVE  ControllerInv'
<1>1. /\ TypeOK /\ Open /\ Evidence /\ ExportsStored /\ ControllerTypeOK
      /\ workers[w].pc = "idle" /\ sandbox_controller_claim_v5(w, o)
      /\ cluster' = cluster /\ uids' = uids
  BY DEF ControllerInv, QueueInv, Claim, ClaimUndecoded, At
<1>2. /\ Kept /\ Repeats /\ \A v \in Worker \ {w} : NoNewLease(v)
      /\ operations[o].status \in Nonterminal
      /\ jobs'[o].owner = w => jobs'[o].token \in Token
  BY <1>1, ClaimEffect
<1>3. /\ retained' \in [Worker -> [Sandbox -> Backend \cup {None}]]
      /\ \A v \in Worker \ {w} : retained'[v] = retained[v]
  BY <1>1 DEF ControllerTypeOK, Claim, ClaimUndecoded
<1>4. DestroyedMeansGone' /\ ReadyIsRunning' /\ NoArtifactLost'
  BY <1>1, <1>2, ReportsKept DEF Lawful
<1>5. ASSUME \A v \in Worker \ {w} : workers'[v] = workers[v],
             workers' \in [Worker -> WorkerRow], Equipped(w)', Seen(w)'
      PROVE  ControllerInv'
  <2>1. ASSUME NEW v \in Worker \ {w} PROVE Equipped(v)' /\ Seen(v)'
    BY <1>1, <1>2, <1>3, <1>5, OthersKept
  <2>2. ControllerTypeOK'
    BY <1>1, <1>3, <1>5 DEF ControllerTypeOK
  <2>. QED  BY <1>4, <1>5, <2>1, <2>2 DEF ControllerInv
<1>6. CASE workers' = workers
  <2>1. Equipped(w)' /\ Seen(w)'
    BY <1>1, <1>6 DEF Equipped, Seen
  <2>. QED  BY <1>1, <1>5, <1>6, <2>1 DEF ControllerTypeOK
<1>7. CASE jobs'[o].owner = w /\ workers' = [workers EXCEPT ![w] = decodeWorkItem(o)]
  <2>1. /\ operations[o].status # "free" /\ operations[o].sandbox \in Sandbox
        /\ operations'[o].status # "free" /\ operations'[o].sandbox = operations[o].sandbox
    BY <1>1, <1>2, StatusTyped DEF Kept, Nonterminal
  <2>2. /\ Row(o).backend \in Backend \cup {None}
        /\ sources[operations[o].sandbox] \in Backend \cup {None}
        /\ jobs'[o].token \in Token /\ Token \subseteq 0 .. MaxAttempts
    BY <1>1, <1>2, <1>7, <2>1, RowTyped DEF Row, TypeOK, Token
  <2>3. decodeWorkItem(o) \in WorkerRow
    <3>1. "execute" \in PC /\ "none" \in Failure \cup {"none"} /\ (o \in exports) \in BOOLEAN
      BY DEF PC, Executing
    <3>2. o \in Op \cup {None} /\ jobs'[o].token \in 0 .. MaxAttempts
      BY <2>2
    <3>. QED  BY <2>2, <3>1, <3>2 DEF decodeWorkItem, workItemRow, WorkerRow
  <2>4. /\ workers' \in [Worker -> WorkerRow] /\ workers'[w] = decodeWorkItem(o)
        /\ \A v \in Worker \ {w} : workers'[v] = workers[v]
    BY <1>1, <1>7, <2>3 DEF ControllerTypeOK
  <2>5. /\ workers'[w].pc = "execute" /\ workers'[w].op = o /\ workers'[w].token \in Token
        /\ workers'[w].exported = (o \in exports)
    BY <2>2, <2>4 DEF decodeWorkItem, workItemRow
  <2>6. o \in exports => (operations'[o].sandbox \in WithRequired =>
                             operations'[o].sandbox \in artifacts')
    BY <1>1, <1>2, <2>1 DEF ExportsStored, Stored, Kept
  <2>7. Equipped(w)'
    BY <2>1, <2>5, <2>6 DEF Equipped, Stored, Of, Item, Identified, Cleaning
  <2>8. Seen(w)'
    BY <2>5 DEF Seen
  <2>. QED  BY <1>5, <2>4, <2>7, <2>8
<1>. QED  BY <1>6, <1>7 DEF Claim, ClaimUndecoded

-----------------------------------------------------------------------------
(* The whole system. *)

\* A call that commits is a transaction of the queue; a call that is refused
\* leaves the queue alone.
LEMMA CallImplements ==
    ASSUME ControllerInv, NEW w \in Worker,
           RecordSources(w) \/ BindBackend(w) \/ ExportArtifacts(w) \/ CompleteArtifactExport(w)
    PROVE  UNCHANGED vars \/ Leased(workers[w].op, w, workers[w].token)
<1>1. Equipped(w) /\ workers[w].pc # "idle"
  BY DEF RecordSources, BindBackend, ExportArtifacts, CompleteArtifactExport, At, ControllerInv
<1>2. CASE RecordSources(w)
  <2>1. Expected(w) \in Backend
    BY <1>1, <1>2 DEF RecordSources, At, Equipped, Identified
  <2>. QED  BY <1>2, <2>1 DEF RecordSources, Leased, Refused, Internal
<1>3. CASE BindBackend(w)
  <2>1. Expected(w) \in Backend
    BY <1>1, <1>3 DEF BindBackend, At, Equipped, Identified
  <2>. QED  BY <1>3, <2>1 DEF BindBackend, Leased, Refused, Internal
<1>4. CASE ExportArtifacts(w)
  <2>1. workers[w].backend \in Backend
    BY <1>1, <1>4 DEF ExportArtifacts, At, Equipped, Cleaning
  <2>. QED  BY <1>4, <2>1 DEF ExportArtifacts, RecordArtifact, Leased, Refused, Internal
<1>5. CASE CompleteArtifactExport(w)
  <2>1. workers[w].backend \in Backend
    BY <1>1, <1>5 DEF CompleteArtifactExport, At, Equipped, Cleaning
  <2>. QED  BY <1>5, <2>1 DEF CompleteArtifactExport, Leased, Refused, Internal
<1>. QED  BY <1>2, <1>3, <1>4, <1>5

\* A worker reports nothing but the queue's Completions.
LEMMA ReportImplements ==
    ASSUME ControllerInv, NEW w \in Worker,
           CompleteCreate(w) \/ CompleteCleanup(w) \/ finishDestroyedCreate(w) \/ finishFailure(w)
    PROVE  UNCHANGED vars \/ Leased(workers[w].op, w, workers[w].token)
<1>1. Equipped(w) /\ ControllerTypeOK
  BY DEF ControllerInv
<1>2. ASSUME NEW c \in Completions, NEW lost, Complete(w, c, lost)
      PROVE  UNCHANGED vars \/ Leased(workers[w].op, w, workers[w].token)
  BY <1>2 DEF Complete, Refused, Internal, Leased
<1>3. CASE CompleteCreate(w)
  <2>1. Expected(w) \in Backend
    BY <1>1, <1>3 DEF CompleteCreate, At, Equipped, Identified
  <2>2. Completion("succeeded", Expected(w), FALSE, FALSE, FALSE, FALSE) \in Completions
    BY <2>1 DEF Completions
  <2>. QED  BY <1>2, <1>3, <2>2 DEF CompleteCreate
<1>4. CASE CompleteCleanup(w)
  <2>1. workers[w].backend \in Backend
    BY <1>1, <1>4 DEF CompleteCleanup, At, Equipped, Cleaning
  <2>2. Completion("succeeded", workers[w].backend, TRUE, TRUE, TRUE, TRUE) \in Completions
    BY <2>1 DEF Completions
  <2>. QED  BY <1>2, <1>4, <2>2 DEF CompleteCleanup
<1>5. CASE finishDestroyedCreate(w)
  <2>1. Completion("failed", None, TRUE, FALSE, TRUE, TRUE) \in Completions
    BY DEF Completions
  <2>. QED  BY <1>2, <1>5, <2>1 DEF finishDestroyedCreate
<1>6. CASE finishFailure(w)
  <2>1. workers[w].backend \in Backend \cup {None}
    BY <1>1 DEF ControllerTypeOK, WorkerRow
  <2>2. Completion("recovery_required", workers[w].backend, FALSE, FALSE, FALSE, FALSE)
           \in Completions
    BY <2>1 DEF Completions
  <2>3. Completion("failed", None, FALSE, FALSE, FALSE, FALSE) \in Completions
    BY DEF Completions
  <2>4. Retry(w) => UNCHANGED vars \/ Leased(workers[w].op, w, workers[w].token)
    BY DEF Retry, Refused, Internal, Leased
  <2>. QED  BY <1>2, <1>6, <2>2, <2>3, <2>4 DEF finishFailure
<1>. QED  BY <1>3, <1>4, <1>5, <1>6

\* Every step of the system is a step of the queue, or leaves it alone.
LEMMA StepImplements == ControllerInv /\ [ControllerNext]_allVars => UNCHANGED vars \/ Next
<1>. SUFFICES ASSUME ControllerInv, [ControllerNext]_allVars PROVE UNCHANGED vars \/ Next
  OBVIOUS
<1>1. CASE UNCHANGED allVars
  BY <1>1 DEF allVars
<1>2. ASSUME NEW w \in Worker, NEW o \in Op, Claim(w, o) \/ ClaimUndecoded(w, o) PROVE Next
  BY <1>2 DEF Claim, ClaimUndecoded, Next
<1>3. ASSUME NEW w \in Worker,
             \/ RecordSources(w) \/ BindBackend(w) \/ ExportArtifacts(w) \/ CompleteArtifactExport(w)
             \/ CompleteCreate(w) \/ CompleteCleanup(w) \/ finishDestroyedCreate(w) \/ finishFailure(w)
      PROVE  UNCHANGED vars \/ Next
  <2>1. UNCHANGED vars \/ Leased(workers[w].op, w, workers[w].token)
    BY <1>3, CallImplements, ReportImplements
  <2>2. workers[w].pc # "idle"
    BY <1>3 DEF RecordSources, BindBackend, ExportArtifacts, CompleteArtifactExport,
       CompleteCreate, CompleteCleanup, finishDestroyedCreate, finishFailure, At
  <2>3. workers[w].op \in Op /\ workers[w].token \in Token
    BY <2>2, Busy
  <2>. QED  BY <2>1, <2>3 DEF Next
<1>4. ASSUME NEW w \in Worker,
             \/ EnsureCreated(w) \/ ObserveRecorded(w) \/ ObservePlain(w) \/ ObserveSourced(w)
             \/ ReleaseSources(w) \/ AwaitReady(w) \/ BeginCleanup(w) \/ BeginDelete(w)
             \/ Finalize(w) \/ waitForOwnedAbsence(w)
      PROVE  UNCHANGED vars
  BY <1>4 DEF EnsureCreated, ObserveRecorded, ObservePlain, ObserveSourced, ReleaseSources,
     AwaitReady, BeginCleanup, BeginDelete, Finalize, waitForOwnedAbsence, Internal
<1>5. ASSUME NEW w \in Worker,
             \/ RejectItem(w) \/ RefreshLease(w) \/ DestroyUnbound(w) \/ ProveAbsence(w)
             \/ Crash(w) \/ LeaseLost(w) \/ \E f \in Failure : StepFails(w, f)
      PROVE  UNCHANGED vars
  BY <1>5 DEF RejectItem, RefreshLease, DestroyUnbound, ProveAbsence, Crash, LeaseLost,
     StepFails, Internal
<1>6. ASSUME NEW s \in Sandbox, Progress(s) PROVE UNCHANGED vars
  BY <1>6 DEF Progress
<1>7. CASE Outside
  BY <1>7 DEF Outside, Next
<1>. QED
  BY <1>1, <1>2, <1>3, <1>4, <1>5, <1>6, <1>7
     DEF ControllerNext, CreateStep, CleanupStep, FailureStep

\* The invariant is inductive.
LEMMA ControllerStep == ControllerInv /\ [ControllerNext]_allVars => ControllerInv'
<1>. SUFFICES ASSUME ControllerInv, [ControllerNext]_allVars PROVE ControllerInv'
  OBVIOUS
<1>1. QueueInv'
  BY StepImplements, QueueStep DEF ControllerInv
<1>2. CASE UNCHANGED allVars
  BY <1>1, <1>2 DEF allVars, vars, controllerVars, ControllerInv, ControllerTypeOK, Equipped, Seen,
     Expected, Item, Of, Stored, Holds, Fence, DestroyedMeansGone, ReadyIsRunning, NoArtifactLost
<1>3. ASSUME NEW w \in Worker, NEW o \in Op, Claim(w, o) \/ ClaimUndecoded(w, o)
      PROVE  ControllerInv'
  BY <1>1, <1>3, ClaimKept
<1>4. ASSUME NEW w \in Worker, CreateStep(w) PROVE ControllerInv'
  BY <1>1, <1>4, EnsureCreatedKept, CreateObserves, ReleaseKept, CallKept, ReportKept DEF CreateStep
<1>5. ASSUME NEW w \in Worker, CleanupStep(w) PROVE ControllerInv'
  BY <1>1, <1>5, CleanupObserves, BeginDeleteKept, FinalizeKept, CallKept, ReportKept
     DEF CleanupStep
<1>6. ASSUME NEW w \in Worker, FailureStep(w) PROVE ControllerInv'
  BY <1>1, <1>6, FailureObserves, DestroyKept, ReportKept DEF FailureStep
<1>7. ASSUME NEW w \in Worker, Crash(w) \/ LeaseLost(w) \/ \E f \in Failure : StepFails(w, f)
      PROVE  ControllerInv'
  BY <1>7, CrashKept, FailureObserves
<1>8. ASSUME NEW s \in Sandbox, Progress(s) PROVE ControllerInv'
  BY <1>8, ProgressKept
<1>9. CASE Outside
  BY <1>1, <1>9, OutsideKept
<1>. QED
  BY <1>2, <1>3, <1>4, <1>5, <1>6, <1>7, <1>8, <1>9 DEF ControllerNext

\* Nothing is enqueued, claimed or created yet.
LEMMA ControllerInitInv == ControllerInit => ControllerInv
<1>. SUFFICES ASSUME ControllerInit PROVE ControllerInv
  OBVIOUS
<1>1. TypeOK /\ Open /\ Evidence
  BY TypeInit, OpenInit, EvidenceInit DEF ControllerInit
<1>2. \A o \in Op : /\ operations[o].status = "free" /\ ~receipts[o].destroyed
  BY DEF ControllerInit, Init, Receipt
<1>3. CreateFirst /\ ExportsStored
  BY <1>2 DEF CreateFirst, ExportsStored, ControllerInit, Init, Nonterminal
<1>4. ControllerTypeOK
  <2>1. Idle \in WorkerRow
    <3>1. "idle" \in PC /\ 0 \in 0 .. MaxAttempts
      BY AttemptsAssumption DEF PC
    <3>. QED  BY <3>1 DEF Idle, WorkerRow
  <2>2. Absent \in ClusterRow /\ Absent.phase = "absent"
    BY DEF Absent, ClusterRow, Phase
  <2>. QED  BY <2>1, <2>2 DEF ControllerTypeOK, ControllerInit
<1>5. \A w \in Worker : Equipped(w) /\ Seen(w)
  BY DEF Equipped, Seen, ControllerInit, Idle
<1>6. DestroyedMeansGone /\ NoArtifactLost
  BY <1>2 DEF DestroyedMeansGone, NoArtifactLost
<1>7. ReadyIsRunning
  BY DEF ReadyIsRunning, ControllerInit, Init
<1>. QED  BY <1>1, <1>3, <1>4, <1>5, <1>6, <1>7 DEF ControllerInv, QueueInv

\* Workers, tables and Kubernetes agree in every reachable state, whatever
\* crashes, lost answers and lost leases there were.
THEOREM ControllerInvariant == ControllerSpec => []ControllerInv
  BY ControllerInitInv, ControllerStep, PTL DEF ControllerSpec

\* The controllers implement the queue: whatever they do to the database is a
\* transaction of SandboxQueue, under the token the worker claimed.
THEOREM ControllerImplementsQueue == ControllerSpec => ImplementsQueue
<1>1. ControllerInit => Init
  BY DEF ControllerInit
<1>2. ControllerInv /\ [ControllerNext]_allVars => [UNCHANGED vars \/ Next]_vars
  BY StepImplements
<1>. QED  BY <1>1, <1>2, ControllerInvariant, PTL DEF ControllerSpec, ImplementsQueue

\* A backend that was reported destroyed is gone for ever.
THEOREM GoneWhenDestroyed == ControllerSpec => []DestroyedMeansGone
<1>1. ControllerInv => DestroyedMeansGone
  BY DEF ControllerInv
<1>. QED  BY <1>1, ControllerInvariant, PTL

\* A sandbox that is shown as ready runs the backend on record.
THEOREM RunningWhenReady == ControllerSpec => []ReadyIsRunning
<1>1. ControllerInv => ReadyIsRunning
  BY DEF ControllerInv
<1>. QED  BY <1>1, ControllerInvariant, PTL

\* A sandbox that was ready loses its Pod only after its required artifact is
\* stored.
THEOREM ArtifactsKept == ControllerSpec => []NoArtifactLost
<1>1. ControllerInv => NoArtifactLost
  BY DEF ControllerInv
<1>. QED  BY <1>1, ControllerInvariant, PTL
==============================================================================
