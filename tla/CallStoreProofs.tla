--------------------------- MODULE CallStoreProofs ---------------------------
(***************************************************************************)
(* Facts about the rows and the transactions of CallStore, for every value *)
(* of its constants: the lemmas that CallPipelineProofs and                *)
(* ExtractionProofs share.                                                 *)
(***************************************************************************)
EXTENDS CallStore, TLAPS

----------------------------------------------------------------------------
(* Every row operator yields a row                                         *)

\* The words a statement may write in a column belong to it.
LEMMA Words ==
    /\ {"ABSENT", "DELETED", "CREATED", "QUEUED", "CONNECTING", "CONNECTED", "AI_FINISHED",
         "NEEDS_RECONCILIATION", "COMPLETED", "FAILED", "CANCELED", "BUSY", "NO_ANSWER",
         "HUNG_UP"} \subseteq LifecycleState
    /\ {"none", "queued", "claimed", "active", "canceling", "needs_reconciliation",
         "terminal"} \subseteq QueueState
    /\ {"none", "live", "expired"} \subseteq Lease
    /\ {"none", "running", "ring", "max", "overdue"} \subseteq Deadline
    /\ {"none", "provider_rejected"} \subseteq Outcome
    /\ PROVIDER_TERMINAL \subseteq Outcome
    /\ MediaEndReasons \subseteq Outcome
    /\ NoWorker \in Owner
    /\ Worker \subseteq Owner
    /\ {0, MaxReconcile} \subseteq 0..MaxReconcile
  BY StoreAssumption DEF LifecycleState, NoRow, LIFECYCLE_TERMINAL, QueueState,
     UNRESOLVED_JOB_STATES, CAPACITY_STATES, Lease, Deadline, Outcome, Owner

LEMMA AbsentRowType ==
    /\ AbsentRow \in Row
    /\ QueuedRow \in Row
    /\ DeletedRow \in Row
  <1>1. AbsentRow \in Row
    BY Words DEF AbsentRow, Row
  <1>2. QueuedRow \in Row
    BY <1>1, Words DEF QueuedRow, Row
  <1>3. DeletedRow \in Row
    BY <1>1, Words DEF DeletedRow, Row
  <1> QED BY <1>1, <1>2, <1>3

LEMMA SetJobType ==
    ASSUME NEW r \in Row, NEW q \in QueueState
    PROVE  SetJob(r, q) \in Row
  <1> DEFINE state == IF r.queue_state = "none" THEN "none" ELSE q
  <1>1. state \in QueueState
    BY Words
  <1>2. /\ "none" \in Lease
        /\ NoWorker \in Owner
    BY Words
  <1> HIDE DEF state
  <1>3. [r EXCEPT !.queue_state = state, !.lease = "none", !.lease_owner = NoWorker] \in Row
    BY <1>1, <1>2, Zenon DEF Row
  <1>4. SetJob(r, q) = [r EXCEPT !.queue_state = state, !.lease = "none", !.lease_owner = NoWorker]
    BY DEF SetJob, state
  <1> QED BY <1>3, <1>4

LEMMA DialRowTypes ==
    ASSUME NEW r \in Row
    PROVE  /\ QuarantineClaim(r) \in Row
           /\ \A w \in Worker : ClaimRow(r, w) \in Row
           /\ MarkReconciliation(r) \in Row
           /\ BindRow(r) \in Row
           /\ RejectRow(r) \in Row
           /\ BindIfUnknown(r) \in Row
  <1> DEFINE waiting == SetJob(r, "needs_reconciliation")
             active == SetJob(r, "active")
             over == SetJob(r, "terminal")
             deadline == IF active.deadline = "none" THEN "running" ELSE active.deadline
  <1>1. waiting \in Row /\ active \in Row /\ over \in Row
    BY SetJobType, Words
  <1>2. deadline \in Deadline
    BY <1>1, Words DEF Row
  <1>3. /\ [active EXCEPT !.call_sid = TRUE, !.deadline = deadline] = BindIfUnknown(r)
        \/ BindIfUnknown(r) = r
    BY DEF BindIfUnknown
  <1> HIDE DEF waiting, active, over, deadline
  <1>4. [waiting EXCEPT !.lifecycle_state = "NEEDS_RECONCILIATION",
                        !.reconciliation = TRUE, !.next = "due"] \in Row
    BY <1>1, Words DEF Row
  <1>5. QuarantineClaim(r) \in Row /\ MarkReconciliation(r) \in Row
    BY <1>1, <1>4 DEF QuarantineClaim, MarkReconciliation, waiting
  <1>6. ASSUME NEW w \in Worker PROVE ClaimRow(r, w) \in Row
    BY Words DEF ClaimRow, Row
  <1>7. [active EXCEPT !.call_sid = TRUE, !.deadline = "running",
                       !.reconciliation = FALSE] \in Row
    BY <1>1, Words DEF Row
  <1>8. [over EXCEPT !.lifecycle_state = "FAILED", !.outcome = "provider_rejected",
                     !.provider_terminal = TRUE, !.finalized = TRUE] \in Row
    BY <1>1, Words DEF Row
  <1>9. [active EXCEPT !.call_sid = TRUE, !.deadline = deadline] \in Row
    BY <1>1, <1>2 DEF Row
  <1> QED
    BY <1>3, <1>5, <1>6, <1>7, <1>8, <1>9 DEF BindRow, RejectRow, active, over

LEMMA StatusRowTypes ==
    ASSUME NEW r \in Row, NEW s \in PROVIDER_TERMINAL
    PROVE  TerminalRow(r, s) \in Row
  <1> DEFINE over == SetJob(r, "terminal")
             lifecycle == IF r.provider_terminal THEN over.lifecycle_state ELSE TerminalLifecycle(r, s)
             outcome == IF r.provider_terminal THEN over.outcome ELSE TerminalOutcome(r, s)
             finalized == over.finalized \/ ~r.media_connected \/ RawPersisted(r)
  <1>1. over \in Row
    BY SetJobType, Words
  <1>2. TerminalLifecycle(r, s) \in LifecycleState
    BY Words DEF TerminalLifecycle, LifecycleOf
  <1>3. TerminalOutcome(r, s) \in Outcome
    BY Words DEF TerminalOutcome, Row
  <1>4. lifecycle \in LifecycleState /\ outcome \in Outcome /\ finalized \in BOOLEAN
    BY <1>1, <1>2, <1>3 DEF Row
  <1>5. TerminalRow(r, s) = [over EXCEPT !.provider_terminal = TRUE,
            !.lifecycle_state = lifecycle, !.outcome = outcome, !.finalized = finalized,
            !.reconciliation = FALSE]
    BY DEF TerminalRow
  <1> HIDE DEF over, lifecycle, outcome, finalized
  <1> QED BY <1>1, <1>4, <1>5, ZenonT(30) DEF Row

LEMMA MediaRowTypes ==
    ASSUME NEW r \in Row, NEW reason \in MediaEndReasons
    PROVE  PersistRow(r, reason) \in Row
  <1> DEFINE lifecycle == IF r.provider_terminal THEN r.lifecycle_state ELSE MediaLifecycle(reason)
             finalized == r.finalized \/ r.provider_terminal
  <1>1. lifecycle \in LifecycleState /\ finalized \in BOOLEAN
    BY Words DEF MediaLifecycle, Row
  <1>2. PersistRow(r, reason) = [r EXCEPT !.media_connected = TRUE,
            !.media_end_reason = reason, !.lifecycle_state = lifecycle, !.finalized = finalized]
    BY DEF PersistRow
  <1> HIDE DEF lifecycle, finalized
  <1> QED BY <1>1, <1>2, Zenon DEF Row

LEMMA ReleaseActionType ==
    ASSUME NEW r \in Row
    PROVE  ReleaseAction(r) \in Row
  BY Words DEF ReleaseAction, Row

LEMMA ReconcileRowTypes ==
    ASSUME NEW r \in Row
    PROVE  /\ \A w \in Worker : ActionRow(r, w) \in Row
           /\ ReleaseAction(r) \in Row
           /\ ReconciledRow(r) \in Row
           /\ AbandonRow(r) \in Row
  <1> DEFINE freed == ReleaseAction(r)
             waiting == SetJob(freed, "needs_reconciliation")
             canceling == IF r.queue_state = "none" THEN "none" ELSE "canceling"
             active == IF freed.queue_state = "none" THEN "none" ELSE "active"
  <1>1. freed \in Row
    BY ReleaseActionType
  <1>2. waiting \in Row
    BY <1>1, SetJobType, Words
  <1>3. canceling \in QueueState /\ active \in QueueState
    BY Words
  <1>4. freed.attempts = r.attempts
    BY DEF ReleaseAction, Row
  <1>5. /\ \A w \in Worker : ActionRow(r, w) = [r EXCEPT !.action_owner = w, !.action_lease = "live",
                 !.reconciliation = TRUE, !.queue_state = canceling]
        /\ RetryRow(r) = [freed EXCEPT !.reconciliation = TRUE, !.next = "later",
                 !.attempts = freed.attempts + 1, !.queue_state = active]
        /\ StallRow(r) = [waiting EXCEPT !.lifecycle_state = "NEEDS_RECONCILIATION",
                 !.reconciliation = TRUE, !.next = "none", !.attempts = MaxReconcile]
        /\ AbandonRow(r) = [waiting EXCEPT !.lifecycle_state = "NEEDS_RECONCILIATION",
                 !.reconciliation = TRUE, !.next = "none"]
    BY DEF ActionRow, RetryRow, StallRow, AbandonRow
  <1>6. [freed EXCEPT !.reconciliation = FALSE] \in Row
    BY <1>1 DEF Row
  <1>7. freed = ReleaseAction(r)
    OBVIOUS
  <1> HIDE DEF freed, waiting, canceling, active
  <1>8. ASSUME NEW w \in Worker PROVE ActionRow(r, w) \in Row
    <2>1. w \in Owner /\ "live" \in Lease
      BY Words
    <2>2. ActionRow(r, w) = [r EXCEPT !.action_owner = w, !.action_lease = "live",
                 !.reconciliation = TRUE, !.queue_state = canceling]
      BY <1>5
    <2> QED BY <1>3, <2>1, <2>2, ZenonT(30) DEF Row
  <1>9. StallRow(r) \in Row /\ AbandonRow(r) \in Row
    <2>1. "NEEDS_RECONCILIATION" \in LifecycleState /\ MaxReconcile \in 0..MaxReconcile
      BY Words
    <2>2. StallRow(r) \in Row
      BY <1>2, <1>5, <2>1, ZenonT(30) DEF Row
    <2>3. AbandonRow(r) \in Row
      BY <1>2, <1>5, <2>1, ZenonT(30) DEF Row
    <2> QED BY <2>2, <2>3
  <1>10. ASSUME r.attempts + 1 < MaxReconcile
         PROVE  RetryRow(r) \in Row
    <2> DEFINE attempts == freed.attempts + 1
    <2>1. attempts \in 0..MaxReconcile
      BY <1>4, <1>10, StoreAssumption DEF Row
    <2>2. RetryRow(r) = [freed EXCEPT !.reconciliation = TRUE, !.next = "later",
                 !.attempts = attempts, !.queue_state = active]
      BY <1>5
    <2> HIDE DEF attempts
    <2> QED BY <1>1, <1>3, <2>1, <2>2, ZenonT(30) DEF Row
  <1>11. r.attempts \in Int
    BY DEF Row
  <1>12. ReconciledRow(r) \in Row
    <2>1. CASE r.provider_terminal
      BY <1>6, <1>7, <2>1 DEF ReconciledRow
    <2>2. CASE ~r.provider_terminal /\ r.attempts + 1 >= MaxReconcile
      BY <1>9, <2>2 DEF ReconciledRow
    <2>3. CASE ~r.provider_terminal /\ ~(r.attempts + 1 >= MaxReconcile)
      BY <1>10, <1>11, <2>3, StoreAssumption DEF ReconciledRow
    <2> QED BY <2>1, <2>2, <2>3
  <1> QED BY <1>1, <1>7, <1>8, <1>9, <1>12

LEMMA ReleaseRowTypes ==
    ASSUME NEW r \in Row
    PROVE  /\ RelinquishedRow(r) \in Row
           /\ ResolvedRow(r) \in Row
  <1> DEFINE queued == SetJob(r, "queued")
             over == SetJob(ReleaseAction(r), "terminal")
             lifecycle == IF r.call_sid THEN queued.lifecycle_state ELSE "QUEUED"
  <1>1. queued \in Row /\ over \in Row
    BY SetJobType, ReleaseActionType, Words
  <1>2. lifecycle \in LifecycleState
    BY <1>1, Words DEF Row
  <1>3. /\ RelinquishedRow(r) = [queued EXCEPT !.lifecycle_state = lifecycle]
        /\ ResolvedRow(r) = [over EXCEPT !.reconciliation = FALSE, !.next = "none"]
    BY DEF RelinquishedRow, ResolvedRow
  <1> HIDE DEF queued, over, lifecycle
  <1>4. RelinquishedRow(r) \in Row
    BY <1>1, <1>2, <1>3 DEF Row
  <1>5. ResolvedRow(r) \in Row
    BY <1>1, <1>3, Zenon DEF Row
  <1> QED BY <1>4, <1>5

----------------------------------------------------------------------------
(* Every transaction keeps a table of rows                                 *)

Table == [Call -> Row]

LEMMA WholeTableTypes ==
    ASSUME calls \in Table
    PROVE  /\ ExpireClaims(calls) \in Table
           /\ ClaimNothing => calls' \in Table
           /\ QuarantineAbandonedJobs => calls' \in Table
           /\ ClearCalls => calls' \in Table
  <1>1. \A d \in Call : calls[d] \in Row
    BY DEF Table
  <1>2. ExpireClaims(calls) \in Table
    BY <1>1, DialRowTypes DEF ExpireClaims, Table
  <1>3. ClaimNothing => calls' \in Table
    BY <1>2 DEF ClaimNothing
  <1>4. QuarantineAbandonedJobs => calls' \in Table
    BY <1>1, ReconcileRowTypes DEF QuarantineAbandonedJobs, Commit, Table
  <1>5. ClearCalls => calls' \in Table
    BY <1>1, AbsentRowType DEF ClearCalls, Table
  <1> QED BY <1>2, <1>3, <1>4, <1>5

LEMMA RouteTableTypes ==
    ASSUME calls \in Table, NEW c \in Call
    PROVE  /\ EnqueueCall(c) => calls' \in Table
           /\ BindCallSid(c) => calls' \in Table
           /\ BindRefused(c) => calls' \in Table
           /\ MarkDialAmbiguous(c) => calls' \in Table
           /\ MarkDialRejected(c) => calls' \in Table
  <1>1. calls[c] \in Row
    BY DEF Table
  <1>2. \A row \in Row : [calls EXCEPT ![c] = row] \in Table
    BY DEF Table
  <1>3. EnqueueCall(c) => calls' \in Table
    BY <1>2, AbsentRowType DEF EnqueueCall
  <1>4. BindCallSid(c) => calls' \in Table
    BY <1>1, <1>2, DialRowTypes DEF BindCallSid
  <1>5. /\ BindRefused(c) => calls' \in Table
        /\ MarkDialAmbiguous(c) => calls' \in Table
        /\ MarkDialRejected(c) => calls' \in Table
    BY <1>1, <1>2, DialRowTypes DEF BindRefused, MarkDialAmbiguous, MarkDialRejected, Commit
  <1> QED BY <1>3, <1>4, <1>5

LEMMA OwnerTableTypes ==
    ASSUME calls \in Table, NEW c \in Call, NEW w \in Worker
    PROVE  /\ ClaimJob(w, c) => calls' \in Table
           /\ RelinquishClaim(w, c) => calls' \in Table
           /\ ClaimDueAction(w, c) => calls' \in Table
           /\ ReconciliationResult(w, c) => calls' \in Table
  <1>1. calls[c] \in Row
    BY DEF Table
  <1>2. \A row \in Row : [calls EXCEPT ![c] = row] \in Table
    BY DEF Table
  <1>3. ClaimJob(w, c) => calls' \in Table
    <2> DEFINE table == ExpireClaims(calls)
    <2>1. table[c] \in Row
      BY WholeTableTypes DEF Table
    <2>2. ClaimJob(w, c) => calls' = [table EXCEPT ![c] = ClaimRow(table[c], w)]
      BY DEF ClaimJob
    <2>3. ClaimRow(table[c], w) \in Row
      BY <2>1, DialRowTypes
    <2> HIDE DEF table
    <2>4. table \in Table
      BY WholeTableTypes DEF table
    <2> QED BY <2>2, <2>3, <2>4 DEF Table
  <1>4. RelinquishClaim(w, c) => calls' \in Table
    BY <1>1, <1>2, ReleaseRowTypes DEF RelinquishClaim
  <1>5. /\ ClaimDueAction(w, c) => calls' \in Table
        /\ ReconciliationResult(w, c) => calls' \in Table
    BY <1>1, <1>2, ReconcileRowTypes DEF ClaimDueAction, ReconciliationResult, Commit
  <1> QED BY <1>3, <1>4, <1>5

LEMMA OutsideTableTypes ==
    ASSUME calls \in Table, NEW c \in Call
    PROVE  /\ ClaimMedia(c) => calls' \in Table
           /\ \A reason \in MediaEndReasons : PersistRaw(c, reason) => calls' \in Table
           /\ \A s \in PROVIDER_TERMINAL \cup {"in-progress"} :
                    WebhookStatus(c, s) => calls' \in Table
           /\ \A s \in PROVIDER_TERMINAL : ProvenStatus(c, s) => calls' \in Table
           /\ FinishResolve(c) => calls' \in Table
           /\ DeleteCall(c) => calls' \in Table
  <1>1. calls[c] \in Row /\ \A d \in Call : calls[d] \in Row
    BY DEF Table
  <1>2. \A row \in Row : [calls EXCEPT ![c] = row] \in Table
    BY DEF Table
  <1>3. ClaimMedia(c) => calls' \in Table
    <2> DEFINE row == [calls[c] EXCEPT !.media_connected = TRUE, !.lifecycle_state = "CONNECTED"]
    <2>1. "CONNECTED" \in LifecycleState
      BY Words
    <2>2. row \in Row
      BY <1>1, <2>1, Zenon DEF Row
    <2>3. ClaimMedia(c) => calls' = [calls EXCEPT ![c] = row]
      BY <1>1 DEF ClaimMedia, Table
    <2> QED BY <1>2, <2>2, <2>3
  <1>4. ASSUME NEW reason \in MediaEndReasons
        PROVE  PersistRaw(c, reason) => calls' \in Table
    <2>1. [AbsentRow EXCEPT !.lifecycle_state = "CREATED"] \in Row
      BY AbsentRowType, Words DEF Row
    <2> QED BY <1>1, <1>2, <2>1, MediaRowTypes DEF PersistRaw
  <1>5. BindIfUnknown(calls[c]) \in Row
    BY <1>1, DialRowTypes
  <1>6. ASSUME NEW s \in PROVIDER_TERMINAL \cup {"in-progress"}
        PROVE  WebhookStatus(c, s) => calls' \in Table
    BY <1>1, <1>2, <1>5, StatusRowTypes DEF WebhookStatus
  <1>7. ASSUME NEW s \in PROVIDER_TERMINAL
        PROVE  ProvenStatus(c, s) => calls' \in Table
    BY <1>1, <1>2, StatusRowTypes DEF ProvenStatus
  <1>8. FinishResolve(c) => calls' \in Table
    BY <1>1, <1>2, ReleaseRowTypes DEF FinishResolve
  <1>9. DeleteCall(c) => calls' \in Table
    BY <1>2, AbsentRowType DEF DeleteCall
  <1> QED BY <1>3, <1>4, <1>6, <1>7, <1>8, <1>9

LEMMA ClockTableType ==
    ASSUME calls \in Table, NEW c \in Call, Clock(c)
    PROVE  calls' \in Table
  <1>1. calls[c] \in Row
    BY DEF Table
  <1>2. \A row \in Row : [calls EXCEPT ![c] = row] \in Table
    BY DEF Table
  <1>3. CASE LeaseExpires(c)
    <2>1. [calls[c] EXCEPT !.lease = "expired"] \in Row
      BY <1>1, Words DEF Row
    <2> QED BY <1>1, <1>2, <1>3, <2>1 DEF LeaseExpires
  <1>4. CASE GraceElapses(c)
    <2>1. [calls[c] EXCEPT !.aged = TRUE] \in Row
      BY <1>1 DEF Row
    <2> QED BY <1>1, <1>2, <1>4, <2>1 DEF GraceElapses
  <1>5. CASE DeadlinePasses(c)
    <2>1. [calls[c] EXCEPT !.deadline = NextDeadline(calls[c].deadline)] \in Row
      <3>1. NextDeadline(calls[c].deadline) \in Deadline
        BY Words DEF NextDeadline
      <3> QED BY <1>1, <3>1, Zenon DEF Row
    <2> QED BY <1>1, <1>2, <1>5, <2>1 DEF DeadlinePasses
  <1>6. CASE ActionLeaseExpires(c)
    <2>1. [calls[c] EXCEPT !.action_lease = "expired"] \in Row
      BY <1>1, Words DEF Row
    <2> QED BY <1>1, <1>2, <1>6, <2>1 DEF ActionLeaseExpires
  <1>7. CASE BackoffElapses(c)
    <2>1. [calls[c] EXCEPT !.next = "due"] \in Row
      BY <1>1 DEF Row
    <2> QED BY <1>1, <1>2, <1>7, <2>1 DEF BackoffElapses
  <1> QED BY <1>3, <1>4, <1>5, <1>6, <1>7 DEF Clock

----------------------------------------------------------------------------
(* What a statement does to one row                                        *)

\* Row r becomes row t.  The columns that say how the call and its media went.
Alike(r, t) ==
    /\ t.provider_terminal = r.provider_terminal
    /\ t.outcome = r.outcome
    /\ t.media_connected = r.media_connected
    /\ t.media_end_reason = r.media_end_reason

Kept(r, t) == Alike(r, t) /\ t.call_sid = r.call_sid /\ t.attempts = r.attempts

SameLife(r, t) == t.lifecycle_state = r.lifecycle_state

\* The job, if there is one, goes to state q.
JobGoes(r, t, q) == t.queue_state = IF r.queue_state = "none" THEN "none" ELSE q

\* Only timers, leases and the reconciliation list change.
Resting(r, t) == Kept(r, t) /\ SameLife(r, t) /\ t.queue_state = r.queue_state

Waiting(r, t) == Kept(r, t) /\ SameLife(r, t) /\ JobGoes(r, t, "needs_reconciliation")

Quarantined(r, t) ==
    /\ Alike(r, t) /\ t.call_sid = r.call_sid
    /\ JobGoes(r, t, "needs_reconciliation")
    /\ t.lifecycle_state = "NEEDS_RECONCILIATION"
    /\ t.reconciliation

Claimed(r, t) ==
    Kept(r, t) /\ t.lifecycle_state = "CONNECTING" /\ t.queue_state = "claimed"

Requeued(r, t) ==
    /\ Kept(r, t)
    /\ JobGoes(r, t, "queued")
    /\ t.lifecycle_state = IF r.call_sid THEN r.lifecycle_state ELSE "QUEUED"

Bound(r, t) ==
    /\ Alike(r, t) /\ SameLife(r, t) /\ t.attempts = r.attempts
    /\ t.call_sid
    /\ JobGoes(r, t, "active")

Rejected(r, t) ==
    /\ t.media_connected = r.media_connected
    /\ t.media_end_reason = r.media_end_reason
    /\ t.call_sid = r.call_sid /\ t.attempts = r.attempts
    /\ JobGoes(r, t, "terminal")
    /\ t.provider_terminal /\ t.lifecycle_state = "FAILED"

Connected(r, t) ==
    /\ t.provider_terminal = r.provider_terminal /\ t.outcome = r.outcome
    /\ t.call_sid = r.call_sid /\ t.attempts = r.attempts
    /\ t.queue_state = r.queue_state
    /\ t.media_connected /\ t.media_end_reason = r.media_end_reason
    /\ t.lifecycle_state = "CONNECTED"

Persisted(r, t) ==
    /\ t.provider_terminal = r.provider_terminal /\ t.outcome = r.outcome
    /\ t.call_sid = r.call_sid /\ t.attempts = r.attempts
    /\ t.queue_state = r.queue_state
    /\ t.media_connected /\ t.media_end_reason # "none"
    /\ IF r.provider_terminal THEN SameLife(r, t)
       ELSE t.lifecycle_state \in {"AI_FINISHED", "HUNG_UP", "FAILED"}

\* The lifecycles a terminal status may stand for.
Lifecycles(s) ==
    IF s = "completed" THEN {"COMPLETED", "FAILED", "HUNG_UP"} ELSE {LifecycleOf(s)}

Finished(r, t, s) ==
    /\ t.media_connected = r.media_connected
    /\ t.media_end_reason = r.media_end_reason
    /\ t.attempts = r.attempts
    /\ JobGoes(r, t, "terminal")
    /\ t.provider_terminal
    /\ IF r.provider_terminal THEN SameLife(r, t) /\ t.outcome = r.outcome
       ELSE t.lifecycle_state \in Lifecycles(s)

Canceling(r, t) == Kept(r, t) /\ SameLife(r, t) /\ JobGoes(r, t, "canceling")

Retried(r, t) ==
    Alike(r, t) /\ SameLife(r, t) /\ t.call_sid = r.call_sid /\ JobGoes(r, t, "active")

Resolved(r, t) == Kept(r, t) /\ SameLife(r, t) /\ JobGoes(r, t, "terminal")

\* Each row operator makes the change it is named for, and no other.
LEMMA RowChanges ==
    ASSUME NEW r \in Row
    PROVE  /\ IF r.call_sid THEN Waiting(r, QuarantineClaim(r))
              ELSE Quarantined(r, QuarantineClaim(r)) /\ QuarantineClaim(r).attempts = r.attempts
           /\ IF r.provider_terminal THEN Waiting(r, MarkReconciliation(r))
              ELSE Quarantined(r, MarkReconciliation(r)) /\ MarkReconciliation(r).attempts = r.attempts
           /\ Requeued(r, RelinquishedRow(r))
           /\ Bound(r, BindRow(r))
           /\ Rejected(r, RejectRow(r))
           /\ IF r.call_sid THEN BindIfUnknown(r) = r ELSE Bound(r, BindIfUnknown(r))
           /\ Quarantined(r, AbandonRow(r)) /\ AbandonRow(r).attempts = r.attempts
           /\ Resolved(r, ResolvedRow(r))
           /\ IF r.provider_terminal THEN Resting(r, ReconciledRow(r))
              ELSE Quarantined(r, ReconciledRow(r)) \/ Retried(r, ReconciledRow(r))
  <1>1. ASSUME NEW j \in Row, NEW q \in QueueState
        PROVE  /\ SetJob(j, q) \in Row
               /\ Kept(j, SetJob(j, q)) /\ SameLife(j, SetJob(j, q)) /\ JobGoes(j, SetJob(j, q), q)
               /\ SetJob(j, q).reconciliation = j.reconciliation
    BY <1>1, SetJobType, ZenonT(40) DEF SetJob, Row, Kept, Alike, SameLife, JobGoes
  <1>2. ReleaseAction(r) \in Row /\ Resting(r, ReleaseAction(r))
    BY ReleaseActionType DEF ReleaseAction, Row, Resting, Kept, Alike, SameLife
  <1>3. {"needs_reconciliation", "active", "queued", "terminal"} \subseteq QueueState
    BY Words
  <1>4. /\ IF r.call_sid THEN Waiting(r, QuarantineClaim(r))
           ELSE Quarantined(r, QuarantineClaim(r)) /\ QuarantineClaim(r).attempts = r.attempts
        /\ IF r.provider_terminal THEN Waiting(r, MarkReconciliation(r))
           ELSE Quarantined(r, MarkReconciliation(r)) /\ MarkReconciliation(r).attempts = r.attempts
    <2> DEFINE j == SetJob(r, "needs_reconciliation")
    <2>1. /\ j \in Row /\ Kept(r, j) /\ SameLife(r, j) /\ JobGoes(r, j, "needs_reconciliation")
          /\ j.reconciliation = r.reconciliation
      BY <1>1, <1>3
    <2> HIDE DEF j
    <2> DEFINE marked == [j EXCEPT !.lifecycle_state = "NEEDS_RECONCILIATION",
                                   !.reconciliation = TRUE, !.next = "due"]
    <2>2. Quarantined(r, marked) /\ marked.attempts = r.attempts
      BY <2>1 DEF Row, Kept, Alike, JobGoes, Quarantined
    <2>3. Waiting(r, j)
      BY <2>1 DEF Waiting
    <2> QED BY <2>2, <2>3 DEF QuarantineClaim, MarkReconciliation, j
  <1>5. /\ Bound(r, BindRow(r))
        /\ IF r.call_sid THEN BindIfUnknown(r) = r ELSE Bound(r, BindIfUnknown(r))
    <2> DEFINE j == SetJob(r, "active")
    <2>1. j \in Row /\ Kept(r, j) /\ SameLife(r, j) /\ JobGoes(r, j, "active")
      BY <1>1, <1>3
    <2> QED BY <2>1 DEF BindRow, BindIfUnknown, Bound, Kept, Alike, SameLife, JobGoes, Row
  <1>6. Requeued(r, RelinquishedRow(r)) /\ Rejected(r, RejectRow(r))
    <2> DEFINE j == SetJob(r, "queued")
               k == SetJob(r, "terminal")
               life == IF r.call_sid THEN j.lifecycle_state ELSE "QUEUED"
    <2>1. /\ j \in Row /\ Kept(r, j) /\ SameLife(r, j) /\ JobGoes(r, j, "queued")
          /\ k \in Row /\ Kept(r, k) /\ SameLife(r, k) /\ JobGoes(r, k, "terminal")
      BY <1>1, <1>3
    <2>2. /\ RelinquishedRow(r) = [j EXCEPT !.lifecycle_state = life]
          /\ RejectRow(r) = [k EXCEPT !.lifecycle_state = "FAILED",
                !.outcome = "provider_rejected", !.provider_terminal = TRUE, !.finalized = TRUE]
      BY DEF RelinquishedRow, RejectRow
    <2>3. life = IF r.call_sid THEN r.lifecycle_state ELSE "QUEUED"
      BY <2>1 DEF SameLife
    <2> HIDE DEF j, k, life
    <2>4. Requeued(r, RelinquishedRow(r))
      BY <2>1, <2>2, <2>3 DEF Requeued, Kept, Alike, JobGoes, Row
    <2>5. Rejected(r, RejectRow(r))
      BY <2>1, <2>2 DEF Rejected, Kept, Alike, JobGoes, Row
    <2> QED BY <2>4, <2>5
  <1>7. ASSUME NEW q \in QueueState
        PROVE  LET j == SetJob(ReleaseAction(r), q) IN
               j \in Row /\ Kept(r, j) /\ SameLife(r, j) /\ JobGoes(r, j, q)
    <2> DEFINE k == ReleaseAction(r)
               j == SetJob(k, q)
    <2>1. k \in Row /\ Resting(r, k)
      BY <1>2
    <2> HIDE DEF k
    <2>2. j \in Row /\ Kept(k, j) /\ SameLife(k, j) /\ JobGoes(k, j, q)
      BY <1>1, <2>1
    <2> HIDE DEF j
    <2>3. Kept(r, j) /\ SameLife(r, j) /\ JobGoes(r, j, q)
      BY <2>1, <2>2 DEF Resting, Kept, Alike, SameLife, JobGoes
    <2> QED BY <2>2, <2>3 DEF j, k
  <1>8. /\ Quarantined(r, AbandonRow(r)) /\ AbandonRow(r).attempts = r.attempts
        /\ Quarantined(r, StallRow(r))
    <2> DEFINE j == SetJob(ReleaseAction(r), "needs_reconciliation")
    <2>1. j \in Row /\ Kept(r, j) /\ JobGoes(r, j, "needs_reconciliation")
      BY <1>3, <1>7
    <2>2. /\ AbandonRow(r) = [j EXCEPT !.lifecycle_state = "NEEDS_RECONCILIATION",
                                       !.reconciliation = TRUE, !.next = "none"]
          /\ StallRow(r) = [j EXCEPT !.lifecycle_state = "NEEDS_RECONCILIATION",
                      !.reconciliation = TRUE, !.next = "none", !.attempts = MaxReconcile]
      BY DEF AbandonRow, StallRow
    <2> HIDE DEF j
    <2>3. Quarantined(r, AbandonRow(r)) /\ AbandonRow(r).attempts = r.attempts
      BY <2>1, <2>2 DEF Quarantined, Kept, Alike, JobGoes, Row
    <2>4. Quarantined(r, StallRow(r))
      BY <2>1, <2>2 DEF Quarantined, Kept, Alike, JobGoes, Row
    <2> QED BY <2>3, <2>4
  <1>9. Resolved(r, ResolvedRow(r))
    <2> DEFINE j == SetJob(ReleaseAction(r), "terminal")
    <2>1. j \in Row /\ Kept(r, j) /\ SameLife(r, j) /\ JobGoes(r, j, "terminal")
      BY <1>3, <1>7
    <2>2. ResolvedRow(r) = [j EXCEPT !.reconciliation = FALSE, !.next = "none"]
      BY DEF ResolvedRow
    <2> HIDE DEF j
    <2> QED BY <2>1, <2>2 DEF Resolved, Kept, Alike, SameLife, JobGoes, Row
  <1>10. Retried(r, RetryRow(r))
    <2> DEFINE j == ReleaseAction(r)
    <2>1. j \in Row /\ Resting(r, j)
      BY <1>2
    <2>2. RetryRow(r) = [j EXCEPT !.reconciliation = TRUE, !.next = "later",
              !.attempts = j.attempts + 1,
              !.queue_state = IF j.queue_state = "none" THEN "none" ELSE "active"]
      BY DEF RetryRow
    <2> HIDE DEF j
    <2> QED BY <2>1, <2>2 DEF Retried, Resting, Kept, Alike, SameLife, JobGoes, Row
  <1>11. Resting(r, [ReleaseAction(r) EXCEPT !.reconciliation = FALSE])
    BY <1>2 DEF Resting, Kept, Alike, SameLife, Row
  <1> QED BY <1>4, <1>5, <1>6, <1>8, <1>9, <1>10, <1>11 DEF ReconciledRow

LEMMA RowChangesWith ==
    ASSUME NEW r \in Row
    PROVE  /\ \A w \in Worker : Claimed(r, ClaimRow(r, w)) /\ Canceling(r, ActionRow(r, w))
           /\ \A reason \in MediaEndReasons : Persisted(r, PersistRow(r, reason))
           /\ \A s \in PROVIDER_TERMINAL : Finished(r, TerminalRow(r, s), s)
           /\ Connected(r, [r EXCEPT !.media_connected = TRUE, !.lifecycle_state = "CONNECTED"])
  <1>1. ASSUME NEW w \in Worker
        PROVE  Claimed(r, ClaimRow(r, w)) /\ Canceling(r, ActionRow(r, w))
    BY DEF Claimed, Canceling, ClaimRow, ActionRow, Kept, Alike, SameLife, JobGoes, Row
  <1>2. ASSUME NEW reason \in MediaEndReasons
        PROVE  Persisted(r, PersistRow(r, reason))
    BY DEF Persisted, PersistRow, MediaLifecycle, MediaEndReasons, SameLife, Row
  <1>3. ASSUME NEW s \in PROVIDER_TERMINAL
        PROVE  Finished(r, TerminalRow(r, s), s)
    <2> DEFINE j == SetJob(r, "terminal")
               t == TerminalRow(r, s)
    <2>1. j \in Row /\ Kept(r, j) /\ SameLife(r, j) /\ JobGoes(r, j, "terminal")
      BY SetJobType, Words, ZenonT(40) DEF SetJob, Row, Kept, Alike, SameLife, JobGoes
    <2>2. TerminalLifecycle(r, s) \in Lifecycles(s)
      BY DEF TerminalLifecycle, Lifecycles, LifecycleOf
    <2>3. /\ t.media_connected = j.media_connected
          /\ t.media_end_reason = j.media_end_reason
          /\ t.attempts = j.attempts
          /\ t.queue_state = j.queue_state
          /\ t.provider_terminal
          /\ t.lifecycle_state = IF r.provider_terminal THEN j.lifecycle_state
                                 ELSE TerminalLifecycle(r, s)
          /\ t.outcome = IF r.provider_terminal THEN j.outcome ELSE TerminalOutcome(r, s)
      BY <2>1 DEF TerminalRow, Row
    <2> HIDE DEF j, t
    <2> QED BY <2>1, <2>2, <2>3 DEF Finished, Kept, Alike, SameLife, JobGoes, t
  <1>4. Connected(r, [r EXCEPT !.media_connected = TRUE, !.lifecycle_state = "CONNECTED"])
    BY DEF Connected, Row
  <1> QED BY <1>1, <1>2, <1>3, <1>4

=============================================================================
