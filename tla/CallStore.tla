----------------------------- MODULE CallStore -----------------------------
(***************************************************************************)
(* The durable half of one outbound call: its row in the tables calls and  *)
(* call_jobs (one to one, call_jobs.call_id is UNIQUE), and the            *)
(* transactions of app/storage/sqlite_store.py that write it.  Every       *)
(* transaction runs under BEGIN IMMEDIATE, so each is one action here.     *)
(*                                                                         *)
(* Time is kept as what the SQL compares: a timestamp column becomes the   *)
(* answer to the comparison ("live" or "expired", "later" or "due", the    *)
(* furthest deadline already behind us), and an action of its own moves it *)
(* on.  Timers of different columns are unsynchronised, which allows every *)
(* interleaving the clock allows and more.                                 *)
(***************************************************************************)
EXTENDS Integers, FiniteSets

CONSTANTS
    NCalls,         \* calls the operators may queue; call n is the n-th queued
    PhoneOf,        \* the normalized phone of each call
    Worker,         \* coordinators, one per uvicorn worker process
    NoWorker,       \* NULL in an owner column
    Capacity,       \* CALL_AGENT_MAX_CONCURRENT_CALLS
    MaxReconcile,   \* CALL_AGENT_RECONCILIATION_MAX_ATTEMPTS
    Verdict,        \* the PROVIDER_TERMINAL words a run lets the carrier use
    EndReason       \* the media_end_reason words a run lets a stream end with

Call == 1..NCalls

PROVIDER_TERMINAL == {"completed", "failed", "busy", "no-answer", "canceled"}
MediaEndReasons == {"completed", "client_disconnected", "hung_up", "ai_disconnected", "error"}

LifecycleOf(s) == CASE s = "busy" -> "BUSY" [] s = "no-answer" -> "NO_ANSWER"
                    [] s = "failed" -> "FAILED" [] s = "canceled" -> "CANCELED"
                    [] OTHER -> "COMPLETED"

LIFECYCLE_TERMINAL == {"COMPLETED", "FAILED", "CANCELED", "BUSY", "NO_ANSWER", "HUNG_UP"}
CAPACITY_STATES == {"claimed", "active", "canceling"}
UNRESOLVED_JOB_STATES == CAPACITY_STATES \cup {"queued", "needs_reconciliation"}

\* "ABSENT" before the row is inserted, "DELETED" after delete_call removed it.
NoRow == {"ABSENT", "DELETED"}

ASSUME StoreAssumption ==
    /\ NCalls \in Nat \ {0}
    /\ DOMAIN PhoneOf = Call
    /\ NoWorker \notin Worker
    /\ Capacity \in Nat \ {0}
    /\ MaxReconcile \in Nat \ {0}
    /\ Verdict \subseteq PROVIDER_TERMINAL
    /\ EndReason \subseteq MediaEndReasons

VARIABLE calls    \* calls[c]: the columns of call c that some guard reads

----------------------------------------------------------------------------
(* The row                                                                 *)

Owner == Worker \cup {NoWorker}
LifecycleState ==
    NoRow \cup LIFECYCLE_TERMINAL
    \cup {"CREATED", "QUEUED", "CONNECTING", "CONNECTED", "AI_FINISHED", "NEEDS_RECONCILIATION"}
QueueState == UNRESOLVED_JOB_STATES \cup {"none", "terminal"}
Lease == {"none", "live", "expired"}
Deadline == {"none", "running", "ring", "max", "overdue"}
Outcome == PROVIDER_TERMINAL \cup MediaEndReasons \cup {"none", "provider_rejected"}

Row ==
    [ lifecycle_state : LifecycleState,
      queue_state : QueueState,
      lease : Lease,                                \* lease_expires_at
      lease_owner : Owner,
      aged : BOOLEAN,                               \* created_at < now - grace
      call_sid : BOOLEAN,                           \* the leg's SID is known
      deadline : Deadline,                          \* ring_ and max_call_deadline
      reconciliation : BOOLEAN,                     \* reconciliation_status
      next : {"none", "later", "due"},              \* next_reconciliation_at
      attempts : 0..MaxReconcile,                   \* reconciliation_attempts
      action_owner : Owner,
      action_lease : Lease,                         \* action_lease_expires_at
      provider_terminal : BOOLEAN,                  \* provider_terminal_at
      outcome : Outcome,
      media_connected : BOOLEAN,                    \* set with media_owner
      media_end_reason : MediaEndReasons \cup {"none"},  \* with raw_persisted_at
      finalized : BOOLEAN ]                         \* finalized_at

AbsentRow ==
    [ lifecycle_state |-> "ABSENT", queue_state |-> "none", lease |-> "none",
      lease_owner |-> NoWorker, aged |-> FALSE, call_sid |-> FALSE,
      deadline |-> "none", reconciliation |-> FALSE, next |-> "none",
      attempts |-> 0, action_owner |-> NoWorker, action_lease |-> "none",
      provider_terminal |-> FALSE, outcome |-> "none",
      media_connected |-> FALSE, media_end_reason |-> "none",
      finalized |-> FALSE ]

Present(r) == r.lifecycle_state \notin NoRow
RawPersisted(r) == r.media_end_reason # "none"
HoldsSlot(r) == r.queue_state \in CAPACITY_STATES
Unresolved(r) == r.queue_state \in UNRESOLVED_JOB_STATES

SlotHolders(table) == {c \in Call : HoldsSlot(table[c])}

\* UPDATE call_jobs SET queue_state=q, lease_owner=NULL, lease_expires_at=NULL:
\* no row to update when the job is gone.
SetJob(r, q) ==
    [r EXCEPT !.queue_state = IF @ = "none" THEN "none" ELSE q,
              !.lease = "none", !.lease_owner = NoWorker]

----------------------------------------------------------------------------
(* enqueue_call                                                            *)

QueuedRow == [AbsentRow EXCEPT !.lifecycle_state = "QUEUED", !.queue_state = "queued"]

SamePhone(c) == {d \in Call : PhoneOf[d] = PhoneOf[c]}

\* The unique index one_active_phone: at most one row of a phone is in a
\* lifecycle state outside LIFECYCLE_TERMINAL.
Open(r) == Present(r) /\ r.lifecycle_state \notin LIFECYCLE_TERMINAL

IndexHolds(table) ==
    \A c, d \in Call :
        Open(table[c]) /\ Open(table[d]) /\ PhoneOf[c] = PhoneOf[d] => c = d

PhoneIndexFree(c) == \A d \in SamePhone(c) : ~Open(calls[d])

\* A transaction that would break the index raises and writes nothing.
Commit(table) == IndexHolds(table) /\ calls' = table

\* A phone with an unresolved job gets its existing call back, and an insert
\* the index refuses raises: neither writes anything.  Calls are numbered in
\* the order of created_at.
EnqueueCall(c) ==
    /\ calls[c].lifecycle_state = "ABSENT"
    /\ \A d \in Call : d < c => calls[d].lifecycle_state # "ABSENT"
    /\ \A d \in SamePhone(c) : ~Unresolved(calls[d])
    /\ PhoneIndexFree(c)
    /\ calls' = [calls EXCEPT ![c] = QueuedRow]

----------------------------------------------------------------------------
(* claim_job, relinquish_claim                                             *)

ClaimExpired(r) == r.queue_state = "claimed" /\ r.lease = "expired"

\* Variant that is wrong: an expired claim goes back to the queue.
RequeueClaim(r) == [SetJob(r, "queued") EXCEPT !.lifecycle_state = "QUEUED"]

\* An expired dial lease is ambiguous: quarantined, never redialed.
QuarantineClaim(r) ==
    LET job == SetJob(r, "needs_reconciliation") IN
    IF r.call_sid THEN job
    ELSE [job EXCEPT !.lifecycle_state = "NEEDS_RECONCILIATION",
                     !.reconciliation = TRUE, !.next = "due"]

ExpireClaims(table) ==
    [c \in Call |-> IF ClaimExpired(table[c]) THEN QuarantineClaim(table[c]) ELSE table[c]]

Queued(table) == {c \in Call : table[c].queue_state = "queued"}

ClaimRow(r, w) ==
    [r EXCEPT !.queue_state = "claimed", !.lease = "live", !.lease_owner = w,
              !.lifecycle_state = "CONNECTING"]

\* Below the ceiling, the oldest queued job is leased to coordinator w.
ClaimJob(w, c) ==
    LET table == ExpireClaims(calls) IN
    /\ Cardinality(SlotHolders(table)) < Capacity
    /\ c \in Queued(table)
    /\ \A d \in Queued(table) : c <= d
    /\ calls' = [table EXCEPT ![c] = ClaimRow(@, w)]

\* claim_job returns None; the quarantine it began with is kept.
ClaimNothing ==
    LET table == ExpireClaims(calls) IN
    /\ Cardinality(SlotHolders(table)) >= Capacity \/ Queued(table) = {}
    /\ calls' = table

RelinquishedRow(r) ==
    [SetJob(r, "queued") EXCEPT !.lifecycle_state = IF r.call_sid THEN @ ELSE "QUEUED"]

\* Orderly shutdown between the claim and the submission.
RelinquishClaim(w, c) ==
    IF calls[c].queue_state = "claimed" /\ calls[c].lease_owner = w
    THEN calls' = [calls EXCEPT ![c] = RelinquishedRow(@)]
    ELSE UNCHANGED calls

----------------------------------------------------------------------------
(* bind_call_sid, mark_dial_ambiguous, mark_dial_rejected                  *)

\* Variants that are wrong: an ambiguous dial is closed as a failed one; the
\* guard of the calls row is forgotten.
CloseAmbiguous(r) ==
    [SetJob(r, "terminal") EXCEPT !.lifecycle_state = "FAILED", !.provider_terminal = TRUE,
                                  !.finalized = ~r.media_connected]
ReopenOnConflict(r) ==
    [SetJob(r, "needs_reconciliation") EXCEPT !.lifecycle_state = "NEEDS_RECONCILIATION",
                                              !.reconciliation = TRUE, !.next = "due"]

\* _mark_reconciliation_db: the calls row is guarded, the job is not.
MarkReconciliation(r) ==
    LET job == SetJob(r, "needs_reconciliation") IN
    IF r.provider_terminal THEN job
    ELSE [job EXCEPT !.lifecycle_state = "NEEDS_RECONCILIATION",
                     !.reconciliation = TRUE, !.next = "due"]

BindRow(r) ==
    [SetJob(r, "active") EXCEPT !.call_sid = TRUE, !.deadline = "running",
                                !.reconciliation = FALSE]

RejectRow(r) ==
    [SetJob(r, "terminal") EXCEPT !.lifecycle_state = "FAILED",
        !.outcome = "provider_rejected", !.provider_terminal = TRUE, !.finalized = TRUE]

\* A call is dialed once, so the SID offered is the leg's own and the SID
\* guard cannot fail: only a terminal row refuses the binding.
Bindable(c) == Present(calls[c]) /\ ~calls[c].provider_terminal

BindCallSid(c) ==
    /\ Bindable(c)
    /\ calls' = [calls EXCEPT ![c] = BindRow(@)]

\* bind_call_sid returning False.  A row that is gone makes the event insert
\* fail on its foreign key, which undoes the transaction.
BindRefused(c) ==
    /\ ~Bindable(c)
    /\ calls' = IF Present(calls[c])
                THEN [calls EXCEPT ![c] = MarkReconciliation(@)] ELSE calls

MarkDialAmbiguous(c) ==
    /\ Present(calls[c])
    /\ Commit([calls EXCEPT ![c] = MarkReconciliation(@)])

MarkDialRejected(c) ==
    calls' = IF Present(calls[c]) THEN [calls EXCEPT ![c] = RejectRow(@)] ELSE calls

----------------------------------------------------------------------------
(* claim_media, persist_raw                                                *)

ClaimMedia(c) ==
    /\ Present(calls[c])
    /\ calls[c].call_sid
    /\ ~calls[c].media_connected
    /\ ~calls[c].provider_terminal
    /\ calls' = [calls EXCEPT ![c].media_connected = TRUE,
                              ![c].lifecycle_state = "CONNECTED"]

MediaLifecycle(reason) ==
    CASE reason = "completed" -> "AI_FINISHED"
      [] reason \in {"client_disconnected", "hung_up"} -> "HUNG_UP"
      [] OTHER -> "FAILED"

\* Variant that is wrong: leaves finalized_at to the terminal status.
PersistUnfinalized(r, reason) ==
    [r EXCEPT !.media_connected = TRUE,
              !.media_end_reason = reason,
              !.lifecycle_state = IF r.provider_terminal THEN @ ELSE MediaLifecycle(reason)]

PersistRow(r, reason) ==
    [r EXCEPT !.media_connected = TRUE,
              !.media_end_reason = reason,
              !.lifecycle_state = IF r.provider_terminal THEN @ ELSE MediaLifecycle(reason),
              !.finalized = @ \/ r.provider_terminal]

\* INSERT OR IGNORE re-creates a row deleted in the meantime, without a job,
\* unless the phone index is taken: then nothing is persisted.
PersistRaw(c, reason) ==
    IF Present(calls[c])
    THEN calls' = [calls EXCEPT ![c] = PersistRow(@, reason)]
    ELSE IF PhoneIndexFree(c)
    THEN calls' = [calls EXCEPT ![c] =
             PersistRow([AbsentRow EXCEPT !.lifecycle_state = "CREATED"], reason)]
    ELSE UNCHANGED calls

----------------------------------------------------------------------------
(* provider_status                                                         *)

\* A callback that carries the SID of a row without one binds it first.
BindIfUnknown(r) ==
    IF r.call_sid THEN r
    ELSE [SetJob(r, "active") EXCEPT !.call_sid = TRUE,
             !.deadline = IF @ = "none" THEN "running" ELSE @]

TerminalLifecycle(r, s) ==
    IF s = "completed" /\ r.media_end_reason \in {"error", "ai_disconnected"} THEN "FAILED"
    ELSE IF s = "completed" /\ r.media_end_reason \in {"client_disconnected", "hung_up"}
    THEN "HUNG_UP"
    ELSE LifecycleOf(s)

TerminalOutcome(r, s) ==
    IF s = "completed" /\ r.media_end_reason \notin {"none", "completed"}
    THEN r.media_end_reason ELSE s

\* Variant that is wrong: the last terminal status wins.
OverwriteTerminal(r, s) ==
    [SetJob(r, "terminal") EXCEPT
        !.provider_terminal = TRUE,
        !.lifecycle_state = TerminalLifecycle(r, s),
        !.outcome = TerminalOutcome(r, s),
        !.finalized = @ \/ ~r.media_connected \/ RawPersisted(r),
        !.reconciliation = FALSE]

\* The first terminal status decides lifecycle and outcome.
TerminalRow(r, s) ==
    [SetJob(r, "terminal") EXCEPT
        !.provider_terminal = TRUE,
        !.lifecycle_state = IF r.provider_terminal THEN @ ELSE TerminalLifecycle(r, s),
        !.outcome = IF r.provider_terminal THEN @ ELSE TerminalOutcome(r, s),
        !.finalized = @ \/ ~r.media_connected \/ RawPersisted(r),
        !.reconciliation = FALSE]

\* A webhook, which carries the SID.
WebhookStatus(c, s) ==
    /\ Present(calls[c])
    /\ calls' = [calls EXCEPT ![c] =
           IF s \in PROVIDER_TERMINAL THEN TerminalRow(BindIfUnknown(@), s)
                                      ELSE BindIfUnknown(@)]

\* The same transaction called without a SID, always with a terminal status:
\* by reconciliation_result and by resolve_stuck_call.
ProvenStatus(c, s) ==
    calls' = IF Present(calls[c]) THEN [calls EXCEPT ![c] = TerminalRow(@, s)] ELSE calls

----------------------------------------------------------------------------
(* claim_due_action, reconciliation_result, quarantine_abandoned_jobs      *)

ActionDue(r) ==
    \/ /\ ~r.reconciliation
       /\ \/ r.deadline = "ring" /\ ~r.media_connected
          \/ r.deadline \in {"max", "overdue"}
    \/ r.reconciliation /\ r.next = "due"

Actionable(r) ==
    /\ Present(r)
    /\ ~r.provider_terminal
    /\ r.call_sid
    /\ r.action_lease # "live"
    /\ ActionDue(r)

ActionRow(r, w) ==
    [r EXCEPT !.action_owner = w, !.action_lease = "live", !.reconciliation = TRUE,
              !.queue_state = IF @ = "none" THEN "none" ELSE "canceling"]

ClaimDueAction(w, c) ==
    /\ Actionable(calls[c])
    /\ calls' = [calls EXCEPT ![c] = ActionRow(@, w)]

NoDueAction == \A c \in Call : ~Actionable(calls[c])

ReleaseAction(r) == [r EXCEPT !.action_owner = NoWorker, !.action_lease = "none"]

\* Variant that is wrong: a call whose attempts are used up is closed.
CloseStalled(r) ==
    [SetJob(ReleaseAction(r), "terminal") EXCEPT
        !.lifecycle_state = "FAILED", !.outcome = "failed", !.provider_terminal = TRUE,
        !.finalized = ~r.media_connected \/ RawPersisted(r)]

StallRow(r) ==
    [SetJob(ReleaseAction(r), "needs_reconciliation") EXCEPT
        !.lifecycle_state = "NEEDS_RECONCILIATION", !.reconciliation = TRUE,
        !.next = "none", !.attempts = MaxReconcile]

\* This branch leaves lease_owner and lease_expires_at alone.
RetryRow(r) ==
    [ReleaseAction(r) EXCEPT !.reconciliation = TRUE, !.next = "later", !.attempts = @ + 1,
        !.queue_state = IF @ = "none" THEN "none" ELSE "active"]

\* Variant that is wrong: the attempts are not bounded.
RetryForEver(r) ==
    IF r.provider_terminal THEN [ReleaseAction(r) EXCEPT !.reconciliation = FALSE] ELSE RetryRow(r)

ReconciledRow(r) ==
    IF r.provider_terminal THEN [ReleaseAction(r) EXCEPT !.reconciliation = FALSE]
    ELSE IF r.attempts + 1 >= MaxReconcile THEN StallRow(r)
    ELSE RetryRow(r)

\* Variant that is wrong: any coordinator's result counts.
ResultOfAnyone(w, c) ==
    Commit(IF Present(calls[c]) /\ w \in Worker
           THEN [calls EXCEPT ![c] = ReconciledRow(@)] ELSE calls)

\* The last transaction of reconciliation_result: only the row's action_owner
\* has a say.
ReconciliationResult(w, c) ==
    Commit(IF Present(calls[c]) /\ calls[c].action_owner = w
           THEN [calls EXCEPT ![c] = ReconciledRow(@)] ELSE calls)

\* Variant that is wrong: only calls that were never bound are swept.
AbandonedUnbound(r) ==
    HoldsSlot(r) /\ ~r.provider_terminal /\ r.deadline = "none" /\ r.aged

Abandoned(r) ==
    /\ HoldsSlot(r)
    /\ ~r.provider_terminal
    /\ r.deadline = "overdue" \/ (r.deadline = "none" /\ r.aged)

\* Variant that is wrong: the call is not put on the reconciliation list.
AbandonSilently(r) == SetJob(ReleaseAction(r), "needs_reconciliation")

AbandonRow(r) ==
    [SetJob(ReleaseAction(r), "needs_reconciliation") EXCEPT
        !.lifecycle_state = "NEEDS_RECONCILIATION", !.reconciliation = TRUE,
        !.next = "none"]

QuarantineAbandonedJobs ==
    Commit([c \in Call |-> IF Abandoned(calls[c]) THEN AbandonRow(calls[c]) ELSE calls[c]])

----------------------------------------------------------------------------
(* resolve_stuck_call, delete_call, clear_data                             *)

ResolvedRow(r) ==
    [SetJob(ReleaseAction(r), "terminal") EXCEPT !.reconciliation = FALSE, !.next = "none"]

\* The last of the three transactions of resolve_stuck_call; the second one
\* is ProvenStatus.
FinishResolve(c) ==
    calls' = IF Present(calls[c]) THEN [calls EXCEPT ![c] = ResolvedRow(@)] ELSE calls

DeletedRow == [AbsentRow EXCEPT !.lifecycle_state = "DELETED"]

DeleteCall(c) ==
    /\ calls[c].lifecycle_state \in LIFECYCLE_TERMINAL
    /\ calls' = [calls EXCEPT ![c] = DeletedRow]

ClearCalls ==
    /\ \E c \in Call : Present(calls[c])
    /\ \A c \in Call : Present(calls[c]) => calls[c].lifecycle_state \in LIFECYCLE_TERMINAL
    /\ calls' = [c \in Call |-> IF Present(calls[c]) THEN DeletedRow ELSE calls[c]]

----------------------------------------------------------------------------
(* The clock.  A comparison no statement makes any more is left alone.     *)

Ticking(c) == Present(calls[c]) /\ ~calls[c].provider_terminal

LeaseExpires(c) ==
    /\ calls[c].lease = "live"
    /\ calls' = [calls EXCEPT ![c].lease = "expired"]

\* The sweep meets no job but these without a deadline.
GraceElapses(c) ==
    /\ calls[c].queue_state \in {"queued", "claimed"}
    /\ ~calls[c].aged
    /\ calls[c].deadline = "none"
    /\ calls' = [calls EXCEPT ![c].aged = TRUE]

NextDeadline(d) ==
    CASE d = "running" -> "ring" [] d = "ring" -> "max" [] OTHER -> "overdue"

\* ring_deadline <= max_call_deadline <= max_call_deadline + grace.
DeadlinePasses(c) ==
    /\ Ticking(c)
    /\ calls[c].deadline \notin {"none", "overdue"}
    /\ calls' = [calls EXCEPT ![c].deadline = NextDeadline(@)]

ActionLeaseExpires(c) ==
    /\ Ticking(c)
    /\ calls[c].action_lease = "live"
    /\ calls' = [calls EXCEPT ![c].action_lease = "expired"]

BackoffElapses(c) ==
    /\ Ticking(c)
    /\ calls[c].next = "later"
    /\ calls' = [calls EXCEPT ![c].next = "due"]

Clock(c) ==
    \/ LeaseExpires(c)
    \/ GraceElapses(c)
    \/ DeadlinePasses(c)
    \/ ActionLeaseExpires(c)
    \/ BackoffElapses(c)

=============================================================================
