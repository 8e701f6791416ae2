--------------------------- MODULE ExtractionQueue ---------------------------
(***************************************************************************)
(* What happens to a transcript after the call: the durable extraction     *)
(* jobs of app/storage/sqlite_store.py, the coordinators that take them    *)
(* (the extraction step of run_once), and what an answer does to the       *)
(* suppression list and to the leads that later calls are queued for.      *)
(*                                                                         *)
(* Calls are queued, claimed, bound, streamed and ended by the             *)
(* transactions of CallStore; how the dialing itself can go wrong is the   *)
(* subject of CallPipeline and is left out here.                           *)
(***************************************************************************)
EXTENDS CallStore

CONSTANT MaxAttempts    \* CALL_AGENT_EXTRACTION_MAX_ATTEMPTS

ASSUME AttemptsAssumption == MaxAttempts \in Nat \ {0}

VARIABLES
    jobs,          \* jobs[c]: the row of extraction_jobs
    extracted,     \* extracted[c]: the extraction columns of the calls row
    media,         \* media[c]: the media socket
    suppressed,    \* suppression_list
    leads,         \* leads[p]: the lead with phone p (phone_number is UNIQUE)
    linked,        \* linked[c]: the lead_id call c was queued with names a lead
    worker         \* worker[w]: the call whose answers coordinator w awaits

vars == <<calls, jobs, extracted, media, suppressed, leads, linked, worker>>

Phone == {PhoneOf[c] : c \in Call}
NoCall == 0
Done == {"succeeded", "failed"}
JobState == {"none", "pending", "running", "retry_pending"} \cup Done

Job == [state : JobState, owner : Owner, lease : Lease,
        due : BOOLEAN,                         \* next_attempt_at <= now
        attempts : 0..MaxAttempts]             \* attempt_count
Extracted == [status : (JobState \ {"none"}) \cup {"not_required"},
              dnd : BOOLEAN]                   \* do_not_call_requested
Lead == [exists : BOOLEAN, do_not_call : BOOLEAN, review_required : BOOLEAN]

NoJob == [state |-> "none", owner |-> NoWorker, lease |-> "none", due |-> FALSE, attempts |-> 0]
NotRequired == [status |-> "not_required", dnd |-> FALSE]
NoLead == [exists |-> FALSE, do_not_call |-> FALSE, review_required |-> FALSE]

\* Every column has a value of its kind; attempt_count stays within its bound.
TypeOK ==
    /\ calls \in [Call -> Row]
    /\ jobs \in [Call -> Job]
    /\ extracted \in [Call -> Extracted]
    /\ media \in [Call -> {"none", "open", "closed"}]
    /\ suppressed \subseteq Phone
    /\ leads \in [Phone -> Lead]
    /\ linked \in [Call -> BOOLEAN]
    /\ worker \in [Worker -> Call \cup {NoCall}]

Init ==
    /\ calls = [c \in Call |-> AbsentRow]
    /\ jobs = [c \in Call |-> NoJob]
    /\ extracted = [c \in Call |-> NotRequired]
    /\ media = [c \in Call |-> "none"]
    /\ suppressed = {}
    /\ leads = [p \in Phone |-> NoLead]
    /\ linked = [c \in Call |-> FALSE]
    /\ worker = [w \in Worker |-> NoCall]

----------------------------------------------------------------------------
(* Leads and the queue                                                     *)

Import(p) ==
    /\ ~leads[p].exists
    /\ leads' = [leads EXCEPT ![p] = [NoLead EXCEPT !.exists = TRUE]]
    /\ UNCHANGED <<calls, jobs, extracted, media, suppressed, linked, worker>>

Callable(lead) == lead.exists /\ ~lead.do_not_call /\ ~lead.review_required

\* A call is queued for a lead, or for a bare phone number.
Enqueue(c, forLead) ==
    /\ PhoneOf[c] \notin suppressed
    /\ forLead => Callable(leads[PhoneOf[c]])
    /\ EnqueueCall(c)
    /\ linked' = [linked EXCEPT ![c] = forLead]
    /\ UNCHANGED <<jobs, extracted, media, suppressed, leads, worker>>

\* The dashboard's button for a lead, and an API request for a number.
CallLead(c) == leads[PhoneOf[c]].exists /\ Enqueue(c, TRUE)
StartOutboundCall(c) == Enqueue(c, FALSE)

\* claim_job looks at the queue alone.
Dial(w, c) ==
    /\ ClaimJob(w, c)
    /\ UNCHANGED <<jobs, extracted, media, suppressed, leads, linked, worker>>

Connect(c) ==
    /\ calls[c].queue_state = "claimed"
    /\ BindCallSid(c)
    /\ UNCHANGED <<jobs, extracted, media, suppressed, leads, linked, worker>>

CallEnds(c) ==
    /\ calls[c].call_sid
    /\ ~calls[c].provider_terminal
    /\ \E s \in Verdict : WebhookStatus(c, s)
    /\ UNCHANGED <<jobs, extracted, media, suppressed, leads, linked, worker>>

StreamStart(c) ==
    /\ ClaimMedia(c)
    /\ media' = [media EXCEPT ![c] = "open"]
    /\ UNCHANGED <<jobs, extracted, suppressed, leads, linked, worker>>

----------------------------------------------------------------------------
(* persist_raw: the transcript and its extraction job, in one transaction  *)

PendingJob == [NoJob EXCEPT !.state = "pending", !.due = TRUE]

\* The row PersistRaw cannot write and cannot re-create raises.
Persist(c, reason) ==
    /\ Present(calls[c]) \/ PhoneIndexFree(c)
    /\ PersistRaw(c, reason)
    /\ jobs' = [jobs EXCEPT ![c] = IF @.state = "none" THEN PendingJob ELSE @]
    /\ extracted' = [extracted EXCEPT ![c].status = IF @ = "not_required" THEN "pending" ELSE @]

StreamEnd(c, reason) ==
    /\ media[c] = "open"
    /\ media' = [media EXCEPT ![c] = "closed"]
    /\ Persist(c, reason) \/ UNCHANGED <<calls, jobs, extracted>>
    /\ UNCHANGED <<suppressed, leads, linked, worker>>

----------------------------------------------------------------------------
(* claim_extraction, complete_extraction, fail_extraction                  *)

\* Variants that are wrong: a job whose coordinator died is never taken up; a
\* failed job is taken up again.
ClaimableOnce(c) == jobs[c].state \in {"pending", "retry_pending"} /\ jobs[c].due
ClaimableAgain(c) ==
    \/ jobs[c].state \in {"pending", "retry_pending", "failed"} /\ jobs[c].due
    \/ jobs[c].state = "running" /\ jobs[c].lease = "expired"

Claimable(c) ==
    \/ jobs[c].state \in {"pending", "retry_pending"} /\ jobs[c].due
    \/ jobs[c].state = "running" /\ jobs[c].lease = "expired"

\* Variant that is wrong: the calls row is not told.
ClaimSilently(w, c) ==
    /\ worker[w] = NoCall
    /\ Claimable(c)
    /\ jobs' = [jobs EXCEPT ![c].state = "running", ![c].owner = w, ![c].lease = "live"]
    /\ worker' = [worker EXCEPT ![w] = c]
    /\ UNCHANGED <<calls, extracted, media, suppressed, leads, linked>>

\* Which of several due jobs comes first is left open.
ClaimExtraction(w, c) ==
    /\ worker[w] = NoCall
    /\ Claimable(c)
    /\ jobs' = [jobs EXCEPT ![c].state = "running", ![c].owner = w, ![c].lease = "live"]
    /\ extracted' = [extracted EXCEPT ![c].status = "running"]
    /\ worker' = [worker EXCEPT ![w] = c]
    /\ UNCHANGED <<calls, media, suppressed, leads, linked>>

Holds(w, c) == jobs[c].state = "running" /\ jobs[c].owner = w

JobOver(job, state) ==
    [job EXCEPT !.state = state, !.owner = NoWorker, !.lease = "none", !.attempts = @ + 1]

\* Variant that is wrong: suppresses only the phones of known leads.
SuppressLeads(c, dnd) ==
    /\ jobs' = [jobs EXCEPT ![c] = JobOver(@, "succeeded")]
    /\ extracted' = [extracted EXCEPT ![c] = [status |-> "succeeded", dnd |-> dnd]]
    /\ suppressed' = IF dnd /\ linked[c] THEN suppressed \cup {PhoneOf[c]} ELSE suppressed
    /\ leads' = IF dnd /\ linked[c]
                THEN [leads EXCEPT ![PhoneOf[c]].do_not_call = TRUE] ELSE leads

Succeed(c, dnd) ==
    /\ jobs' = [jobs EXCEPT ![c] = JobOver(@, "succeeded")]
    /\ extracted' = [extracted EXCEPT ![c] = [status |-> "succeeded", dnd |-> dnd]]
    /\ suppressed' = IF dnd THEN suppressed \cup {PhoneOf[c]} ELSE suppressed
    /\ leads' = IF dnd /\ linked[c]
                THEN [leads EXCEPT ![PhoneOf[c]].do_not_call = TRUE] ELSE leads

\* Variant that is wrong: the owner of the lease is not looked at.
CompleteAnyway(w, dnd) ==
    /\ worker[w] # NoCall
    /\ IF jobs[worker[w]].state = "running" THEN Succeed(worker[w], dnd)
       ELSE UNCHANGED <<jobs, extracted, suppressed, leads>>
    /\ worker' = [worker EXCEPT ![w] = NoCall]
    /\ UNCHANGED <<calls, media, linked>>

\* What a response may say of the do-not-call request; it may also be no
\* response, and then the extraction fails.
Replies == {"yes", "no", "unknown", "missing", "other"}

DoNotCallValues == {"yes", "no", "unknown"}

normalize_answers(reply) == IF reply \in DoNotCallValues THEN reply ELSE "unknown"

DoNotCall(reply) == normalize_answers(reply) = "yes"

\* The answers came; they count only while w still has the lease's name on it.
CompleteExtraction(w, dnd) ==
    /\ worker[w] # NoCall
    /\ IF Holds(w, worker[w]) THEN Succeed(worker[w], dnd)
       ELSE UNCHANGED <<jobs, extracted, suppressed, leads>>
    /\ worker' = [worker EXCEPT ![w] = NoCall]
    /\ UNCHANGED <<calls, media, linked>>

\* Variant that is wrong: one attempt too many.
PermanentLate(job) == job.attempts + 1 > MaxAttempts

Permanent(job) == job.attempts + 1 >= MaxAttempts

Retry(c) ==
    /\ jobs' = [jobs EXCEPT ![c] = [JobOver(@, "retry_pending") EXCEPT !.due = FALSE]]
    /\ extracted' = [extracted EXCEPT ![c].status = "retry_pending"]
    /\ UNCHANGED leads

\* Variant that is wrong: nobody is asked to review.
GiveUpSilently(c) ==
    /\ jobs' = [jobs EXCEPT ![c] = JobOver(@, "failed")]
    /\ extracted' = [extracted EXCEPT ![c].status = "failed"]
    /\ UNCHANGED leads

GiveUp(c) ==
    /\ jobs' = [jobs EXCEPT ![c] = JobOver(@, "failed")]
    /\ extracted' = [extracted EXCEPT ![c].status = "failed"]
    /\ leads' = IF linked[c] /\ calls[c].media_connected
                THEN [leads EXCEPT ![PhoneOf[c]].review_required = TRUE] ELSE leads

FailExtraction(w) ==
    /\ worker[w] # NoCall
    /\ IF ~Holds(w, worker[w]) THEN UNCHANGED <<jobs, extracted, leads>>
       ELSE IF Permanent(jobs[worker[w]]) THEN GiveUp(worker[w])
       ELSE Retry(worker[w])
    /\ worker' = [worker EXCEPT ![w] = NoCall]
    /\ UNCHANGED <<calls, media, suppressed, linked>>

\* The process dies, or neither outcome can be recorded.
Crash(w) ==
    /\ worker[w] # NoCall
    /\ worker' = [worker EXCEPT ![w] = NoCall]
    /\ UNCHANGED <<calls, jobs, extracted, media, suppressed, leads, linked>>

----------------------------------------------------------------------------
(* Deletions                                                               *)

Delete(c) ==
    /\ DeleteCall(c)
    /\ jobs' = [jobs EXCEPT ![c] = NoJob]
    /\ extracted' = [extracted EXCEPT ![c] = NotRequired]
    /\ UNCHANGED <<media, suppressed, leads, linked, worker>>

DeleteLead(p) ==
    /\ leads[p].exists
    /\ leads' = [leads EXCEPT ![p] = NoLead]
    /\ linked' = [c \in Call |-> linked[c] /\ PhoneOf[c] # p]
    /\ UNCHANGED <<calls, jobs, extracted, media, suppressed, worker>>

WipeCalls ==
    /\ ClearCalls
    /\ jobs' = [c \in Call |-> NoJob]
    /\ extracted' = [c \in Call |-> NotRequired]

WipeLeads ==
    /\ leads' = [p \in Phone |-> NoLead]
    /\ linked' = [c \in Call |-> FALSE]

\* clear_data with scope "calls", "leads" and "all".
Clear ==
    /\ \/ WipeCalls /\ UNCHANGED <<suppressed, leads, linked>>
       \/ WipeLeads /\ UNCHANGED <<calls, jobs, extracted, suppressed>>
       \/ WipeCalls /\ WipeLeads /\ suppressed' = {}
    /\ UNCHANGED <<media, worker>>

----------------------------------------------------------------------------
(* The clock                                                               *)

LeaseRunsOut(c) ==
    /\ jobs[c].lease = "live"
    /\ jobs' = [jobs EXCEPT ![c].lease = "expired"]
    /\ UNCHANGED <<calls, extracted, media, suppressed, leads, linked, worker>>

RetryFallsDue(c) ==
    /\ jobs[c].state = "retry_pending"
    /\ ~jobs[c].due
    /\ jobs' = [jobs EXCEPT ![c].due = TRUE]
    /\ UNCHANGED <<calls, extracted, media, suppressed, leads, linked, worker>>

----------------------------------------------------------------------------

Extract(w) ==
    \/ \E c \in Call : ClaimExtraction(w, c)
    \/ \E reply \in Replies : CompleteExtraction(w, DoNotCall(reply))
    \/ FailExtraction(w)

CallStep(c) ==
    \/ CallLead(c) \/ StartOutboundCall(c)
    \/ \E w \in Worker : Dial(w, c)
    \/ Connect(c)
    \/ CallEnds(c)
    \/ StreamStart(c)
    \/ \E reason \in EndReason : StreamEnd(c, reason)

Next ==
    \/ \E w \in Worker : Extract(w) \/ Crash(w)
    \/ \E c \in Call : CallStep(c) \/ Delete(c) \/ LeaseRunsOut(c) \/ RetryFallsDue(c)
    \/ \E p \in Phone : Import(p) \/ DeleteLead(p)
    \/ Clear

Spec == Init /\ [][Next]_vars

\* A request that is still awaited when its lease runs out.
Overrun(c) == LeaseRunsOut(c) /\ \E w \in Worker : worker[w] = c /\ Holds(w, c)

\* Fairness.  Coordinators go on, requests to OpenAI return or time out, and
\* time passes.  Processes stop dying, and the lease, which is 30 s longer than
\* the request's own timeout, stops being outlived, at some point.
FairSpec ==
    /\ Spec
    /\ \A w \in Worker : WF_vars(Extract(w)) /\ <>[][~Crash(w)]_vars
    /\ \A c \in Call : /\ WF_vars(LeaseRunsOut(c) /\ ~Overrun(c))
                       /\ WF_vars(RetryFallsDue(c))
                       /\ <>[][~Overrun(c)]_vars

----------------------------------------------------------------------------
(* Properties                                                              *)

\* The two records of an extraction agree, through deletions in the middle of
\* a request and rows re-created by a late transcript; and every transcript of
\* a connected call has a job, so that none is forgotten.
RecordsAgree ==
    \A c \in Call :
        /\ extracted[c].status = IF jobs[c].state = "none" THEN "not_required" ELSE jobs[c].state
        /\ jobs[c].state # "none" <=> Present(calls[c]) /\ RawPersisted(calls[c])

\* A customer who asked not to be called is on the suppression list for as
\* long as the call that says so is kept, whatever became of the lead.
DndIsSuppressed == \A c \in Call : extracted[c].dnd => PhoneOf[c] \in suppressed

\* The lead of a call knows the outcome that makes it non-callable.
LeadsAreFlagged ==
    \A c \in Call :
        linked[c] /\ Present(calls[c]) =>
            /\ extracted[c].dnd => leads[PhoneOf[c]].do_not_call
            /\ jobs[c].state = "failed" => leads[PhoneOf[c]].review_required

\* A result or a failure is recorded by the coordinator whose lease it is: an
\* answer that arrives after the lease went to another one, or after the call
\* was deleted, counts for nothing.
OnlyHolderRecords ==
    [][\A c \in Call :
          jobs'[c].attempts > jobs[c].attempts =>
              \E w \in Worker : Holds(w, c) /\ worker[w] = c /\ worker'[w] = NoCall]_vars

\* A finished extraction stays finished until its call is deleted.
ResultIsFinal ==
    [][\A c \in Call :
          jobs[c].state \in Done => jobs'[c] = jobs[c] \/ ~Present(calls'[c])]_vars

\* Every extraction ends, in answers, in a lead to review, or with its call.
ExtractionEnds ==
    \A c \in Call : jobs[c].state # "none" ~> jobs[c].state \in Done \cup {"none"}
=============================================================================
