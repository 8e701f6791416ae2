--------------------------- MODULE ExtractionProofs ---------------------------
(***************************************************************************)
(* Proofs about ExtractionQueue, for every number of calls, coordinators   *)
(* and attempts, and every assignment of phones to calls.                  *)
(***************************************************************************)
EXTENDS ExtractionQueue, CallStoreProofs

----------------------------------------------------------------------------
(* The invariant                                                           *)

\* A job not over has an attempt left, and only a running one a lease.  The
\* two records agree.  Only answers can ask not to be called again.  A row that is
\* gone has no place in the queue.  A call is linked to a lead that exists and
\* knows the outcome.
Settled(c) ==
    LET job == jobs[c]
        record == extracted[c]
        row == calls[c] IN
    /\ job.state \in JobState \ Done => job.attempts < MaxAttempts
    /\ job.lease # "none" => job.state = "running"
    /\ record.status = IF job.state = "none" THEN "not_required" ELSE job.state
    /\ job.state # "none" <=> Present(row) /\ RawPersisted(row)
    /\ record.dnd => job.state = "succeeded" /\ PhoneOf[c] \in suppressed
    /\ RawPersisted(row) => row.media_connected
    /\ ~Present(row) => row.queue_state = "none"
    /\ linked[c] =>
        /\ leads[PhoneOf[c]].exists
        /\ record.dnd => leads[PhoneOf[c]].do_not_call
        /\ job.state = "failed" => leads[PhoneOf[c]].review_required

AllSettled == \A c \in Call : Settled(c)

ExtractionInv == TypeOK /\ AllSettled

\* What the runs check follows from it.
LEMMA InvariantImplies ==
    ASSUME ExtractionInv
    PROVE  RecordsAgree /\ DndIsSuppressed /\ LeadsAreFlagged
  BY DEF ExtractionInv, AllSettled, Settled, RecordsAgree, DndIsSuppressed, LeadsAreFlagged

LEMMA PhoneType == \A c \in Call : PhoneOf[c] \in Phone
  BY DEF Phone

LEMMA Blanks ==
    /\ NoJob \in Job /\ NotRequired \in Extracted /\ NoLead \in Lead
    /\ PendingJob \in Job /\ PendingJob.state = "pending"
    /\ PendingJob.attempts = 0 /\ PendingJob.lease = "none"
  <1>1. NoJob \in Job /\ NoJob.attempts = 0 /\ NoJob.lease = "none"
    BY AttemptsAssumption, Words DEF NoJob, Job, JobState
  <1>2. NotRequired \in Extracted /\ NoLead \in Lead
    BY DEF NotRequired, NoLead, Extracted, Lead
  <1>3. "pending" \in JobState
    BY DEF JobState
  <1> HIDE DEF NoJob
  <1> QED BY <1>1, <1>2, <1>3 DEF PendingJob, Job

LEMMA InitSettles == Init => ExtractionInv
  <1> SUFFICES ASSUME Init PROVE ExtractionInv
    OBVIOUS
  <1>1. TypeOK
    BY Blanks, AbsentRowType DEF Init, TypeOK
  <1>2. ASSUME NEW c \in Call PROVE Settled(c)
    BY AttemptsAssumption DEF Init, Settled, NoJob, NotRequired, NoLead, AbsentRow, Present,
       NoRow, RawPersisted, Done
  <1> QED BY <1>1, <1>2 DEF ExtractionInv, AllSettled

----------------------------------------------------------------------------
(* Calls a step leaves settled                                             *)

\* The transcript is where it was.
SameTranscript(r, t) ==
    /\ Present(t) /\ RawPersisted(t) <=> Present(r) /\ RawPersisted(r)
    /\ RawPersisted(t) => t.media_connected
    /\ ~Present(t) => t.queue_state = "none"

\* A lead learns, and forgets nothing.
LeadKept(p) ==
    /\ leads[p].exists => leads'[p].exists
    /\ leads[p].do_not_call => leads'[p].do_not_call
    /\ leads[p].review_required => leads'[p].review_required

\* A call whose extraction the step is not about.
Steady(c) ==
    /\ jobs'[c] = jobs[c] /\ extracted'[c] = extracted[c]
    /\ SameTranscript(calls[c], calls'[c])
    /\ PhoneOf[c] \in suppressed => PhoneOf[c] \in suppressed'
    /\ linked'[c] => linked[c] /\ LeadKept(PhoneOf[c])

LEMMA SteadyStaysSettled ==
    ASSUME NEW c \in Call, Settled(c), Steady(c)
    PROVE  Settled(c)'
  BY DEF Settled, Steady, SameTranscript, LeadKept

\* A call without a transcript and without a job.
Blank(c) ==
    /\ jobs'[c] = NoJob /\ extracted'[c] = NotRequired
    /\ ~(Present(calls'[c]) /\ RawPersisted(calls'[c]))
    /\ RawPersisted(calls'[c]) => calls'[c].media_connected
    /\ ~Present(calls'[c]) => calls'[c].queue_state = "none"
    /\ linked'[c] => leads'[PhoneOf[c]].exists

LEMMA BlankIsSettled ==
    ASSUME NEW c \in Call, Blank(c)
    PROVE  Settled(c)'
  BY AttemptsAssumption DEF Settled, Blank, NoJob, NotRequired, Done

\* Steps of the queue and of the call itself tell the extraction nothing.
LEMMA QuietStep ==
    ASSUME ExtractionInv, calls' \in Table,
           UNCHANGED <<jobs, extracted, suppressed, leads, linked, worker>>,
           media' \in [Call -> {"none", "open", "closed"}],
           \A c \in Call : SameTranscript(calls[c], calls'[c])
    PROVE  ExtractionInv'
  <1>1. TypeOK'
    BY DEF ExtractionInv, TypeOK, Table
  <1>2. ASSUME NEW c \in Call PROVE Settled(c)'
    <2>1. Steady(c)
      BY DEF Steady, LeadKept
    <2> QED BY <2>1, SteadyStaysSettled DEF ExtractionInv, AllSettled
  <1> QED BY <1>1, <1>2 DEF ExtractionInv, AllSettled

----------------------------------------------------------------------------
(* The transactions of CallStore                                           *)

LEMMA SameRow ==
    ASSUME AllSettled, NEW c \in Call
    PROVE  SameTranscript(calls[c], calls[c])
  BY DEF AllSettled, Settled, SameTranscript

\* What the kinds of change do to the transcript of a call in the queue.
LEMMA ChangesKeepTranscript ==
    ASSUME NEW r \in Row, NEW t \in Row, Present(r), RawPersisted(r) => r.media_connected
    PROVE  /\ Waiting(r, t) => SameTranscript(r, t)
           /\ Quarantined(r, t) => SameTranscript(r, t)
           /\ Claimed(r, t) => SameTranscript(r, t)
           /\ Bound(r, t) => SameTranscript(r, t) /\ Present(t)
           /\ Connected(r, t) => SameTranscript(r, t)
           /\ \A s \in PROVIDER_TERMINAL : Finished(r, t, s) => SameTranscript(r, t)
  BY DEF Waiting, Quarantined, Claimed, Bound, Connected, Finished, Kept, Alike, SameLife,
     Lifecycles, LifecycleOf, PROVIDER_TERMINAL, SameTranscript, Present, NoRow, RawPersisted

LEMMA TranscriptsAgree ==
    ASSUME NEW r \in Row, NEW t \in Row, NEW u \in Row,
           SameTranscript(r, t), SameTranscript(t, u)
    PROVE  SameTranscript(r, u)
  BY DEF SameTranscript

\* claim_job, with the quarantine of expired claims it begins with.
LEMMA DialIsQuiet ==
    ASSUME ExtractionInv, NEW w \in Worker, NEW e \in Call, ClaimJob(w, e), NEW c \in Call
    PROVE  SameTranscript(calls[c], calls'[c])
  <1> DEFINE table == ExpireClaims(calls)
  <1>1. calls \in Table /\ calls[c] \in Row /\ Settled(c)
    BY DEF ExtractionInv, TypeOK, Table, AllSettled
  <1>2. table[c] \in Row /\ table \in Table
    BY <1>1, WholeTableTypes DEF Table
  <1>3. SameTranscript(calls[c], table[c])
    <2>1. CASE ClaimExpired(calls[c])
      <3>1. Present(calls[c])
        BY <1>1, <2>1 DEF ClaimExpired, Settled
      <3>2. table[c] = QuarantineClaim(calls[c])
        BY <2>1 DEF ExpireClaims
      <3> QED BY <1>1, <1>2, <3>1, <3>2, RowChanges, ChangesKeepTranscript DEF Settled
    <2>2. CASE ~ClaimExpired(calls[c])
      BY <2>2, SameRow DEF ExpireClaims, ExtractionInv
    <2> QED BY <2>1, <2>2
  <1>4. CASE c # e
    BY <1>2, <1>3, <1>4 DEF ClaimJob, Table
  <1>5. CASE c = e
    <2>1. calls' = [table EXCEPT ![e] = ClaimRow(table[e], w)] /\ table[e].queue_state = "queued"
      BY DEF ClaimJob, Queued
    <2>2. calls'[c] = ClaimRow(table[c], w) /\ Claimed(table[c], ClaimRow(table[c], w))
      BY <1>2, <1>5, <2>1, RowChangesWith DEF Table
    <2>3. ClaimRow(table[c], w) \in Row
      BY <1>2, DialRowTypes
    <2>4. Present(table[c]) /\ (RawPersisted(table[c]) => table[c].media_connected)
      BY <1>3, <1>5, <2>1 DEF SameTranscript
    <2>5. SameTranscript(table[c], calls'[c])
      BY <1>2, <2>2, <2>3, <2>4, ChangesKeepTranscript
    <2> QED BY <1>1, <1>2, <1>3, <2>2, <2>3, <2>5, TranscriptsAgree
  <1> QED BY <1>4, <1>5

\* A transaction that writes the row of a call that is there.
LEMMA OneCallIsQuiet ==
    ASSUME ExtractionInv, NEW e \in Call, NEW row \in Row, SameTranscript(calls[e], row),
           calls' = [calls EXCEPT ![e] = row], NEW c \in Call
    PROVE  SameTranscript(calls[c], calls'[c])
  BY SameRow DEF ExtractionInv, TypeOK

LEMMA ConnectIsQuiet ==
    ASSUME ExtractionInv, NEW e \in Call, BindCallSid(e), NEW c \in Call
    PROVE  SameTranscript(calls[c], calls'[c])
  <1>1. calls[e] \in Row /\ Settled(e)
    BY DEF ExtractionInv, TypeOK, AllSettled
  <1>2. /\ calls' = [calls EXCEPT ![e] = BindRow(calls[e])]
        /\ Present(calls[e]) /\ BindRow(calls[e]) \in Row
    BY <1>1, DialRowTypes DEF BindCallSid, Bindable
  <1>3. SameTranscript(calls[e], BindRow(calls[e]))
    BY <1>1, <1>2, RowChanges, ChangesKeepTranscript DEF Settled
  <1> QED BY <1>2, <1>3, OneCallIsQuiet

LEMMA StartIsQuiet ==
    ASSUME ExtractionInv, NEW e \in Call, ClaimMedia(e), NEW c \in Call
    PROVE  SameTranscript(calls[c], calls'[c])
  <1> DEFINE row == [calls[e] EXCEPT !.media_connected = TRUE, !.lifecycle_state = "CONNECTED"]
  <1>1. calls \in Table /\ calls[e] \in Row /\ Settled(e)
    BY DEF ExtractionInv, TypeOK, Table, AllSettled
  <1>2. "CONNECTED" \in LifecycleState
    BY Words
  <1>3. row \in Row
    BY <1>1, <1>2, Zenon DEF Row
  <1>4. calls' = [calls EXCEPT ![e] = row] /\ Present(calls[e])
    BY <1>1 DEF ClaimMedia, Table
  <1>5. Connected(calls[e], row)
    BY <1>1, RowChangesWith
  <1> HIDE DEF row
  <1>6. SameTranscript(calls[e], row)
    BY <1>1, <1>3, <1>4, <1>5, ChangesKeepTranscript DEF Settled
  <1> QED BY <1>3, <1>4, <1>6, OneCallIsQuiet

LEMMA EndIsQuiet ==
    ASSUME ExtractionInv, NEW e \in Call, NEW s \in PROVIDER_TERMINAL, WebhookStatus(e, s),
           NEW c \in Call
    PROVE  SameTranscript(calls[c], calls'[c])
  <1> DEFINE bound == BindIfUnknown(calls[e])
             row == TerminalRow(bound, s)
  <1>1. calls[e] \in Row /\ Settled(e)
    BY DEF ExtractionInv, TypeOK, AllSettled
  <1>2. bound \in Row
    BY <1>1, DialRowTypes
  <1>3. row \in Row
    BY <1>2, StatusRowTypes
  <1>4. calls' = [calls EXCEPT ![e] = row] /\ Present(calls[e])
    BY DEF WebhookStatus
  <1>5. SameTranscript(calls[e], bound) /\ Present(bound)
    <2>1. CASE calls[e].call_sid
      <3>1. bound = calls[e]
        BY <1>1, <2>1, RowChanges
      <3> QED BY <1>4, <3>1, SameRow DEF ExtractionInv
    <2>2. CASE ~calls[e].call_sid
      BY <1>1, <1>2, <1>4, <2>2, RowChanges, ChangesKeepTranscript DEF Settled
    <2> QED BY <2>1, <2>2
  <1>6. Finished(bound, row, s)
    BY <1>2, RowChangesWith
  <1> HIDE DEF bound, row
  <1>7. SameTranscript(bound, row)
    BY <1>2, <1>3, <1>5, <1>6, ChangesKeepTranscript DEF SameTranscript
  <1>8. SameTranscript(calls[e], row)
    BY <1>1, <1>2, <1>3, <1>5, <1>7, TranscriptsAgree
  <1> QED BY <1>3, <1>4, <1>8, OneCallIsQuiet

----------------------------------------------------------------------------
(* A step that is about one call                                           *)

\* A step that leaves one call settled and the others steady keeps the invariant.
LEMMA OneCallStep ==
    ASSUME ExtractionInv, TypeOK', NEW e \in Call, Settled(e)',
           \A c \in Call \ {e} : Steady(c)
    PROVE  ExtractionInv'
  <1>1. ASSUME NEW c \in Call \ {e} PROVE Settled(c)'
    BY <1>1, SteadyStaysSettled DEF ExtractionInv, AllSettled
  <1> QED BY <1>1 DEF ExtractionInv, AllSettled

\* The call has no row yet, so it has no job.
LEMMA EnqueueSettles ==
    ASSUME ExtractionInv, NEW e \in Call, CallLead(e) \/ StartOutboundCall(e)
    PROVE  ExtractionInv'
  <1> PICK forLead \in BOOLEAN :
          Enqueue(e, forLead) /\ (forLead => leads[PhoneOf[e]].exists)
    BY DEF CallLead, StartOutboundCall
  <1>1. calls \in Table /\ calls[e] \in Row /\ Settled(e)
    BY DEF ExtractionInv, TypeOK, Table, AllSettled
  <1>2. /\ calls' = [calls EXCEPT ![e] = QueuedRow] /\ calls' \in Table
        /\ calls[e].lifecycle_state = "ABSENT"
    BY <1>1, RouteTableTypes DEF Enqueue, EnqueueCall
  <1>3. TypeOK'
    BY <1>2 DEF ExtractionInv, TypeOK, Enqueue, Table
  <1>4. jobs[e].state = "none" /\ extracted[e].status = "not_required" /\ ~extracted[e].dnd
    BY <1>1, <1>2 DEF Settled, Present, NoRow
  <1>5. Settled(e)'
    <2>1. calls'[e] = QueuedRow /\ jobs'[e] = jobs[e] /\ extracted'[e] = extracted[e]
      BY <1>1, <1>2 DEF Enqueue, Table
    <2>2. linked'[e] => leads'[PhoneOf[e]].exists
      BY DEF Enqueue, ExtractionInv, TypeOK
    <2>3. ~RawPersisted(QueuedRow) /\ Present(QueuedRow)
      BY DEF QueuedRow, AbsentRow, RawPersisted, Present, NoRow
    <2>4. jobs[e].attempts < MaxAttempts /\ jobs[e].lease = "none"
      BY <1>1, <1>4 DEF Settled, ExtractionInv, TypeOK, Job, JobState, Done
    <2> QED BY <1>4, <2>1, <2>2, <2>3, <2>4 DEF Settled
  <1>6. ASSUME NEW c \in Call \ {e} PROVE Steady(c)
    BY <1>2, SameRow DEF Enqueue, Steady, LeadKept, ExtractionInv, TypeOK
  <1> QED BY <1>3, <1>5, <1>6, OneCallStep

\* The transcript and its job, together; nothing of it when nothing is persisted.
LEMMA PersistSettles ==
    ASSUME ExtractionInv, NEW e \in Call, NEW reason \in MediaEndReasons, Persist(e, reason),
           media' \in [Call -> {"none", "open", "closed"}],
           UNCHANGED <<suppressed, leads, linked, worker>>
    PROVE  ExtractionInv'
  <1> DEFINE created == [AbsentRow EXCEPT !.lifecycle_state = "CREATED"]
             base == IF Present(calls[e]) THEN calls[e] ELSE created
             row == PersistRow(base, reason)
             job == IF jobs[e].state = "none" THEN PendingJob ELSE jobs[e]
             status == IF extracted[e].status = "not_required" THEN "pending"
                       ELSE extracted[e].status
             record == [extracted[e] EXCEPT !.status = status]
  <1>1. calls \in Table /\ calls[e] \in Row /\ Settled(e)
    BY DEF ExtractionInv, TypeOK, Table, AllSettled
  <1>2. base \in Row /\ Present(base)
    BY <1>1, AbsentRowType, Words DEF Row, Present, NoRow
  <1>3. Persisted(base, row) /\ row \in Row
    BY <1>2, RowChangesWith, MediaRowTypes
  <1>4. calls' = [calls EXCEPT ![e] = row] /\ calls' \in Table
    BY <1>1, <1>3 DEF Persist, PersistRaw, Table
  <1>5. jobs' = [jobs EXCEPT ![e] = job] /\ extracted' = [extracted EXCEPT ![e] = record]
    BY DEF Persist, ExtractionInv, TypeOK
  <1>6. Present(row) /\ RawPersisted(row) /\ row.media_connected
    BY <1>2, <1>3 DEF Persisted, SameLife, Present, NoRow, RawPersisted
  <1>7. /\ PendingJob \in Job /\ PendingJob.state = "pending"
        /\ PendingJob.attempts = 0 /\ PendingJob.lease = "none"
    BY Blanks
  <1>8. jobs[e] \in Job /\ extracted[e] \in Extracted
    BY DEF ExtractionInv, TypeOK
  <1>9. job \in Job /\ record \in Extracted
        /\ record.status = status /\ record.dnd = extracted[e].dnd
    BY <1>7, <1>8 DEF Extracted, JobState
  <1>10. status = job.state /\ job.state # "none"
    BY <1>1, <1>7, <1>8 DEF Settled, Job, JobState, Done
  <1> HIDE DEF created, base, row, job, status, record
  <1>11. TypeOK'
    BY <1>4, <1>5, <1>9 DEF ExtractionInv, TypeOK, Table
  <1>12. calls'[e] = row /\ jobs'[e] = job /\ extracted'[e] = record
    BY <1>1, <1>4, <1>5 DEF ExtractionInv, TypeOK, Table
  <1>13. /\ job.state \in JobState \ Done => job.attempts < MaxAttempts
         /\ job.lease # "none" => job.state = "running"
         /\ record.dnd => job.state = "succeeded" /\ PhoneOf[e] \in suppressed
         /\ job.state = "failed" => jobs[e].state = "failed"
    BY <1>1, <1>7, <1>9, AttemptsAssumption DEF Settled, job
  <1>14. Settled(e)'
    BY <1>1, <1>6, <1>9, <1>10, <1>12, <1>13 DEF Settled
  <1>15. ASSUME NEW c \in Call \ {e} PROVE Steady(c)
    BY <1>4, <1>5, SameRow DEF Steady, LeadKept, ExtractionInv, TypeOK
  <1> QED BY <1>11, <1>14, <1>15, OneCallStep

LEMMA StreamEndSettles ==
    ASSUME ExtractionInv, NEW e \in Call, NEW reason \in EndReason, StreamEnd(e, reason)
    PROVE  ExtractionInv'
  <1>1. media' \in [Call -> {"none", "open", "closed"}] /\ reason \in MediaEndReasons
    BY StoreAssumption DEF StreamEnd, ExtractionInv, TypeOK
  <1>2. CASE Persist(e, reason)
    BY <1>1, <1>2, PersistSettles DEF StreamEnd
  <1>3. CASE UNCHANGED <<calls, jobs, extracted>>
    <2>1. ASSUME NEW c \in Call PROVE SameTranscript(calls[c], calls'[c])
      BY <1>3, SameRow DEF ExtractionInv
    <2>2. calls' \in Table
      BY <1>3 DEF ExtractionInv, TypeOK, Table
    <2> QED BY <1>1, <1>3, <2>1, <2>2, QuietStep DEF StreamEnd
  <1> QED BY <1>2, <1>3 DEF StreamEnd

----------------------------------------------------------------------------
(* Claims, answers and failures                                            *)

\* A step that writes the two records of one call, and may tell its lead.
LEMMA RecordStep ==
    ASSUME ExtractionInv, NEW e \in Call, NEW job \in Job, NEW record \in Extracted,
           UNCHANGED <<calls, media, linked>>,
           jobs' = [jobs EXCEPT ![e] = job], extracted' = [extracted EXCEPT ![e] = record],
           suppressed' \subseteq Phone, suppressed \subseteq suppressed',
           leads' \in [Phone -> Lead], \A p \in Phone : LeadKept(p),
           worker' \in [Worker -> Call \cup {NoCall}],
           jobs[e].state # "none", job.state # "none", record.status = job.state,
           job.state \notin Done => job.attempts < MaxAttempts,
           job.lease # "none" => job.state = "running",
           record.dnd => job.state = "succeeded" /\ PhoneOf[e] \in suppressed',
           linked[e] => /\ record.dnd => leads'[PhoneOf[e]].do_not_call
                        /\ job.state = "failed" => leads'[PhoneOf[e]].review_required
    PROVE  ExtractionInv'
  <1>1. TypeOK'
    BY DEF ExtractionInv, TypeOK
  <1>2. jobs'[e] = job /\ extracted'[e] = record
    BY DEF ExtractionInv, TypeOK
  <1>3. Settled(e)'
    BY <1>2, PhoneType DEF ExtractionInv, AllSettled, Settled, LeadKept
  <1>4. ASSUME NEW c \in Call \ {e} PROVE Steady(c)
    BY SameRow, PhoneType DEF Steady, ExtractionInv, TypeOK
  <1> QED BY <1>1, <1>3, <1>4, OneCallStep

LEMMA ClaimSettles ==
    ASSUME ExtractionInv, NEW w \in Worker, NEW e \in Call, ClaimExtraction(w, e)
    PROVE  ExtractionInv'
  <1> DEFINE job == [jobs[e] EXCEPT !.state = "running", !.owner = w, !.lease = "live"]
             record == [extracted[e] EXCEPT !.status = "running"]
  <1>1. jobs[e] \in Job /\ extracted[e] \in Extracted /\ Settled(e)
    BY DEF ExtractionInv, TypeOK, AllSettled
  <1>2. jobs[e].state \in {"pending", "retry_pending", "running"}
    BY DEF ClaimExtraction, Claimable
  <1>3. /\ job \in Job /\ job.state = "running" /\ job.attempts = jobs[e].attempts
        /\ record \in Extracted /\ record.status = "running" /\ record.dnd = extracted[e].dnd
    BY <1>1, Words DEF Job, Extracted, JobState
  <1>4. jobs[e].attempts < MaxAttempts /\ ~extracted[e].dnd
    BY <1>1, <1>2 DEF Settled, JobState, Done
  <1>5. /\ jobs' = [jobs EXCEPT ![e] = job] /\ extracted' = [extracted EXCEPT ![e] = record]
        /\ worker' \in [Worker -> Call \cup {NoCall}]
    BY DEF ClaimExtraction, ExtractionInv, TypeOK
  <1>6. UNCHANGED <<calls, media, suppressed, leads, linked>>
    BY DEF ClaimExtraction
  <1> HIDE DEF job, record
  <1>7. /\ suppressed' \subseteq Phone /\ leads' \in [Phone -> Lead]
        /\ \A p \in Phone : LeadKept(p)
    BY <1>6 DEF ExtractionInv, TypeOK, LeadKept
  <1> QED BY <1>2, <1>3, <1>4, <1>5, <1>6, <1>7, RecordStep DEF Done

\* The job of a holder's call, as it is when the request is over.
LEMMA OverJob ==
    ASSUME ExtractionInv, NEW w \in Worker, Holds(w, worker[w]), worker[w] # NoCall,
           NEW state \in JobState
    PROVE  LET e == worker[w]
               job == JobOver(jobs[e], state) IN
           /\ e \in Call /\ jobs[e].state = "running"
           /\ job \in Job /\ job.state = state /\ job.lease = "none"
           /\ job.attempts = jobs[e].attempts + 1 /\ jobs[e].attempts < MaxAttempts
           /\ ~extracted[e].dnd
  <1> DEFINE e == worker[w]
             attempts == jobs[e].attempts + 1
  <1>1. e \in Call
    BY DEF ExtractionInv, TypeOK
  <1>2. jobs[e] \in Job /\ Settled(e)
    BY <1>1 DEF ExtractionInv, TypeOK, AllSettled
  <1>3. jobs[e].state = "running" /\ jobs[e].attempts < MaxAttempts /\ ~extracted[e].dnd
    BY <1>2 DEF Holds, Settled, JobState, Done
  <1>4. attempts \in 0..MaxAttempts
    BY <1>2, <1>3, AttemptsAssumption DEF Job
  <1>5. JobOver(jobs[e], state) = [jobs[e] EXCEPT !.state = state, !.owner = NoWorker,
            !.lease = "none", !.attempts = attempts]
    BY DEF JobOver
  <1> HIDE DEF attempts
  <1>6. JobOver(jobs[e], state) \in Job
    BY <1>2, <1>4, <1>5, Words DEF Job
  <1>7. /\ JobOver(jobs[e], state).state = state /\ JobOver(jobs[e], state).lease = "none"
        /\ JobOver(jobs[e], state).attempts = attempts
    BY <1>2, <1>5 DEF Job
  <1> QED BY <1>1, <1>3, <1>6, <1>7 DEF attempts

LEMMA CompleteSettles ==
    ASSUME ExtractionInv, NEW w \in Worker, NEW dnd \in BOOLEAN, CompleteExtraction(w, dnd)
    PROVE  ExtractionInv'
  <1> DEFINE e == worker[w]
             job == JobOver(jobs[e], "succeeded")
             record == [status |-> "succeeded", dnd |-> dnd]
  <1>1. worker' \in [Worker -> Call \cup {NoCall}] /\ e # NoCall
    BY DEF CompleteExtraction, ExtractionInv, TypeOK
  <1>2. CASE Holds(w, e)
    <2>1. Succeed(e, dnd) /\ UNCHANGED <<calls, media, linked>>
      BY <1>2 DEF CompleteExtraction
    <2>2. "succeeded" \in JobState /\ record \in Extracted
      BY DEF JobState, Done, Extracted
    <2>3. /\ e \in Call /\ jobs[e].state = "running"
          /\ job \in Job /\ job.state = "succeeded" /\ job.lease = "none"
      BY <1>1, <1>2, <2>2, OverJob
    <2>4. PhoneOf[e] \in Phone
      BY <2>3, PhoneType
    <2>5. /\ suppressed' \subseteq Phone /\ suppressed \subseteq suppressed'
          /\ dnd => PhoneOf[e] \in suppressed'
      BY <2>1, <2>4 DEF Succeed, ExtractionInv, TypeOK
    <2>6. /\ leads' \in [Phone -> Lead] /\ \A p \in Phone : LeadKept(p)
          /\ linked[e] /\ dnd => leads'[PhoneOf[e]].do_not_call
      BY <2>1, <2>4, ZenonT(40) DEF Succeed, ExtractionInv, TypeOK, Lead, LeadKept
    <2>7. jobs' = [jobs EXCEPT ![e] = job] /\ extracted' = [extracted EXCEPT ![e] = record]
      BY <2>1 DEF Succeed
    <2>8. record.status = "succeeded" /\ record.dnd = dnd
      OBVIOUS
    <2> HIDE DEF e, job, record
    <2> QED BY <1>1, <2>1, <2>2, <2>3, <2>5, <2>6, <2>7, <2>8, RecordStep DEF Done
  <1>3. CASE ~Holds(w, e)
    <2>1. UNCHANGED <<calls, jobs, extracted, media, suppressed, leads, linked>>
      BY <1>3 DEF CompleteExtraction
    <2>2. TypeOK'
      BY <1>1, <2>1 DEF ExtractionInv, TypeOK
    <2>3. ASSUME NEW c \in Call PROVE Steady(c)
      BY <2>1, SameRow DEF Steady, LeadKept, ExtractionInv
    <2> QED BY <2>2, <2>3, SteadyStaysSettled DEF ExtractionInv, AllSettled
  <1> QED BY <1>2, <1>3

LEMMA FailureSettles ==
    ASSUME ExtractionInv, NEW w \in Worker, FailExtraction(w)
    PROVE  ExtractionInv'
  <1> DEFINE e == worker[w]
  <1>1. worker' \in [Worker -> Call \cup {NoCall}] /\ e # NoCall
        /\ UNCHANGED <<calls, media, suppressed, linked>>
    BY DEF FailExtraction, ExtractionInv, TypeOK
  <1>2. suppressed' \subseteq Phone
    BY <1>1 DEF ExtractionInv, TypeOK
  <1>3. CASE Holds(w, e) /\ Permanent(jobs[e])
    <2> DEFINE job == JobOver(jobs[e], "failed")
               record == [extracted[e] EXCEPT !.status = "failed"]
    <2>1. GiveUp(e) /\ "failed" \in JobState \ {"none"}
      BY <1>3 DEF FailExtraction, JobState, Done
    <2>2. /\ e \in Call /\ jobs[e].state = "running" /\ ~extracted[e].dnd
          /\ job \in Job /\ job.state = "failed" /\ job.lease = "none"
      BY <1>1, <1>3, <2>1, OverJob
    <2>3. /\ record \in Extracted /\ record.status = "failed" /\ record.dnd = extracted[e].dnd
      BY <2>1, <2>2 DEF ExtractionInv, TypeOK, Extracted
    <2>4. calls[e].media_connected
      BY <2>2 DEF ExtractionInv, AllSettled, Settled
    <2>5. PhoneOf[e] \in Phone
      BY <2>2, PhoneType
    <2>6. /\ leads' \in [Phone -> Lead] /\ \A p \in Phone : LeadKept(p)
          /\ linked[e] => leads'[PhoneOf[e]].review_required
      BY <2>1, <2>4, <2>5, ZenonT(40) DEF GiveUp, ExtractionInv, TypeOK, Lead, LeadKept
    <2>7. jobs' = [jobs EXCEPT ![e] = job] /\ extracted' = [extracted EXCEPT ![e] = record]
      BY <2>1, <2>2 DEF GiveUp, ExtractionInv, TypeOK
    <2> HIDE DEF e, job, record
    <2> QED BY <1>1, <1>2, <2>2, <2>3, <2>6, <2>7, RecordStep DEF Done
  <1>4. CASE Holds(w, e) /\ ~Permanent(jobs[e])
    <2> DEFINE over == JobOver(jobs[e], "retry_pending")
               job == [over EXCEPT !.due = FALSE]
               record == [extracted[e] EXCEPT !.status = "retry_pending"]
    <2>1. Retry(e) /\ "retry_pending" \in JobState \ {"none"}
      BY <1>4 DEF FailExtraction, JobState, Done
    <2>2. /\ e \in Call /\ jobs[e].state = "running" /\ ~extracted[e].dnd
          /\ over \in Job /\ over.state = "retry_pending" /\ over.lease = "none"
          /\ over.attempts = jobs[e].attempts + 1 /\ jobs[e].attempts < MaxAttempts
      BY <1>1, <1>4, <2>1, OverJob
    <2>3. /\ record \in Extracted /\ record.status = "retry_pending"
          /\ record.dnd = extracted[e].dnd
      BY <2>1, <2>2 DEF ExtractionInv, TypeOK, Extracted
    <2>4. jobs[e].attempts \in Nat /\ ~(jobs[e].attempts + 1 >= MaxAttempts)
      BY <1>4, <2>2 DEF Permanent, ExtractionInv, TypeOK, Job
    <2>5. jobs' = [jobs EXCEPT ![e] = job] /\ extracted' = [extracted EXCEPT ![e] = record]
          /\ UNCHANGED leads
      BY <2>1, <2>2 DEF Retry, ExtractionInv, TypeOK
    <2> HIDE DEF e, over
    <2>6. /\ job \in Job /\ job.state = "retry_pending" /\ job.lease = "none"
          /\ job.attempts < MaxAttempts
      <3>1. job \in Job /\ job.state = over.state /\ job.lease = over.lease
            /\ job.attempts = over.attempts
        BY <2>2 DEF Job
      <3> HIDE DEF job
      <3> QED BY <2>2, <2>4, <3>1, AttemptsAssumption
    <2> HIDE DEF job, record
    <2>7. leads' \in [Phone -> Lead] /\ \A p \in Phone : LeadKept(p)
      BY <2>5 DEF ExtractionInv, TypeOK, LeadKept
    <2> QED BY <1>1, <1>2, <2>2, <2>3, <2>5, <2>6, <2>7, RecordStep DEF Done
  <1>5. CASE ~Holds(w, e)
    <2>1. UNCHANGED <<calls, jobs, extracted, media, suppressed, leads, linked>>
      BY <1>1, <1>5 DEF FailExtraction
    <2>2. TypeOK'
      BY <1>1, <2>1 DEF ExtractionInv, TypeOK
    <2>3. ASSUME NEW c \in Call PROVE Steady(c)
      BY <2>1, SameRow DEF Steady, LeadKept, ExtractionInv
    <2> QED BY <2>2, <2>3, SteadyStaysSettled DEF ExtractionInv, AllSettled
  <1> QED BY <1>3, <1>4, <1>5

----------------------------------------------------------------------------
(* Deletions, imports and the clock                                        *)

LEMMA DeletedIsBlank ==
    ~Present(DeletedRow) /\ ~RawPersisted(DeletedRow) /\ DeletedRow.queue_state = "none"
  BY DEF DeletedRow, AbsentRow, Present, NoRow, RawPersisted

LEMMA DeleteSettles ==
    ASSUME ExtractionInv, NEW e \in Call, Delete(e)
    PROVE  ExtractionInv'
  <1>1. calls \in Table /\ calls' = [calls EXCEPT ![e] = DeletedRow] /\ calls' \in Table
    BY OutsideTableTypes DEF Delete, DeleteCall, ExtractionInv, TypeOK, Table
  <1>2. TypeOK'
    BY <1>1, Blanks DEF Delete, ExtractionInv, TypeOK, Table
  <1>3. Blank(e)
    BY <1>1, DeletedIsBlank DEF Blank, Delete, ExtractionInv, TypeOK, AllSettled, Settled
  <1>4. ASSUME NEW c \in Call \ {e} PROVE Steady(c)
    BY <1>1, SameRow DEF Delete, Steady, LeadKept, ExtractionInv, TypeOK
  <1> QED BY <1>2, <1>3, <1>4, BlankIsSettled, OneCallStep

\* Steps that write leads only.
LEMMA LeadStep ==
    ASSUME ExtractionInv, UNCHANGED <<calls, jobs, extracted, media, suppressed, worker>>,
           leads' \in [Phone -> Lead], linked' \in [Call -> BOOLEAN],
           \A c \in Call : linked'[c] => linked[c] /\ LeadKept(PhoneOf[c])
    PROVE  ExtractionInv'
  <1>1. TypeOK'
    BY DEF ExtractionInv, TypeOK
  <1>2. ASSUME NEW c \in Call PROVE Settled(c)'
    <2>1. Steady(c)
      BY SameRow DEF Steady, ExtractionInv
    <2> QED BY <2>1, SteadyStaysSettled DEF ExtractionInv, AllSettled
  <1> QED BY <1>1, <1>2 DEF ExtractionInv, AllSettled

\* The lead that is imported was not there, so no call is linked to it.
LEMMA ImportSettles ==
    ASSUME ExtractionInv, NEW p \in Phone, Import(p)
    PROVE  ExtractionInv'
  <1>1. [NoLead EXCEPT !.exists = TRUE] \in Lead
    BY Blanks DEF Lead
  <1>2. leads' \in [Phone -> Lead] /\ linked' \in [Call -> BOOLEAN]
    BY <1>1 DEF Import, ExtractionInv, TypeOK
  <1>3. ASSUME NEW c \in Call, linked'[c] PROVE linked[c] /\ LeadKept(PhoneOf[c])
    <2>1. linked[c] /\ PhoneOf[c] # p
      BY <1>3 DEF Import, ExtractionInv, AllSettled, Settled
    <2> QED BY <2>1, PhoneType DEF Import, LeadKept, ExtractionInv, TypeOK
  <1> QED BY <1>2, <1>3, LeadStep DEF Import

LEMMA DeleteLeadSettles ==
    ASSUME ExtractionInv, NEW p \in Phone, DeleteLead(p)
    PROVE  ExtractionInv'
  <1>1. leads' \in [Phone -> Lead] /\ linked' \in [Call -> BOOLEAN]
    BY Blanks DEF DeleteLead, ExtractionInv, TypeOK
  <1>2. ASSUME NEW c \in Call, linked'[c] PROVE linked[c] /\ LeadKept(PhoneOf[c])
    BY <1>2, PhoneType DEF DeleteLead, LeadKept, ExtractionInv, TypeOK
  <1> QED BY <1>1, <1>2, LeadStep DEF DeleteLead

\* Every row goes, with its job; a call without a row had none.
LEMMA WipeIsBlank ==
    ASSUME ExtractionInv, WipeCalls, NEW c \in Call,
           linked'[c] => leads'[PhoneOf[c]].exists
    PROVE  Blank(c)
  <1>1. calls'[c] = IF Present(calls[c]) THEN DeletedRow ELSE calls[c]
    BY DEF WipeCalls, ClearCalls
  <1>2. Settled(c)
    BY DEF ExtractionInv, AllSettled
  <1> QED BY <1>1, <1>2, DeletedIsBlank DEF WipeCalls, Blank, Settled

LEMMA WipeTypes ==
    ASSUME ExtractionInv
    PROVE  /\ WipeCalls => /\ calls' \in [Call -> Row] /\ jobs' \in [Call -> Job]
                           /\ extracted' \in [Call -> Extracted]
           /\ WipeLeads => leads' \in [Phone -> Lead] /\ linked' \in [Call -> BOOLEAN]
  <1>1. calls \in Table
    BY DEF ExtractionInv, TypeOK, Table
  <1> QED BY <1>1, Blanks, WholeTableTypes DEF WipeCalls, WipeLeads, Table

LEMMA ClearSettles ==
    ASSUME ExtractionInv, Clear
    PROVE  ExtractionInv'
  <1>1. UNCHANGED <<media, worker>>
    BY DEF Clear
  <1>2. CASE WipeCalls /\ UNCHANGED <<suppressed, leads, linked>>
    <2>1. TypeOK'
      BY <1>1, <1>2, WipeTypes DEF ExtractionInv, TypeOK
    <2>2. ASSUME NEW c \in Call PROVE Settled(c)'
      BY <1>2, WipeIsBlank, BlankIsSettled DEF ExtractionInv, AllSettled, Settled
    <2> QED BY <2>1, <2>2 DEF ExtractionInv, AllSettled
  <1>3. CASE WipeLeads /\ UNCHANGED <<calls, jobs, extracted, suppressed>>
    <2>1. \A c \in Call : ~linked'[c]
      BY <1>3 DEF WipeLeads
    <2> QED BY <1>1, <1>3, <2>1, WipeTypes, LeadStep
  <1>4. CASE WipeCalls /\ WipeLeads /\ suppressed' = {}
    <2>1. TypeOK'
      BY <1>1, <1>4, WipeTypes DEF ExtractionInv, TypeOK
    <2>2. ASSUME NEW c \in Call PROVE Settled(c)'
      <3>1. ~linked'[c]
        BY <1>4 DEF WipeLeads
      <3> QED BY <1>4, <3>1, WipeIsBlank, BlankIsSettled
    <2> QED BY <2>1, <2>2 DEF ExtractionInv, AllSettled
  <1> QED BY <1>2, <1>3, <1>4 DEF Clear

\* The job stays what it is, but for its timers.
LEMMA ClockSettles ==
    ASSUME ExtractionInv, NEW e \in Call, LeaseRunsOut(e) \/ RetryFallsDue(e)
    PROVE  ExtractionInv'
  <1> DEFINE job == IF LeaseRunsOut(e) THEN [jobs[e] EXCEPT !.lease = "expired"]
                    ELSE [jobs[e] EXCEPT !.due = TRUE]
  <1>1. jobs[e] \in Job /\ Settled(e)
    BY DEF ExtractionInv, TypeOK, AllSettled
  <1>2. /\ job \in Job /\ job.state = jobs[e].state /\ job.attempts = jobs[e].attempts
        /\ job.lease # "none" => jobs[e].lease # "none"
    BY <1>1, Words DEF Job, LeaseRunsOut
  <1>3. jobs' = [jobs EXCEPT ![e] = job]
        /\ UNCHANGED <<calls, extracted, media, suppressed, leads, linked, worker>>
    BY DEF LeaseRunsOut, RetryFallsDue, ExtractionInv, TypeOK
  <1> HIDE DEF job
  <1>4. TypeOK'
    BY <1>2, <1>3 DEF ExtractionInv, TypeOK
  <1>5. jobs'[e] = job
    BY <1>3 DEF ExtractionInv, TypeOK
  <1>6. Settled(e)'
    BY <1>1, <1>2, <1>3, <1>5 DEF Settled
  <1>7. ASSUME NEW c \in Call \ {e} PROVE Steady(c)
    BY <1>3, SameRow DEF Steady, LeadKept, ExtractionInv, TypeOK
  <1> QED BY <1>4, <1>6, <1>7, OneCallStep

LEMMA CrashSettles ==
    ASSUME ExtractionInv, NEW w \in Worker, Crash(w)
    PROVE  ExtractionInv'
  <1>1. TypeOK'
    BY DEF Crash, ExtractionInv, TypeOK
  <1>2. ASSUME NEW c \in Call PROVE Steady(c)
    BY SameRow DEF Crash, Steady, LeadKept, ExtractionInv
  <1> QED BY <1>1, <1>2, SteadyStaysSettled DEF ExtractionInv, AllSettled

----------------------------------------------------------------------------
(* Every step                                                              *)

LEMMA QueueStepSettles ==
    ASSUME ExtractionInv, NEW c \in Call,
           \/ \E w \in Worker : Dial(w, c)
           \/ Connect(c) \/ CallEnds(c) \/ StreamStart(c)
    PROVE  ExtractionInv'
  <1>1. calls \in Table
    BY DEF ExtractionInv, TypeOK, Table
  <1>2. ASSUME NEW w \in Worker, Dial(w, c) PROVE ExtractionInv'
    <2>1. ClaimJob(w, c) /\ UNCHANGED <<jobs, extracted, media, suppressed, leads, linked, worker>>
      BY <1>2 DEF Dial
    <2>2. calls' \in Table
      BY <1>1, <2>1, OwnerTableTypes
    <2>3. media' \in [Call -> {"none", "open", "closed"}]
      BY <2>1 DEF ExtractionInv, TypeOK
    <2> QED BY <2>1, <2>2, <2>3, DialIsQuiet, QuietStep
  <1>3. CASE Connect(c)
    <2>1. BindCallSid(c) /\ UNCHANGED <<jobs, extracted, media, suppressed, leads, linked, worker>>
      BY <1>3 DEF Connect
    <2>2. calls' \in Table
      BY <1>1, <2>1, RouteTableTypes
    <2>3. media' \in [Call -> {"none", "open", "closed"}]
      BY <2>1 DEF ExtractionInv, TypeOK
    <2> QED BY <2>1, <2>2, <2>3, ConnectIsQuiet, QuietStep
  <1>4. CASE CallEnds(c)
    <2>1. PICK s \in Verdict : WebhookStatus(c, s)
      BY <1>4 DEF CallEnds
    <2>2. s \in PROVIDER_TERMINAL
      BY StoreAssumption
    <2>3. calls' \in Table
      BY <1>1, <2>1, <2>2, OutsideTableTypes
    <2>4. /\ UNCHANGED <<jobs, extracted, media, suppressed, leads, linked, worker>>
          /\ media' \in [Call -> {"none", "open", "closed"}]
      BY <1>4 DEF CallEnds, ExtractionInv, TypeOK
    <2> QED BY <2>1, <2>2, <2>3, <2>4, EndIsQuiet, QuietStep
  <1>5. CASE StreamStart(c)
    <2>1. ClaimMedia(c) /\ UNCHANGED <<jobs, extracted, suppressed, leads, linked, worker>>
      BY <1>5 DEF StreamStart
    <2>2. calls' \in Table
      BY <1>1, <2>1, OutsideTableTypes
    <2>3. media' \in [Call -> {"none", "open", "closed"}]
      BY <1>5 DEF StreamStart, ExtractionInv, TypeOK
    <2> QED BY <2>1, <2>2, <2>3, StartIsQuiet, QuietStep
  <1> QED BY <1>2, <1>3, <1>4, <1>5

LEMMA NextSettles ==
    ASSUME ExtractionInv, [Next]_vars
    PROVE  ExtractionInv'
  <1>1. ASSUME NEW w \in Worker, Extract(w) \/ Crash(w) PROVE ExtractionInv'
    <2>1. \A reply \in Replies : DoNotCall(reply) \in BOOLEAN
      BY DEF DoNotCall
    <2> QED BY <1>1, <2>1, ClaimSettles, CompleteSettles, FailureSettles, CrashSettles DEF Extract
  <1>2. ASSUME NEW c \in Call, CallStep(c) PROVE ExtractionInv'
    BY <1>2, EnqueueSettles, QueueStepSettles, StreamEndSettles DEF CallStep
  <1>3. ASSUME NEW c \in Call, Delete(c) \/ LeaseRunsOut(c) \/ RetryFallsDue(c)
        PROVE  ExtractionInv'
    BY <1>3, DeleteSettles, ClockSettles
  <1>4. ASSUME NEW p \in Phone, Import(p) \/ DeleteLead(p) PROVE ExtractionInv'
    BY <1>4, ImportSettles, DeleteLeadSettles
  <1>5. CASE UNCHANGED vars
    <2>1. TypeOK'
      BY <1>5 DEF vars, ExtractionInv, TypeOK
    <2>2. ASSUME NEW c \in Call PROVE Steady(c)
      BY <1>5, SameRow DEF vars, Steady, LeadKept, ExtractionInv
    <2> QED BY <2>1, <2>2, SteadyStaysSettled DEF ExtractionInv, AllSettled
  <1> QED BY <1>1, <1>2, <1>3, <1>4, <1>5, ClearSettles DEF Next

LEMMA ExtractionInvariant == Spec => []ExtractionInv
  <1>1. Init => ExtractionInv
    BY InitSettles
  <1>2. ExtractionInv /\ [Next]_vars => ExtractionInv'
    BY NextSettles
  <1> QED BY <1>1, <1>2, PTL DEF Spec

\* Every column of the extraction tables keeps to its type, and no job is
\* tried more often than CALL_AGENT_EXTRACTION_MAX_ATTEMPTS allows.
THEOREM ExtractionTypes == Spec => []TypeOK
  <1>1. ExtractionInv => TypeOK
    BY DEF ExtractionInv
  <1> QED BY <1>1, ExtractionInvariant, PTL

\* The calls row and the extraction job never disagree, and every transcript
\* that persist_raw wrote has its job.
THEOREM RecordsStayTogether == Spec => []RecordsAgree
  <1>1. ExtractionInv => RecordsAgree
    BY InvariantImplies
  <1> QED BY <1>1, ExtractionInvariant, PTL

\* Whoever asked not to be called stays on the suppression list while the call
\* that says so is kept: complete_extraction writes both in one transaction.
THEOREM RequestsAreHonoured == Spec => []DndIsSuppressed
  <1>1. ExtractionInv => DndIsSuppressed
    BY InvariantImplies
  <1> QED BY <1>1, ExtractionInvariant, PTL

\* A lead that is linked to a call knows its outcome, through deletion and
\* renewed import of the lead in the middle of the request.
THEOREM LeadsKnow == Spec => []LeadsAreFlagged
  <1>1. ExtractionInv => LeadsAreFlagged
    BY InvariantImplies
  <1> QED BY <1>1, ExtractionInvariant, PTL

----------------------------------------------------------------------------
(* What a step does to a job                                               *)

\* The coordinator whose lease it is reports, and awaits nothing any more.
Reported(c) == \E w \in Worker : Holds(w, c) /\ worker[w] = c /\ worker'[w] = NoCall

\* A job is created, goes with its call, is reported on, or goes on with the
\* attempts it has, and then it was not over.
JobStep(c) ==
    \/ jobs'[c] = jobs[c]
    \/ jobs[c].state = "none" /\ jobs'[c].attempts = 0
    \/ jobs'[c] = NoJob /\ ~Present(calls'[c])
    \/ jobs[c].state \notin Done /\ jobs'[c].attempts = jobs[c].attempts
    \/ Reported(c)

LEMMA ExtractJobStep ==
    ASSUME ExtractionInv, NEW w \in Worker, Extract(w), NEW c \in Call
    PROVE  JobStep(c)
  <1>1. ASSUME NEW e \in Call, ClaimExtraction(w, e) PROVE JobStep(c)
    <2>1. CASE c = e
      <3>1. jobs[c] \in Job
        BY DEF ExtractionInv, TypeOK
      <3>2. jobs'[c].attempts = jobs[c].attempts
        BY <1>1, <2>1, <3>1 DEF ClaimExtraction, ExtractionInv, TypeOK, Job
      <3>3. jobs[c].state \notin Done
        BY <1>1, <2>1 DEF ClaimExtraction, Claimable, Done
      <3> QED BY <3>2, <3>3 DEF JobStep
    <2>2. CASE c # e
      BY <1>1, <2>2 DEF ClaimExtraction, ExtractionInv, TypeOK, JobStep
    <2> QED BY <2>1, <2>2
  <1>2. ASSUME \/ \E reply \in Replies : CompleteExtraction(w, DoNotCall(reply))
               \/ FailExtraction(w)
        PROVE  JobStep(c)
    <2>1. worker[w] # NoCall /\ worker[w] \in Call /\ worker'[w] = NoCall
      BY <1>2 DEF CompleteExtraction, FailExtraction, ExtractionInv, TypeOK
    <2>2. CASE Holds(w, worker[w]) /\ c = worker[w]
      BY <2>1, <2>2 DEF JobStep, Reported
    <2>3. CASE ~(Holds(w, worker[w]) /\ c = worker[w])
      <3>1. jobs'[c] = jobs[c]
        BY <1>2, <2>1, <2>3 DEF CompleteExtraction, FailExtraction, Succeed, GiveUp, Retry,
           ExtractionInv, TypeOK
      <3> QED BY <3>1 DEF JobStep
    <2> QED BY <2>2, <2>3
  <1> QED BY <1>1, <1>2 DEF Extract

LEMMA CallJobStep ==
    ASSUME ExtractionInv, NEW e \in Call, CallStep(e), NEW c \in Call
    PROVE  JobStep(c)
  <1>1. CASE UNCHANGED jobs
    BY <1>1 DEF JobStep
  <1>2. ASSUME NEW reason \in EndReason, Persist(e, reason) PROVE JobStep(c)
    BY <1>2, Blanks DEF Persist, JobStep, ExtractionInv, TypeOK
  <1> QED
    BY <1>1, <1>2 DEF CallStep, CallLead, StartOutboundCall, Enqueue, Dial, Connect, CallEnds,
       StreamStart, StreamEnd

LEMMA OtherJobStep ==
    ASSUME ExtractionInv, NEW c \in Call,
           \/ \E e \in Call : Delete(e) \/ LeaseRunsOut(e) \/ RetryFallsDue(e)
           \/ \E w \in Worker : Crash(w)
           \/ \E p \in Phone : Import(p) \/ DeleteLead(p)
           \/ Clear
           \/ UNCHANGED vars
    PROVE  JobStep(c)
  <1>1. jobs[c] \in Job /\ Settled(c)
    BY DEF ExtractionInv, TypeOK, AllSettled
  <1>2. CASE UNCHANGED jobs
    BY <1>2 DEF JobStep
  <1>3. ASSUME NEW e \in Call, Delete(e) PROVE JobStep(c)
    BY <1>3, DeletedIsBlank DEF Delete, DeleteCall, JobStep, ExtractionInv, TypeOK
  <1>4. ASSUME NEW e \in Call, LeaseRunsOut(e) \/ RetryFallsDue(e) PROVE JobStep(c)
    <2>1. jobs[e] \in Job /\ Settled(e)
      BY DEF ExtractionInv, TypeOK, AllSettled
    <2>2. jobs[e].state \notin Done
      BY <1>4, <2>1 DEF LeaseRunsOut, RetryFallsDue, Settled, Done
    <2>3. c = e => jobs'[c].attempts = jobs[c].attempts
      BY <1>4, <2>1 DEF LeaseRunsOut, RetryFallsDue, Job, ExtractionInv, TypeOK
    <2>4. c # e => jobs'[c] = jobs[c]
      BY <1>4 DEF LeaseRunsOut, RetryFallsDue, ExtractionInv, TypeOK
    <2> QED BY <2>2, <2>3, <2>4 DEF JobStep
  <1>5. ASSUME WipeCalls PROVE JobStep(c)
    BY <1>5, DeletedIsBlank DEF WipeCalls, ClearCalls, JobStep
  <1> QED BY <1>2, <1>3, <1>4, <1>5 DEF Crash, Import, DeleteLead, Clear, vars

LEMMA JobSteps ==
    ASSUME ExtractionInv, [Next]_vars, NEW c \in Call
    PROVE  JobStep(c)
  BY ExtractJobStep, CallJobStep, OtherJobStep DEF Next

\* An attempt is counted only when the coordinator that holds the lease
\* reports: complete_extraction and fail_extraction compare the owner inside
\* the transaction that writes, so a late answer of another one is void.
THEOREM HoldersRecord == Spec => OnlyHolderRecords
  <1>1. ASSUME ExtractionInv, [Next]_vars, NEW c \in Call,
               jobs'[c].attempts > jobs[c].attempts
        PROVE  Reported(c)
    <2>1. JobStep(c) /\ jobs[c] \in Job
      BY <1>1, JobSteps DEF ExtractionInv, TypeOK
    <2>2. jobs[c].attempts \in Nat
      BY <2>1, AttemptsAssumption DEF Job
    <2>3. NoJob.attempts = 0
      BY DEF NoJob
    <2> QED BY <1>1, <2>1, <2>2, <2>3 DEF JobStep
  <1>2. ExtractionInv /\ [Next]_vars =>
            [\A c \in Call : jobs'[c].attempts > jobs[c].attempts =>
                \E w \in Worker : Holds(w, c) /\ worker[w] = c /\ worker'[w] = NoCall]_vars
    BY <1>1 DEF Reported
  <1> QED BY <1>2, ExtractionInvariant, PTL DEF Spec, OnlyHolderRecords

\* What an extraction came to is never revised: neither an answer after the
\* last attempt, nor a lease that runs out late, opens it again.
THEOREM ResultsStand == Spec => ResultIsFinal
  <1>1. ASSUME ExtractionInv, [Next]_vars, NEW c \in Call, jobs[c].state \in Done
        PROVE  jobs'[c] = jobs[c] \/ ~Present(calls'[c])
    <2>1. JobStep(c)
      BY <1>1, JobSteps
    <2>2. jobs[c].state # "none" /\ ~Reported(c)
      BY <1>1 DEF Done, Reported, Holds
    <2> QED BY <1>1, <2>1, <2>2 DEF JobStep
  <1>2. ExtractionInv /\ [Next]_vars =>
            [\A c \in Call :
                jobs[c].state \in Done => jobs'[c] = jobs[c] \/ ~Present(calls'[c])]_vars
    BY <1>1
  <1> QED BY <1>2, ExtractionInvariant, PTL DEF Spec, ResultIsFinal
=============================================================================
