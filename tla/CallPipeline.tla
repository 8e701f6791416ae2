---------------------------- MODULE CallPipeline ----------------------------
(***************************************************************************)
(* The store of CallStore shared by everything that writes it: the         *)
(* coordinators (app/services/call_coordinator.py), which suspend at every *)
(* await; the carrier, which rings, answers, ends and reports a leg in its *)
(* own time; the media sockets; and an operator.                           *)
(*                                                                         *)
(* Webhooks are never consumed: once a fact about a leg is true the        *)
(* carrier may report it at any later time, again, late, or not at all.    *)
(***************************************************************************)
EXTENDS CallStore

CONSTANT Commands    \* the operator endpoints a run exercises

ASSUME CommandAssumption == Commands \subseteq {"resolve", "delete", "clear"}

VARIABLES
    worker,     \* worker[w]: where coordinator w is suspended
    leg,        \* leg[c]: the carrier's side of call c
    media,      \* media[c]: the media socket of call c
    operator    \* the resolve request being served

vars == <<calls, worker, leg, media, operator>>

NoCall == 0
Live == {"ringing", "answered"}
Ended == PROVIDER_TERMINAL

PC == {"sweep", "action", "fetch", "request", "resolve", "settle", "retry",
       "claim", "dial", "bind", "conflict", "ambiguous", "reject", "abandon"}

LegState == Live \cup Ended \cup {"none", "refused", "lost"}
WorkerState == [pc : PC, call : Call \cup {NoCall}, seen : Live \cup Ended \cup {"none"}]
OperatorState == [pc : {"idle", "status", "finish"}, call : Call \cup {NoCall},
                  status : Verdict \cup {"none"}]

Idle == [pc |-> "sweep", call |-> NoCall, seen |-> "none"]
NoRequest == [pc |-> "idle", call |-> NoCall, status |-> "none"]

\* Every column, program counter and carrier state has a value of its kind.
TypeOK ==
    /\ calls \in [Call -> Row]
    /\ worker \in [Worker -> WorkerState]
    /\ leg \in [Call -> LegState]
    /\ media \in [Call -> {"none", "open", "closed"}]
    /\ operator \in OperatorState

Init ==
    /\ calls = [c \in Call |-> AbsentRow]
    /\ worker = [w \in Worker |-> Idle]
    /\ leg = [c \in Call |-> "none"]
    /\ media = [c \in Call |-> "none"]
    /\ operator = NoRequest

At(w, pc) == worker[w].pc = pc

Goto(w, pc) == worker' = [worker EXCEPT ![w].pc = pc]

Become(w, pc, c, seen) ==
    worker' = [worker EXCEPT ![w] = [pc |-> pc, call |-> c, seen |-> seen]]

NextIteration(w) == worker' = [worker EXCEPT ![w] = Idle]

----------------------------------------------------------------------------
(* run_once: sweep, one due action, one dial.  (Its extraction step        *)
(* touches none of this state.)                                            *)

\* A sweep that raises is logged and the iteration goes on.
Sweep(w) ==
    /\ At(w, "sweep")
    /\ QuarantineAbandonedJobs \/ UNCHANGED calls
    /\ Goto(w, "action")
    /\ UNCHANGED <<leg, media, operator>>

TakeAction(w) ==
    /\ At(w, "action")
    /\ \/ \E c \in Call : ClaimDueAction(w, c) /\ Become(w, "fetch", c, "none")
       \/ NoDueAction /\ Goto(w, "claim") /\ UNCHANGED calls
    /\ UNCHANGED <<leg, media, operator>>

TakeJob(w) ==
    /\ At(w, "claim")
    /\ \/ \E c \in Call : ClaimJob(w, c) /\ Become(w, "dial", c, "none")
       \/ ClaimNothing /\ NextIteration(w)
    /\ UNCHANGED <<leg, media, operator>>

\* stop() was called while the claim was being made; the process that
\* replaces this one starts a fresh loop.
ShutDown(w) ==
    /\ At(w, "dial")
    /\ RelinquishClaim(w, worker[w].call)
    /\ NextIteration(w)
    /\ UNCHANGED <<leg, media, operator>>

----------------------------------------------------------------------------
(* _dial                                                                   *)

\* The submission reaches the carrier.  The answer names the leg, or it is
\* lost, or it carries no SID.
Submit(w) ==
    /\ At(w, "dial")
    /\ leg' = [leg EXCEPT ![worker[w].call] = "ringing"]
    /\ Goto(w, "bind") \/ Goto(w, "ambiguous")
    /\ UNCHANGED <<calls, media, operator>>

\* A proven refusal: the carrier has no leg and will never have one.
SubmitRefused(w) ==
    /\ At(w, "dial")
    /\ leg' = [leg EXCEPT ![worker[w].call] = "refused"]
    /\ Goto(w, "reject")
    /\ UNCHANGED <<calls, media, operator>>

\* The submission is lost on the way.
SubmitLost(w) ==
    /\ At(w, "dial")
    /\ leg' = [leg EXCEPT ![worker[w].call] = "lost"]
    /\ Goto(w, "ambiguous")
    /\ UNCHANGED <<calls, media, operator>>

\* The dial's own bind_call_sid; "conflict" still has a SID to abandon.
Bind(w) ==
    /\ At(w, "bind")
    /\ \/ BindCallSid(worker[w].call) /\ NextIteration(w)
       \/ BindRefused(worker[w].call) /\ Goto(w, "conflict")
       \/ UNCHANGED calls /\ Goto(w, "conflict")
    /\ UNCHANGED <<leg, media, operator>>

RecordAmbiguous(w) ==
    /\ \/ At(w, "ambiguous") /\ NextIteration(w)
       \/ At(w, "conflict") /\ Goto(w, "abandon")
    /\ MarkDialAmbiguous(worker[w].call)
    /\ UNCHANGED <<leg, media, operator>>

RecordRejected(w) ==
    /\ At(w, "reject")
    /\ MarkDialRejected(worker[w].call)
    /\ NextIteration(w)
    /\ UNCHANGED <<leg, media, operator>>

\* The carrier hangs the leg up, or the request fails and is only logged.
Abandon(w) ==
    /\ At(w, "abandon")
    /\ \/ /\ leg[worker[w].call] \in Live
          /\ leg' = [leg EXCEPT ![worker[w].call] = "completed"]
       \/ UNCHANGED leg
    /\ NextIteration(w)
    /\ UNCHANGED <<calls, media, operator>>

----------------------------------------------------------------------------
(* _reconcile                                                              *)

\* What the lookup saw may be out of date by the time it is acted on.
FetchStatus(w) ==
    /\ At(w, "fetch")
    /\ \/ /\ leg[worker[w].call] \in Live
          /\ Become(w, "request", worker[w].call, leg[worker[w].call])
       \/ /\ leg[worker[w].call] \in Ended
          /\ Become(w, "resolve", worker[w].call, leg[worker[w].call])
       \/ Goto(w, "retry")
    /\ UNCHANGED <<calls, leg, media, operator>>

\* A leg last seen ringing is canceled, which an answered leg ignores; one
\* seen answered is completed.  The request may also be lost.
RequestTerminal(w) ==
    LET c == worker[w].call IN
    /\ At(w, "request")
    /\ \/ worker[w].seen = "ringing" /\ leg[c] = "ringing"
          /\ leg' = [leg EXCEPT ![c] = "canceled"]
       \/ worker[w].seen = "answered" /\ leg[c] \in Live
          /\ leg' = [leg EXCEPT ![c] = "completed"]
       \/ UNCHANGED leg
    /\ Goto(w, "retry")
    /\ UNCHANGED <<calls, media, operator>>

\* reconciliation_result with a terminal status is two transactions; when the
\* first one raises, the attempt is recorded as a failed one.
RecordProof(w) ==
    /\ At(w, "resolve")
    /\ \/ ProvenStatus(worker[w].call, worker[w].seen) /\ Goto(w, "settle")
       \/ UNCHANGED calls /\ Goto(w, "retry")
    /\ UNCHANGED <<leg, media, operator>>

RecordResult(w) ==
    /\ At(w, "settle") \/ At(w, "retry")
    /\ ReconciliationResult(w, worker[w].call)
    /\ Become(w, "claim", NoCall, "none")
    /\ UNCHANGED <<leg, media, operator>>

\* The process dies at any await, and a new one takes its place; or a
\* transaction raises, and run() starts over.
Crash(w) ==
    /\ ~At(w, "sweep")
    /\ NextIteration(w)
    /\ UNCHANGED <<calls, leg, media, operator>>

----------------------------------------------------------------------------
(* The carrier and its webhooks                                            *)

Answer(c) ==
    /\ leg[c] = "ringing"
    /\ leg' = [leg EXCEPT ![c] = "answered"]
    /\ UNCHANGED <<calls, worker, media, operator>>

\* An answered leg completes or fails; only a ringing one is busy, unanswered
\* or canceled.
HangUp(c, s) ==
    /\ \/ leg[c] = "ringing" /\ s # "completed"
       \/ leg[c] = "answered" /\ s \in {"completed", "failed"}
    /\ leg' = [leg EXCEPT ![c] = s]
    /\ UNCHANGED <<calls, worker, media, operator>>

\* The status webhook.  "in-progress" stands for every nonterminal word.
StatusWebhook(c, s) ==
    /\ \/ s = "in-progress" /\ leg[c] \in Live \cup Ended
       \/ s \in Ended /\ leg[c] = s
    /\ WebhookStatus(c, s)
    /\ UNCHANGED <<worker, leg, media, operator>>

\* The TwiML or flow request that answers where the media goes binds the SID.
FlowWebhook(c) ==
    /\ leg[c] \in {"answered"} \cup Ended
    /\ media[c] = "none"
    /\ BindCallSid(c) \/ BindRefused(c)
    /\ UNCHANGED <<worker, leg, media, operator>>

StreamStart(c) ==
    /\ EndReason # {}
    /\ leg[c] \in {"answered"} \cup Ended
    /\ ClaimMedia(c)
    /\ media' = [media EXCEPT ![c] = "open"]
    /\ UNCHANGED <<worker, leg, operator>>

\* bridge.stop persists the transcript; a process that dies never does.
StreamEnd(c, reason) ==
    /\ media[c] = "open"
    /\ PersistRaw(c, reason) \/ UNCHANGED calls
    /\ media' = [media EXCEPT ![c] = "closed"]
    /\ UNCHANGED <<worker, leg, operator>>

----------------------------------------------------------------------------
(* The operator                                                            *)

Enqueue(c) ==
    /\ EnqueueCall(c)
    /\ UNCHANGED <<worker, leg, media, operator>>

\* POST /api/calls/{id}/resolve: somebody looked the call up at the carrier
\* and saw no live leg.
ResolveBegin(c, s) ==
    /\ "resolve" \in Commands
    /\ operator.pc = "idle"
    /\ Present(calls[c])
    /\ ~calls[c].provider_terminal
    /\ leg[c] \notin Live
    /\ operator' = [pc |-> "status", call |-> c, status |-> s]
    /\ UNCHANGED <<calls, worker, leg, media>>

ResolveStatus ==
    /\ operator.pc = "status"
    /\ ProvenStatus(operator.call, operator.status)
    /\ operator' = [operator EXCEPT !.pc = "finish"]
    /\ UNCHANGED <<worker, leg, media>>

ResolveFinish ==
    /\ operator.pc = "finish"
    /\ FinishResolve(operator.call)
    /\ operator' = NoRequest
    /\ UNCHANGED <<worker, leg, media>>

Delete(c) ==
    /\ "delete" \in Commands
    /\ DeleteCall(c)
    /\ UNCHANGED <<worker, leg, media, operator>>

Clear ==
    /\ "clear" \in Commands
    /\ ClearCalls
    /\ UNCHANGED <<worker, leg, media, operator>>

ClockTick(c) ==
    /\ Clock(c)
    /\ UNCHANGED <<worker, leg, media, operator>>

----------------------------------------------------------------------------

Dialing(w) ==
    \/ ShutDown(w) \/ Submit(w) \/ SubmitRefused(w) \/ SubmitLost(w) \/ Bind(w)
    \/ RecordAmbiguous(w) \/ RecordRejected(w) \/ Abandon(w)

Reconciling(w) ==
    FetchStatus(w) \/ RequestTerminal(w) \/ RecordProof(w) \/ RecordResult(w)

WorkerStep(w) == Sweep(w) \/ TakeAction(w) \/ TakeJob(w) \/ Dialing(w) \/ Reconciling(w)

CarrierStep(c) ==
    \/ Answer(c)
    \/ \E s \in Verdict : HangUp(c, s)
    \/ \E s \in Ended \cup {"in-progress"} : StatusWebhook(c, s)
    \/ FlowWebhook(c)
    \/ StreamStart(c)
    \/ \E reason \in EndReason : StreamEnd(c, reason)

OperatorStep ==
    \/ \E c \in Call : Enqueue(c) \/ Delete(c)
    \/ \E c \in Call, s \in Verdict : ResolveBegin(c, s)
    \/ ResolveStatus \/ ResolveFinish \/ Clear

Next ==
    \/ \E w \in Worker : WorkerStep(w) \/ Crash(w)
    \/ \E c \in Call : CarrierStep(c) \/ ClockTick(c)
    \/ OperatorStep

Spec == Init /\ [][Next]_vars

\* Fairness.  A coordinator's loop goes on until its process dies and is
\* replaced, every carrier request returns or raises, a sweep that is tried
\* again and again succeeds at last, and time passes.  The carrier does not ask
\* for the flow of one call for ever.  Nothing else is assumed of the carrier,
\* of the media sockets or of an operator.
FairSpec ==
    /\ Spec
    /\ \A w \in Worker :
        /\ WF_vars(WorkerStep(w))
        /\ SF_vars(Sweep(w) /\ QuarantineAbandonedJobs)
    /\ \A c \in Call :
        /\ WF_vars(ClockTick(c) /\ LeaseExpires(c))
        /\ WF_vars(ClockTick(c) /\ GraceElapses(c))
        /\ WF_vars(ClockTick(c) /\ DeadlinePasses(c))
        /\ <>[][~FlowWebhook(c)]_vars

----------------------------------------------------------------------------
(* Safety                                                                  *)

DialingCall(w, c) == At(w, "dial") /\ worker[w].call = c

\* No submission for a call is made twice: a coordinator about to submit one
\* is alone with it, and nobody submitted it before - through expired leases,
\* crashes, shutdowns and lost answers.
NeverRedialed ==
    \A w \in Worker, c \in Call :
        DialingCall(w, c) =>
            /\ leg[c] = "none"
            /\ \A v \in Worker \ {w} : ~DialingCall(v, c)

\* A call with a live leg is unresolved in the queue: it blocks its phone and
\* something (a slot, or the operator's list) still points at it.
LiveLegIsTracked ==
    \A c \in Call : leg[c] \in Live => Unresolved(calls[c]) /\ calls[c].queue_state # "queued"

\* The carrier never has two live legs to one phone.
OneLegPerPhone ==
    \A c, d \in Call :
        leg[c] \in Live /\ leg[d] \in Live /\ PhoneOf[c] = PhoneOf[d] => c = d

\* finalized_at does not depend on which came last, the terminal status or
\* the transcript: it is set exactly when both are in, or the status alone
\* for a call that never had media.
FinalizedExactly ==
    \A c \in Call :
        calls[c].finalized <=>
            /\ calls[c].provider_terminal
            /\ calls[c].media_connected => RawPersisted(calls[c])

\* The unique index one_active_phone holds; so no transaction but those that
\* Commit is ever refused by it, not even after deletions and re-created rows.
PhoneIndexHolds == IndexHolds(calls)

\* A call becomes terminal only when its leg is over or was refused, or on an
\* operator's word: neither a timer nor a cancellation request ends a call.
TerminalNeedsProof ==
    [][\A c \in Call :
          ~calls[c].provider_terminal /\ calls'[c].provider_terminal =>
              \/ leg[c] \in Ended \cup {"refused"}
              \/ operator.call = c /\ operator'.pc = "finish"]_vars

\* Once a call is terminal its lifecycle and outcome stand, whatever arrives
\* late, twice or out of order; only the carrier's refusal of the submission
\* replaces what an operator asserted meanwhile.
TerminalIsSticky ==
    [][\A c \in Call :
          calls[c].provider_terminal /\ Present(calls'[c]) =>
              /\ calls'[c].provider_terminal
              /\ \/ /\ calls'[c].lifecycle_state = calls[c].lifecycle_state
                    /\ calls'[c].outcome = calls[c].outcome
                 \/ leg[c] = "refused" /\ "resolve" \in Commands]_vars

\* A slot is given back only for a terminal call, to the queue before the call
\* is submitted, or with the call put on the operator's reconciliation list in
\* the same step.
SlotReleaseIsAccounted ==
    [][\A c \in Call :
          HoldsSlot(calls[c]) /\ ~HoldsSlot(calls'[c]) /\ Present(calls'[c]) =>
              \/ calls'[c].provider_terminal
              \/ calls'[c].queue_state = "queued" /\ leg[c] = "none"
              \/ calls'[c].reconciliation /\ calls'[c].queue_state = "needs_reconciliation"]_vars

\* Only the owner of the action lease changes what reconciliation recorded: the
\* late answer of a coordinator that lost the lease counts for nothing.
OnlyOwnerReconciles ==
    [][\A c \in Call :
          calls'[c].attempts # calls[c].attempts /\ Present(calls'[c]) =>
              \E w \in Worker : calls[c].action_owner = w /\ worker'[w] # worker[w]]_vars

----------------------------------------------------------------------------
(* Liveness                                                                *)

\* A slot held by a call that is not terminal is released, whatever webhooks
\* are lost and whichever coordinators die.
SlotIsReleased ==
    \A c \in Call :
        HoldsSlot(calls[c]) /\ ~calls[c].provider_terminal ~>
            ~HoldsSlot(calls[c]) \/ calls[c].provider_terminal

----------------------------------------------------------------------------
(* The promise kept when no operator overrides or deletes anything         *)

Record ==
    [c \in Call |-> IF ~Present(calls[c]) THEN "none"
                    ELSE IF calls[c].provider_terminal THEN "closed" ELSE "open"]

ReportedVerdict ==
    [c \in Call |-> IF calls[c].provider_terminal THEN calls[c].lifecycle_state ELSE "none"]

\* "completed" is reported as what the media socket saw go wrong, if it did.
Explanations ==
    [s \in Ended \cup {"refused"} |->
        IF s = "completed" THEN {"COMPLETED", "FAILED", "HUNG_UP"}
        ELSE IF s = "refused" THEN {"FAILED"} ELSE {LifecycleOf(s)}]

Ledger == INSTANCE CallLedger
    WITH Calls <- Call, Explains <- Explanations,
         record <- Record, line <- leg, verdict <- ReportedVerdict

\* The pipeline implements CallLedger: one open call per phone, one submission
\* per call, one verdict per call, which explains how its leg ended.
KeepsLedger == Ledger!Spec

----------------------------------------------------------------------------
(* Statements of the documentation and of comments in the code that the    *)
(* code does not keep: README 5 names an instance in which each one fails. *)

\* guide.md: CALL_AGENT_MAX_CONCURRENT_CALLS is the "Database-wide
\* active-call ceiling".
CeilingHolds == Cardinality(SlotHolders(calls)) <= Capacity

\* reconciliation_result: "`needs_reconciliation` is the state this design
\* already uses for an expired dial claim: unresolved, operator-visible".  The
\* list an operator reads shows the nonterminal calls under reconciliation.
QuarantinedIsVisible ==
    \A c \in Call :
        calls[c].queue_state = "needs_reconciliation" =>
            calls[c].reconciliation /\ ~calls[c].provider_terminal

\* delete_call: "Active or unresolved calls cannot be deleted".
DeletionSparesUnresolved ==
    [][\A c \in Call : calls'[c].lifecycle_state = "DELETED" => ~Unresolved(calls[c])]_vars

\* guide.md: "After restart, queued calls, deadline actions, reconciliation,
\* and extraction retries resume from SQLite."  An action whose lease ran out
\* can be claimed again, now or when its backoff is over.
DeadlineActionResumes ==
    \A c \in Call :
        /\ calls[c].queue_state = "canceling"
        /\ calls[c].action_lease = "expired"
        /\ ~calls[c].provider_terminal
        => Actionable(calls[c]) \/ calls[c].next = "later"
=============================================================================
