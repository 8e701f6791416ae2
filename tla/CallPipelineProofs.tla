------------------------- MODULE CallPipelineProofs -------------------------
(***************************************************************************)
(* Proofs about CallPipeline, for every value of its constants, in three   *)
(* parts.                                                                  *)
(*                                                                         *)
(* 1. Types, the dials and the legs: what is known of a call from where    *)
(*    its coordinator is.                                                  *)
(* 2. The rows: first every step, whoever takes it, is brought down to a   *)
(*    change of single rows (StepEffects), then the index of open calls    *)
(*    and the rules of terminal rows, slots and action leases are proved   *)
(*    from the kinds of change alone.                                      *)
(* 3. What the pipeline promises when no operator resolves or deletes a    *)
(*    call: it implements CallLedger, and the carrier never has two live   *)
(*    legs to one phone.  Each of the operator's commands breaks these on  *)
(*    purpose, so they are stated for the instances that exercise none of  *)
(*    them.                                                                *)
(***************************************************************************)
EXTENDS CallPipeline, CallStoreProofs

----------------------------------------------------------------------------
(* Type correctness                                                        *)

\* A coordinator inside _dial or _reconcile has a call in hand, and so has an
\* operator's request being served.
HandsFull ==
    /\ \A w \in Worker :
        /\ worker[w].pc \notin {"sweep", "action", "claim"} => worker[w].call \in Call
        /\ At(w, "resolve") => worker[w].seen \in Ended
    /\ operator.pc # "idle" => operator.call \in Call
    /\ operator.pc = "status" => operator.status \in Verdict

TypeInv == TypeOK /\ HandsFull

\* What the moves of a coordinator do to the other program counters.
LEMMA Moves ==
    ASSUME worker \in [Worker -> WorkerState], NEW w \in Worker,
           NEW pc \in PC, NEW c \in Call \cup {NoCall}, NEW seen \in Live \cup Ended \cup {"none"}
    PROVE  /\ Goto(w, pc) =>
                /\ worker' \in [Worker -> WorkerState]
                /\ worker'[w].pc = pc
                /\ worker'[w].call = worker[w].call
                /\ worker'[w].seen = worker[w].seen
                /\ \A v \in Worker \ {w} : worker'[v] = worker[v]
           /\ Become(w, pc, c, seen) =>
                /\ worker' \in [Worker -> WorkerState]
                /\ worker'[w].pc = pc
                /\ worker'[w].call = c
                /\ worker'[w].seen = seen
                /\ \A v \in Worker \ {w} : worker'[v] = worker[v]
           /\ NextIteration(w) =>
                /\ worker' \in [Worker -> WorkerState]
                /\ worker'[w].pc = "sweep"
                /\ worker'[w].call = NoCall
                /\ worker'[w].seen = "none"
                /\ \A v \in Worker \ {w} : worker'[v] = worker[v]
  BY DEF Goto, Become, NextIteration, Idle, WorkerState, PC

LEMMA WorkerKeepsTypes ==
    ASSUME TypeInv, NEW w \in Worker, WorkerStep(w) \/ Crash(w)
    PROVE  TypeInv'
  <1> DEFINE c == worker[w].call
  <1>1. /\ calls \in Table
        /\ worker \in [Worker -> WorkerState]
        /\ leg \in [Call -> LegState]
        /\ media \in [Call -> {"none", "open", "closed"}]
        /\ operator \in OperatorState
        /\ worker[w].pc \in PC
        /\ c \in Call \cup {NoCall}
        /\ worker[w].seen \in Live \cup Ended \cup {"none"}
        /\ worker[w].pc \notin {"sweep", "action", "claim"} => c \in Call
        /\ At(w, "resolve") => worker[w].seen \in Ended
    BY DEF TypeInv, TypeOK, Table, HandsFull, WorkerState
  <1>2. SUFFICES /\ calls' \in Table
                 /\ leg' \in [Call -> LegState]
                 /\ worker' \in [Worker -> WorkerState]
                 /\ worker'[w].pc \notin {"sweep", "action", "claim"} => worker'[w].call \in Call
                 /\ worker'[w].pc = "resolve" => worker'[w].seen \in Ended
                 /\ \A v \in Worker \ {w} : worker'[v] = worker[v]
                 /\ UNCHANGED <<media, operator>>
    BY <1>1 DEF TypeInv, TypeOK, Table, HandsFull, At
  <1>3. \A s \in LegState : [leg EXCEPT ![c] = s] \in [Call -> LegState]
    BY <1>1
  <1>4. CASE Sweep(w)
    BY <1>1, <1>4, Moves, WholeTableTypes DEF Sweep, PC, NoCall
  <1>5. CASE TakeAction(w)
    <2>1. CASE \E d \in Call : ClaimDueAction(w, d) /\ Become(w, "fetch", d, "none")
      <3>1. PICK d \in Call : ClaimDueAction(w, d) /\ Become(w, "fetch", d, "none")
        BY <2>1
      <3> QED BY <1>1, <1>5, <3>1, Moves, OwnerTableTypes DEF TakeAction, PC
    <2>2. CASE Goto(w, "claim") /\ UNCHANGED calls
      BY <1>1, <1>5, <2>2, Moves DEF TakeAction, PC
    <2> QED BY <1>5, <2>1, <2>2 DEF TakeAction
  <1>6. CASE TakeJob(w)
    <2>1. CASE \E d \in Call : ClaimJob(w, d) /\ Become(w, "dial", d, "none")
      <3>1. PICK d \in Call : ClaimJob(w, d) /\ Become(w, "dial", d, "none")
        BY <2>1
      <3> QED BY <1>1, <1>6, <3>1, Moves, OwnerTableTypes DEF TakeJob, PC
    <2>2. CASE ClaimNothing /\ NextIteration(w)
      BY <1>1, <1>6, <2>2, Moves, WholeTableTypes DEF TakeJob
    <2> QED BY <1>6, <2>1, <2>2 DEF TakeJob
  <1>7. CASE ShutDown(w)
    BY <1>1, <1>7, Moves, OwnerTableTypes DEF ShutDown, At
  <1>8. CASE Submit(w)
    BY <1>1, <1>3, <1>8, Moves DEF Submit, At, PC, LegState, Live
  <1>9. CASE SubmitRefused(w)
    BY <1>1, <1>3, <1>9, Moves DEF SubmitRefused, At, PC, LegState
  <1>10. CASE SubmitLost(w)
    BY <1>1, <1>3, <1>10, Moves DEF SubmitLost, At, PC, LegState
  <1>11. CASE Bind(w)
    BY <1>1, <1>11, Moves, RouteTableTypes DEF Bind, At, PC
  <1>12. CASE RecordAmbiguous(w)
    BY <1>1, <1>12, Moves, RouteTableTypes DEF RecordAmbiguous, At, PC
  <1>13. CASE RecordRejected(w)
    BY <1>1, <1>13, Moves, RouteTableTypes DEF RecordRejected, At
  <1>14. CASE Abandon(w)
    BY <1>1, <1>3, <1>14, Moves DEF Abandon, At, LegState, Ended, PROVIDER_TERMINAL
  <1>15. CASE FetchStatus(w)
    BY <1>1, <1>15, Moves, SMTT(30) DEF FetchStatus, At, PC
  <1>16. CASE RequestTerminal(w)
    BY <1>1, <1>3, <1>16, Moves, ZenonT(40) DEF RequestTerminal, At, PC, LegState, Ended, PROVIDER_TERMINAL
  <1>17. CASE RecordProof(w)
    BY <1>1, <1>17, Moves, OutsideTableTypes DEF RecordProof, At, PC, Ended
  <1>18. CASE RecordResult(w)
    <2>1. c \in Call /\ calls' \in Table
      BY <1>1, <1>18, OwnerTableTypes DEF RecordResult, At
    <2>2. Become(w, "claim", NoCall, "none")
      BY <1>18 DEF RecordResult
    <2> QED BY <1>1, <1>18, <2>1, <2>2, Moves, ZenonT(40) DEF RecordResult, PC, NoCall
  <1>19. CASE Crash(w)
    BY <1>1, <1>19, Moves DEF Crash
  <1> QED
    BY <1>4, <1>5, <1>6, <1>7, <1>8, <1>9, <1>10, <1>11, <1>12, <1>13, <1>14, <1>15,
       <1>16, <1>17, <1>18, <1>19 DEF WorkerStep, Dialing, Reconciling

LEMMA OthersKeepTypes ==
    ASSUME TypeInv, OperatorStep \/ \E c \in Call : CarrierStep(c) \/ ClockTick(c)
    PROVE  TypeInv'
  <1>1. /\ calls \in Table
        /\ worker \in [Worker -> WorkerState]
        /\ leg \in [Call -> LegState]
        /\ media \in [Call -> {"none", "open", "closed"}]
        /\ operator \in OperatorState
        /\ operator.pc # "idle" => operator.call \in Call
        /\ operator.pc = "status" => operator.status \in Verdict
    BY DEF TypeInv, TypeOK, Table, HandsFull
  <1>2. SUFFICES /\ calls' \in Table
                 /\ leg' \in [Call -> LegState]
                 /\ media' \in [Call -> {"none", "open", "closed"}]
                 /\ operator' \in OperatorState
                 /\ operator'.pc # "idle" => operator'.call \in Call
                 /\ operator'.pc = "status" => operator'.status \in Verdict
                 /\ UNCHANGED worker
    BY <1>1 DEF TypeInv, TypeOK, Table, HandsFull, At
  <1>3. ASSUME NEW c \in Call
        PROVE  /\ \A s \in LegState : [leg EXCEPT ![c] = s] \in [Call -> LegState]
               /\ \A s \in {"open", "closed"} :
                    [media EXCEPT ![c] = s] \in [Call -> {"none", "open", "closed"}]
    BY <1>1
  <1>4. ASSUME NEW c \in Call, CarrierStep(c)
        PROVE  /\ calls' \in Table
               /\ leg' \in [Call -> LegState]
               /\ media' \in [Call -> {"none", "open", "closed"}]
               /\ UNCHANGED <<worker, operator>>
    <2>1. CASE Answer(c)
      BY <1>1, <1>3, <2>1 DEF Answer, LegState, Live
    <2>2. CASE \E s \in Verdict : HangUp(c, s)
      <3>1. PICK s \in Verdict : HangUp(c, s)
        BY <2>2
      <3>2. s \in LegState
        BY StoreAssumption DEF LegState, Ended
      <3> QED BY <1>1, <1>3, <3>1, <3>2 DEF HangUp
    <2>3. CASE \E s \in Ended \cup {"in-progress"} : StatusWebhook(c, s)
      BY <1>1, <2>3, OutsideTableTypes DEF StatusWebhook, Ended
    <2>4. CASE FlowWebhook(c)
      BY <1>1, <2>4, RouteTableTypes DEF FlowWebhook
    <2>5. CASE StreamStart(c)
      BY <1>1, <1>3, <2>5, OutsideTableTypes DEF StreamStart
    <2>6. CASE \E reason \in EndReason : StreamEnd(c, reason)
      <3>1. PICK reason \in EndReason : StreamEnd(c, reason)
        BY <2>6
      <3>2. reason \in MediaEndReasons
        BY StoreAssumption
      <3> QED BY <1>1, <1>3, <3>1, <3>2, OutsideTableTypes DEF StreamEnd
    <2> QED BY <1>4, <2>1, <2>2, <2>3, <2>4, <2>5, <2>6 DEF CarrierStep
  <1>5. ASSUME OperatorStep
        PROVE  /\ calls' \in Table
               /\ operator' \in OperatorState
               /\ operator'.pc # "idle" => operator'.call \in Call
               /\ operator'.pc = "status" => operator'.status \in Verdict
               /\ UNCHANGED <<worker, leg, media>>
    <2>1. CASE \E c \in Call : Enqueue(c)
      BY <1>1, <2>1, RouteTableTypes DEF Enqueue
    <2>2. CASE \E c \in Call : Delete(c)
      BY <1>1, <2>2, OutsideTableTypes DEF Delete
    <2>3. CASE \E c \in Call, s \in Verdict : ResolveBegin(c, s)
      BY <1>1, <2>3 DEF ResolveBegin, OperatorState
    <2>4. CASE ResolveStatus
      <3>1. operator.call \in Call /\ operator.status \in PROVIDER_TERMINAL
        BY <1>1, <2>4, StoreAssumption DEF ResolveStatus
      <3>2. calls' \in Table
        BY <1>1, <2>4, <3>1, OutsideTableTypes DEF ResolveStatus
      <3> QED BY <1>1, <2>4, <3>1, <3>2 DEF ResolveStatus, OperatorState
    <2>5. CASE ResolveFinish
      BY <1>1, <2>5, OutsideTableTypes DEF ResolveFinish, NoRequest, OperatorState
    <2>6. CASE Clear
      BY <1>1, <2>6, WholeTableTypes DEF Clear
    <2> QED BY <1>5, <2>1, <2>2, <2>3, <2>4, <2>5, <2>6 DEF OperatorStep
  <1>6. ASSUME NEW c \in Call, ClockTick(c)
        PROVE  calls' \in Table /\ UNCHANGED <<worker, leg, media, operator>>
    BY <1>1, <1>6, ClockTableType DEF ClockTick
  <1> QED BY <1>1, <1>4, <1>5, <1>6

\* Every column, program counter and carrier state keeps its type, and no
\* coordinator or request acts on a call it does not have.
THEOREM TypeCorrect == Spec => [](TypeOK /\ HandsFull)
  <1>1. Init => TypeInv
    BY AbsentRowType DEF Init, TypeInv, TypeOK, HandsFull, At, Idle, NoRequest, WorkerState,
       OperatorState, PC, LegState
  <1>2. TypeInv /\ [Next]_vars => TypeInv'
    <2>1. CASE UNCHANGED vars
      BY <2>1 DEF vars, TypeInv, TypeOK, HandsFull, At
    <2> QED BY <2>1, WorkerKeepsTypes, OthersKeepTypes DEF Next
  <1> QED BY <1>1, <1>2, PTL DEF Spec, TypeInv

----------------------------------------------------------------------------
(* A call is submitted once                                                *)

\* A call that was never enqueued, or waits in the queue, was not submitted and
\* nobody is about to submit it.
Fresh(r) == r.lifecycle_state = "ABSENT" \/ r.queue_state = "queued"

Untouched(c) == leg[c] = "none" /\ \A w \in Worker : ~DialingCall(w, c)

DialInv ==
    /\ NeverRedialed
    /\ \A c \in Call : Fresh(calls[c]) => Untouched(c)

\* Only enqueue_call and relinquish_claim make a row fresh.
LEMMA RowsAge ==
    ASSUME NEW r \in Row
    PROVE  /\ Fresh(QuarantineClaim(r)) => Fresh(r)
           /\ \A w \in Owner : ~Fresh(ClaimRow(r, w))
           /\ Fresh(MarkReconciliation(r)) => Fresh(r)
           /\ Fresh(BindRow(r)) => Fresh(r)
           /\ ~Fresh(RejectRow(r))
           /\ Fresh(BindIfUnknown(r)) => Fresh(r)
           /\ \A s \in PROVIDER_TERMINAL : Fresh(TerminalRow(r, s)) => Fresh(r)
           /\ \A reason \in MediaEndReasons : Fresh(PersistRow(r, reason)) => Fresh(r)
           /\ \A w \in Owner : Fresh(ActionRow(r, w)) => Fresh(r)
           /\ Fresh(ReconciledRow(r)) => Fresh(r)
           /\ Fresh(AbandonRow(r)) => Fresh(r)
           /\ Fresh(ResolvedRow(r)) => Fresh(r)
  <1>1. ASSUME NEW j \in Row, NEW q \in QueueState \ {"queued"}
        PROVE  /\ SetJob(j, q) \in Row
               /\ SetJob(j, q).queue_state # "queued"
               /\ SetJob(j, q).lifecycle_state = j.lifecycle_state
    BY <1>1, SetJobType, ZenonT(40) DEF SetJob, Row
  <1>2. /\ ReleaseAction(r) \in Row
        /\ ReleaseAction(r).queue_state = r.queue_state
        /\ ReleaseAction(r).lifecycle_state = r.lifecycle_state
    BY ReleaseActionType DEF ReleaseAction, Row
  <1>3. {"needs_reconciliation", "active", "terminal"} \subseteq QueueState \ {"queued"}
    BY Words
  <1>4. /\ Fresh(QuarantineClaim(r)) => Fresh(r)
        /\ Fresh(MarkReconciliation(r)) => Fresh(r)
        /\ Fresh(BindRow(r)) => Fresh(r)
        /\ ~Fresh(RejectRow(r))
        /\ Fresh(BindIfUnknown(r)) => Fresh(r)
    BY <1>1, <1>3 DEF Fresh, QuarantineClaim, MarkReconciliation, BindRow, RejectRow,
       BindIfUnknown, Row
  <1>5. \A w \in Owner : ~Fresh(ClaimRow(r, w)) /\ (Fresh(ActionRow(r, w)) => Fresh(r))
    BY DEF Fresh, ClaimRow, ActionRow, Row
  <1>6. ASSUME NEW s \in PROVIDER_TERMINAL
        PROVE  Fresh(TerminalRow(r, s)) => Fresh(r)
    BY <1>1, <1>3 DEF Fresh, TerminalRow, TerminalLifecycle, LifecycleOf, Row
  <1>7. ASSUME NEW reason \in MediaEndReasons
        PROVE  Fresh(PersistRow(r, reason)) => Fresh(r)
    BY DEF Fresh, PersistRow, MediaLifecycle, Row
  <1>8. Fresh(ReconciledRow(r)) => Fresh(r)
    BY <1>1, <1>2, <1>3 DEF Fresh, ReconciledRow, StallRow, RetryRow, Row
  <1>9. /\ Fresh(AbandonRow(r)) => Fresh(r)
        /\ Fresh(ResolvedRow(r)) => Fresh(r)
    BY <1>1, <1>2, <1>3 DEF Fresh, AbandonRow, ResolvedRow, Row
  <1> QED BY <1>4, <1>5, <1>6, <1>7, <1>8, <1>9

Aging == \A d \in Call : Fresh(calls'[d]) => Fresh(calls[d])

LEMMA TableAges ==
    ASSUME calls \in Table, calls' \in Table,
           \/ ClaimNothing \/ QuarantineAbandonedJobs \/ ClearCalls \/ UNCHANGED calls
           \/ \E c \in Call :
                \/ BindCallSid(c) \/ BindRefused(c) \/ MarkDialAmbiguous(c) \/ MarkDialRejected(c)
                \/ ClaimMedia(c) \/ FinishResolve(c) \/ DeleteCall(c) \/ Clock(c)
                \/ \E w \in Worker : ClaimDueAction(w, c) \/ ReconciliationResult(w, c)
                \/ \E reason \in MediaEndReasons : PersistRaw(c, reason)
                \/ \E s \in PROVIDER_TERMINAL \cup {"in-progress"} : WebhookStatus(c, s)
                \/ \E s \in PROVIDER_TERMINAL : ProvenStatus(c, s)
    PROVE  Aging
  <1>1. \A d \in Call : calls[d] \in Row
    BY DEF Table
  <1>2. ASSUME NEW c \in Call, NEW row, calls' = [calls EXCEPT ![c] = row],
               Fresh(row) => Fresh(calls[c])
        PROVE  Aging
    BY <1>2 DEF Aging, Table
  <1>3. CASE ClaimNothing
    BY <1>1, <1>3, RowsAge DEF ClaimNothing, ExpireClaims, Aging
  <1>4. CASE QuarantineAbandonedJobs
    BY <1>1, <1>4, RowsAge DEF QuarantineAbandonedJobs, Commit, Aging
  <1>5. ~Fresh(DeletedRow)
    BY DEF Fresh, DeletedRow, AbsentRow
  <1>6. CASE ClearCalls
    BY <1>1, <1>5, <1>6 DEF ClearCalls, Aging
  <1>7. CASE UNCHANGED calls
    BY <1>7 DEF Aging
  <1>8. ASSUME NEW c \in Call
        PROVE  /\ BindCallSid(c) => Aging
               /\ BindRefused(c) => Aging
               /\ MarkDialAmbiguous(c) => Aging
               /\ MarkDialRejected(c) => Aging
               /\ FinishResolve(c) => Aging
               /\ DeleteCall(c) => Aging
    BY <1>1, <1>2, <1>5, <1>7, RowsAge DEF BindCallSid, BindRefused, MarkDialAmbiguous,
       MarkDialRejected, FinishResolve, DeleteCall, Commit
  <1>9. ASSUME NEW c \in Call, NEW w \in Worker
        PROVE  /\ ClaimDueAction(w, c) => Aging
               /\ ReconciliationResult(w, c) => Aging
    BY <1>1, <1>2, <1>7, RowsAge, Words DEF ClaimDueAction, ReconciliationResult,
       Commit
  <1>10. ASSUME NEW c \in Call, NEW reason \in MediaEndReasons, PersistRaw(c, reason)
         PROVE  Aging
    <2>1. CASE Present(calls[c])
      BY <1>1, <1>2, <1>10, <2>1, RowsAge DEF PersistRaw
    <2>2. CASE ~Present(calls[c]) /\ PhoneIndexFree(c)
      <3> DEFINE created == [AbsentRow EXCEPT !.lifecycle_state = "CREATED"]
      <3>1. created \in Row /\ ~Fresh(created)
        BY AbsentRowType, Words, ZenonT(40) DEF Fresh, AbsentRow, Row
      <3>2. ~Fresh(PersistRow(created, reason))
        BY <3>1, RowsAge
      <3> QED BY <1>2, <1>10, <2>2, <3>2 DEF PersistRaw
    <2>3. CASE ~Present(calls[c]) /\ ~PhoneIndexFree(c)
      BY <1>7, <1>10, <2>3 DEF PersistRaw
    <2> QED BY <2>1, <2>2, <2>3
  <1>11. ASSUME NEW c \in Call, NEW s \in PROVIDER_TERMINAL \cup {"in-progress"}, WebhookStatus(c, s)
         PROVE  Aging
    BY <1>1, <1>2, <1>11, DialRowTypes, RowsAge DEF WebhookStatus
  <1>12. ASSUME NEW c \in Call, NEW s \in PROVIDER_TERMINAL, ProvenStatus(c, s)
         PROVE  Aging
    BY <1>1, <1>2, <1>7, <1>12, RowsAge DEF ProvenStatus
  <1>13. ASSUME NEW c \in Call, ClaimMedia(c) \/ Clock(c)
         PROVE  Aging
    <2>1. \A d \in Call : calls'[d].lifecycle_state = calls[d].lifecycle_state
                             \/ calls'[d].lifecycle_state = "CONNECTED"
      BY <1>1, <1>13 DEF ClaimMedia, Clock, LeaseExpires, GraceElapses, DeadlinePasses,
         ActionLeaseExpires, BackoffElapses, Table, Row
    <2>2. \A d \in Call : calls'[d].queue_state = calls[d].queue_state
      BY <1>1, <1>13 DEF ClaimMedia, Clock, LeaseExpires, GraceElapses, DeadlinePasses,
         ActionLeaseExpires, BackoffElapses, Table, Row
    <2> QED BY <2>1, <2>2 DEF Aging, Fresh
  <1> QED BY <1>3, <1>4, <1>6, <1>7, <1>8, <1>9, <1>10, <1>11, <1>12, <1>13

\* Steps that make no row fresh, dial nothing and turn no coordinator to a new
\* submission keep the invariant.
LEMMA QuietStep ==
    ASSUME DialInv, Aging,
           \A d \in Call : leg[d] = "none" => leg'[d] = "none",
           \A v \in Worker : worker'[v].pc = "dial" => worker'[v] = worker[v]
    PROVE  DialInv'
  BY DEF DialInv, NeverRedialed, Untouched, DialingCall, Aging, At

\* A coordinator about to submit leaves that state with its call untouchable.
LEMMA SubmitStep ==
    ASSUME TypeInv, DialInv, NEW w \in Worker, At(w, "dial"), UNCHANGED calls,
           NEW answer, leg' = [leg EXCEPT ![worker[w].call] = answer],
           worker'[w].pc # "dial",
           \A v \in Worker \ {w} : worker'[v] = worker[v]
    PROVE  DialInv'
  <1> DEFINE c == worker[w].call
  <1>1. c \in Call /\ DialingCall(w, c)
    BY DEF TypeInv, HandsFull, At, DialingCall
  <1>2. ~Fresh(calls[c]) /\ \A v \in Worker \ {w} : ~DialingCall(v, c)
    BY <1>1 DEF DialInv, NeverRedialed, Untouched
  <1>3. \A d \in Call \ {c} : leg'[d] = leg[d]
    BY DEF TypeInv, TypeOK
  <1>4. \A v \in Worker, d \in Call : DialingCall(v, d)' => v # w /\ DialingCall(v, d) /\ d # c
    BY <1>2 DEF DialingCall, At
  <1>5. NeverRedialed'
    BY <1>3, <1>4 DEF DialInv, NeverRedialed
  <1>6. \A d \in Call : Fresh(calls'[d]) => Untouched(d)'
    BY <1>2, <1>3, <1>4 DEF DialInv, Untouched
  <1> QED BY <1>5, <1>6 DEF DialInv

\* A claim takes a queued call, whose leg is untouched.
LEMMA ClaimStep ==
    ASSUME TypeInv, DialInv, NEW w \in Worker, NEW c \in Call,
           ClaimJob(w, c), Become(w, "dial", c, "none"), UNCHANGED leg
    PROVE  DialInv'
  <1> DEFINE table == ExpireClaims(calls)
  <1>1. /\ calls \in Table /\ table \in Table
        /\ \A d \in Call : calls[d] \in Row /\ table[d] \in Row
    BY WholeTableTypes DEF TypeInv, TypeOK, Table
  <1>2. \A d \in Call : Fresh(table[d]) => Fresh(calls[d])
    BY <1>1, RowsAge DEF ExpireClaims
  <1>3. Fresh(table[c])
    BY DEF ClaimJob, Queued, Fresh
  <1>4. Untouched(c)
    BY <1>2, <1>3 DEF DialInv
  <1>5. \A d \in Call : Fresh(calls'[d]) => d # c /\ Fresh(table[d])
    <2>1. calls' = [table EXCEPT ![c] = ClaimRow(table[c], w)]
      BY DEF ClaimJob
    <2>2. ~Fresh(ClaimRow(table[c], w))
      BY <1>1, RowsAge, Words
    <2> HIDE DEF table
    <2> QED BY <1>1, <2>1, <2>2 DEF Table
  <1>6. /\ worker' [w].pc = "dial" /\ worker'[w].call = c
        /\ \A v \in Worker \ {w} : worker'[v] = worker[v]
    BY Moves DEF TypeInv, TypeOK, PC, WorkerState
  <1>7. \A v \in Worker, d \in Call :
          DialingCall(v, d)' => (v = w /\ d = c) \/ (v # w /\ DialingCall(v, d))
    BY <1>6 DEF DialingCall, At
  <1>8. NeverRedialed'
    BY <1>4, <1>7 DEF DialInv, NeverRedialed, Untouched
  <1>9. \A d \in Call : Fresh(calls'[d]) => Untouched(d)'
    BY <1>2, <1>5, <1>7 DEF DialInv, Untouched
  <1> QED BY <1>8, <1>9 DEF DialInv

\* Giving a claim back puts a call in the queue that was not submitted and
\* that nobody else is submitting.
LEMMA ShutDownStep ==
    ASSUME TypeInv, DialInv, NEW w \in Worker, ShutDown(w)
    PROVE  DialInv'
  <1> DEFINE c == worker[w].call
  <1>1. c \in Call /\ DialingCall(w, c)
    BY DEF TypeInv, HandsFull, ShutDown, At, DialingCall
  <1>2. leg[c] = "none" /\ \A v \in Worker \ {w} : ~DialingCall(v, c)
    BY <1>1 DEF DialInv, NeverRedialed
  <1>3. /\ worker'[w].pc = "sweep"
        /\ \A v \in Worker \ {w} : worker'[v] = worker[v]
    BY Moves DEF ShutDown, TypeInv, TypeOK, PC, WorkerState
  <1>4. \A d \in Call \ {c} : calls'[d] = calls[d]
    BY DEF ShutDown, RelinquishClaim, TypeInv, TypeOK
  <1>5. \A v \in Worker, d \in Call : DialingCall(v, d)' => v # w /\ DialingCall(v, d)
    BY <1>3 DEF DialingCall, At
  <1>6. UNCHANGED leg
    BY DEF ShutDown
  <1>7. NeverRedialed'
    BY <1>5, <1>6 DEF DialInv, NeverRedialed
  <1>8. \A d \in Call : Fresh(calls'[d]) => Untouched(d)'
    BY <1>2, <1>4, <1>5, <1>6 DEF DialInv, Untouched
  <1> QED BY <1>7, <1>8 DEF DialInv

LEMMA WorkerKeepsDialInv ==
    ASSUME TypeInv, TypeInv', DialInv, NEW w \in Worker, WorkerStep(w) \/ Crash(w)
    PROVE  DialInv'
  <1> DEFINE c == worker[w].call
             Calm == /\ \A d \in Call : leg[d] = "none" => leg'[d] = "none"
                     /\ \A v \in Worker : worker'[v].pc = "dial" => worker'[v] = worker[v]
  <1>1. /\ calls \in Table /\ calls' \in Table
        /\ worker \in [Worker -> WorkerState]
        /\ leg \in [Call -> LegState]
        /\ c \in Call \cup {NoCall}
        /\ worker[w].seen \in Live \cup Ended \cup {"none"}
        /\ worker[w].pc \notin {"sweep", "action", "claim"} => c \in Call
        /\ At(w, "resolve") => worker[w].seen \in PROVIDER_TERMINAL
    BY DEF TypeInv, TypeOK, Table, HandsFull, WorkerState, Ended
  <1>2. CASE Sweep(w)
    BY <1>1, <1>2, Moves, TableAges, QuietStep DEF Sweep, PC
  <1>3. CASE TakeAction(w)
    <2>1. Aging
      BY <1>1, <1>3, TableAges DEF TakeAction
    <2>2. Calm
      <3>1. CASE \E d \in Call : Become(w, "fetch", d, "none")
        BY <1>1, <1>3, <3>1, Moves DEF TakeAction, PC
      <3>2. CASE Goto(w, "claim")
        BY <1>1, <1>3, <3>2, Moves DEF TakeAction, PC
      <3> QED BY <1>3, <3>1, <3>2 DEF TakeAction
    <2> QED BY <2>1, <2>2, QuietStep
  <1>4. CASE TakeJob(w)
    <2>1. CASE \E d \in Call : ClaimJob(w, d) /\ Become(w, "dial", d, "none")
      BY <1>4, <2>1, ClaimStep DEF TakeJob
    <2>2. CASE ClaimNothing /\ NextIteration(w)
      BY <1>1, <1>4, <2>2, Moves, TableAges, QuietStep DEF TakeJob, PC
    <2> QED BY <1>4, <2>1, <2>2 DEF TakeJob
  <1>5. CASE ShutDown(w)
    BY <1>5, ShutDownStep
  <1>6. CASE Submit(w)
    BY <1>1, <1>6, Moves, SubmitStep DEF Submit, PC
  <1>7. CASE SubmitRefused(w)
    BY <1>1, <1>7, Moves, SubmitStep DEF SubmitRefused, PC
  <1>8. CASE SubmitLost(w)
    BY <1>1, <1>8, Moves, SubmitStep DEF SubmitLost, PC
  <1>9. CASE Bind(w)
    <2>1. Aging
      BY <1>1, <1>9, TableAges DEF Bind, At
    <2>2. Calm
      BY <1>1, <1>9, Moves DEF Bind, PC
    <2> QED BY <2>1, <2>2, QuietStep
  <1>10. CASE RecordAmbiguous(w)
    <2>1. Aging
      BY <1>1, <1>10, TableAges DEF RecordAmbiguous, At
    <2>2. Calm
      BY <1>1, <1>10, Moves DEF RecordAmbiguous, PC
    <2> QED BY <2>1, <2>2, QuietStep
  <1>11. CASE RecordRejected(w)
    <2>1. Aging
      BY <1>1, <1>11, TableAges DEF RecordRejected, At
    <2>2. Calm
      BY <1>1, <1>11, Moves DEF RecordRejected, PC
    <2> QED BY <2>1, <2>2, QuietStep
  <1>12. CASE Abandon(w)
    <2>1. Aging
      BY <1>1, <1>12, TableAges DEF Abandon
    <2>2. Calm
      BY <1>1, <1>12, Moves DEF Abandon, PC, Live
    <2> QED BY <2>1, <2>2, QuietStep
  <1>13. CASE FetchStatus(w)
    <2>1. Aging
      BY <1>1, <1>13, TableAges DEF FetchStatus
    <2>2. Calm
      <3>1. CASE Become(w, "request", c, leg[c]) /\ leg[c] \in Live
        BY <1>1, <1>13, <3>1, Moves DEF FetchStatus, PC, At
      <3>2. CASE Become(w, "resolve", c, leg[c]) /\ leg[c] \in Ended
        BY <1>1, <1>13, <3>2, Moves DEF FetchStatus, PC, At
      <3>3. CASE Goto(w, "retry")
        BY <1>1, <1>13, <3>3, Moves DEF FetchStatus, PC
      <3> QED BY <1>13, <3>1, <3>2, <3>3 DEF FetchStatus
    <2> QED BY <2>1, <2>2, QuietStep
  <1>14. CASE RequestTerminal(w)
    <2>1. Aging
      BY <1>1, <1>14, TableAges DEF RequestTerminal
    <2>2. Calm
      BY <1>1, <1>14, Moves, ZenonT(40) DEF RequestTerminal, PC, Live
    <2> QED BY <2>1, <2>2, QuietStep
  <1>15. CASE RecordProof(w)
    <2>1. Aging
      BY <1>1, <1>15, TableAges DEF RecordProof, At
    <2>2. Calm
      BY <1>1, <1>15, Moves DEF RecordProof, PC
    <2> QED BY <2>1, <2>2, QuietStep
  <1>16. CASE RecordResult(w)
    <2>1. Aging
      BY <1>1, <1>16, TableAges DEF RecordResult, At
    <2>2. Calm
      <3>1. NoCall \in Call \cup {NoCall} /\ Become(w, "claim", NoCall, "none")
        BY <1>16 DEF RecordResult
      <3> QED BY <1>1, <1>16, <3>1, Moves DEF RecordResult, PC
    <2> QED BY <2>1, <2>2, QuietStep
  <1>17. CASE Crash(w)
    BY <1>1, <1>17, Moves, TableAges, QuietStep DEF Crash, PC
  <1> QED
    BY <1>2, <1>3, <1>4, <1>5, <1>6, <1>7, <1>8, <1>9, <1>10, <1>11, <1>12, <1>13, <1>14,
       <1>15, <1>16, <1>17 DEF WorkerStep, Dialing, Reconciling

LEMMA OthersKeepDialInv ==
    ASSUME TypeInv, TypeInv', DialInv,
           OperatorStep \/ \E c \in Call : CarrierStep(c) \/ ClockTick(c)
    PROVE  DialInv'
  <1>1. /\ calls \in Table /\ calls' \in Table
        /\ leg \in [Call -> LegState]
        /\ operator.pc # "idle" => operator.call \in Call
        /\ operator.pc = "status" => operator.status \in PROVIDER_TERMINAL
    BY StoreAssumption DEF TypeInv, TypeOK, Table, HandsFull
  <1>2. UNCHANGED worker
    BY DEF OperatorStep, Enqueue, Delete, ResolveBegin, ResolveStatus, ResolveFinish, Clear,
       CarrierStep, Answer, HangUp, StatusWebhook, FlowWebhook, StreamStart, StreamEnd, ClockTick
  <1>3. ASSUME NEW c \in Call, CarrierStep(c) \/ ClockTick(c)
        PROVE  Aging /\ \A d \in Call : leg[d] = "none" => leg'[d] = "none"
    <2>1. CASE Answer(c) \/ \E s \in Verdict : HangUp(c, s)
      BY <1>1, <2>1, TableAges DEF Answer, HangUp
    <2>2. CASE \E s \in Ended \cup {"in-progress"} : StatusWebhook(c, s)
      BY <1>1, <2>2, TableAges DEF StatusWebhook, Ended
    <2>3. CASE FlowWebhook(c)
      BY <1>1, <2>3, TableAges DEF FlowWebhook
    <2>4. CASE StreamStart(c)
      BY <1>1, <2>4, TableAges DEF StreamStart
    <2>5. CASE \E reason \in EndReason : StreamEnd(c, reason)
      BY <1>1, <2>5, StoreAssumption, TableAges DEF StreamEnd
    <2>6. CASE ClockTick(c)
      BY <1>1, <2>6, TableAges DEF ClockTick
    <2> QED BY <1>3, <2>1, <2>2, <2>3, <2>4, <2>5, <2>6 DEF CarrierStep
  <1>4. CASE \E c \in Call : Enqueue(c)
    <2>1. PICK c \in Call : Enqueue(c)
      BY <1>4
    <2>2. Untouched(c)
      BY <2>1 DEF Enqueue, EnqueueCall, DialInv, Fresh
    <2>3. \A d \in Call \ {c} : calls'[d] = calls[d]
      BY <1>1, <2>1 DEF Enqueue, EnqueueCall, Table
    <2> QED BY <1>2, <2>1, <2>2, <2>3 DEF Enqueue, DialInv, NeverRedialed, Untouched, DialingCall, At
  <1>5. CASE OperatorStep /\ ~\E c \in Call : Enqueue(c)
    <2>1. UNCHANGED leg
      BY <1>5 DEF OperatorStep, Delete, ResolveBegin, ResolveStatus, ResolveFinish, Clear
    <2>2. Aging
      BY <1>1, <1>5, TableAges DEF OperatorStep, Delete, ResolveBegin, ResolveStatus,
         ResolveFinish, Clear
    <2> QED BY <1>2, <2>1, <2>2, QuietStep
  <1> QED BY <1>2, <1>3, <1>4, <1>5, QuietStep

\* A call is submitted to the carrier at most once, whatever leases expire,
\* whichever coordinators crash or shut down, whatever an operator resolves or
\* deletes: one that is about to be submitted never was, and is in the hands
\* of one coordinator.
THEOREM SubmittedOnce == Spec => []NeverRedialed
  <1>1. Init => DialInv
    BY DEF Init, DialInv, NeverRedialed, Untouched, DialingCall, At, Idle
  <1>2. TypeInv /\ TypeInv' /\ DialInv /\ [Next]_vars => DialInv'
    <2>1. CASE UNCHANGED vars
      BY <2>1 DEF vars, DialInv, NeverRedialed, Untouched, DialingCall, At
    <2> QED BY <2>1, WorkerKeepsDialInv, OthersKeepDialInv DEF Next
  <1>3. DialInv => NeverRedialed
    BY DEF DialInv
  <1> QED BY <1>1, <1>2, <1>3, TypeCorrect, PTL DEF Spec, TypeInv

----------------------------------------------------------------------------
(* How a call ends                                                         *)

\* The columns that say how and whether a call ended.
SameEnd(r, t) ==
    /\ t.provider_terminal = r.provider_terminal
    /\ t.media_connected = r.media_connected
    /\ t.media_end_reason = r.media_end_reason
    /\ t.finalized = r.finalized

Blank(r) == ~r.provider_terminal /\ ~r.media_connected /\ ~r.finalized

Settled(r) == r.finalized <=> r.provider_terminal /\ (r.media_connected => RawPersisted(r))

\* Queueing, dialing and reconciling do not touch those columns.
LEMMA RowsKeepEnd ==
    ASSUME NEW r \in Row
    PROVE  /\ SameEnd(r, QuarantineClaim(r))
           /\ \A w \in Owner : SameEnd(r, ClaimRow(r, w))
           /\ SameEnd(r, RelinquishedRow(r))
           /\ SameEnd(r, MarkReconciliation(r))
           /\ SameEnd(r, BindRow(r))
           /\ SameEnd(r, BindIfUnknown(r))
           /\ \A w \in Owner : SameEnd(r, ActionRow(r, w))
           /\ SameEnd(r, ReconciledRow(r))
           /\ SameEnd(r, AbandonRow(r))
           /\ SameEnd(r, ResolvedRow(r))
  <1>1. ASSUME NEW j \in Row, NEW q \in QueueState
        PROVE  SetJob(j, q) \in Row /\ SameEnd(j, SetJob(j, q))
    BY <1>1, SetJobType, ZenonT(40) DEF SetJob, Row, SameEnd
  <1>2. ReleaseAction(r) \in Row /\ SameEnd(r, ReleaseAction(r))
    BY ReleaseActionType DEF ReleaseAction, Row, SameEnd
  <1>3. {"needs_reconciliation", "active", "queued", "terminal"} \subseteq QueueState
    BY Words
  <1>4. /\ SameEnd(r, QuarantineClaim(r))
        /\ SameEnd(r, MarkReconciliation(r))
        /\ SameEnd(r, BindRow(r))
        /\ SameEnd(r, BindIfUnknown(r))
        /\ SameEnd(r, RelinquishedRow(r))
    BY <1>1, <1>3 DEF SameEnd, QuarantineClaim, MarkReconciliation, BindRow, BindIfUnknown,
       RelinquishedRow, Row
  <1>5. \A w \in Owner : SameEnd(r, ClaimRow(r, w)) /\ SameEnd(r, ActionRow(r, w))
    BY DEF SameEnd, ClaimRow, ActionRow, Row
  <1>6. /\ SameEnd(r, ReconciledRow(r))
        /\ SameEnd(r, AbandonRow(r))
        /\ SameEnd(r, ResolvedRow(r))
    BY <1>1, <1>2, <1>3 DEF SameEnd, ReconciledRow, StallRow, RetryRow, AbandonRow,
       ResolvedRow, Row
  <1> QED BY <1>4, <1>5, <1>6

\* The statements that do touch them leave the row settled.
LEMMA RowsSettle ==
    ASSUME NEW r \in Row, Settled(r)
    PROVE  /\ ~r.media_connected => Settled(RejectRow(r))
           /\ \A s \in PROVIDER_TERMINAL : Settled(TerminalRow(r, s))
           /\ \A reason \in MediaEndReasons : Settled(PersistRow(r, reason))
           /\ RejectRow(r).media_connected = r.media_connected
           /\ \A s \in PROVIDER_TERMINAL : TerminalRow(r, s).media_connected = r.media_connected
           /\ \A reason \in MediaEndReasons :
                    PersistRow(r, reason).provider_terminal = r.provider_terminal
  <1> DEFINE over == SetJob(r, "terminal")
  <1>1. over \in Row /\ SameEnd(r, over)
    BY SetJobType, Words, ZenonT(40) DEF SetJob, Row, SameEnd
  <1> HIDE DEF over
  <1>2. /\ ~r.media_connected => Settled(RejectRow(r))
        /\ RejectRow(r).media_connected = r.media_connected
    <2>1. RejectRow(r) = [over EXCEPT !.lifecycle_state = "FAILED",
              !.outcome = "provider_rejected", !.provider_terminal = TRUE, !.finalized = TRUE]
      BY DEF RejectRow, over
    <2> QED BY <1>1, <2>1 DEF SameEnd, Settled, Row
  <1>3. ASSUME NEW s \in PROVIDER_TERMINAL
        PROVE  /\ Settled(TerminalRow(r, s))
               /\ TerminalRow(r, s).media_connected = r.media_connected
    <2> DEFINE row == TerminalRow(r, s)
    <2>1. /\ row.provider_terminal = TRUE
          /\ row.media_connected = over.media_connected
          /\ row.media_end_reason = over.media_end_reason
          /\ row.finalized = (over.finalized \/ ~r.media_connected \/ RawPersisted(r))
      BY <1>1 DEF TerminalRow, Row, over
    <2> QED BY <1>1, <2>1 DEF SameEnd, Settled, RawPersisted
  <1>4. ASSUME NEW reason \in MediaEndReasons
        PROVE  /\ Settled(PersistRow(r, reason))
               /\ PersistRow(r, reason).provider_terminal = r.provider_terminal
    <2>1. reason # "none"
      BY DEF MediaEndReasons
    <2>2. /\ PersistRow(r, reason).provider_terminal = r.provider_terminal
          /\ PersistRow(r, reason).media_connected = TRUE
          /\ PersistRow(r, reason).media_end_reason = reason
          /\ PersistRow(r, reason).finalized = (r.finalized \/ r.provider_terminal)
      BY DEF PersistRow, Row
    <2> QED BY <2>1, <2>2 DEF Settled, RawPersisted, Row
  <1> QED BY <1>2, <1>3, <1>4

EndKept == \A d \in Call : SameEnd(calls[d], calls'[d]) \/ Blank(calls'[d])

LEMMA TableKeepsEnd ==
    ASSUME calls \in Table,
           \/ ClaimNothing \/ QuarantineAbandonedJobs \/ ClearCalls \/ UNCHANGED calls
           \/ \E c \in Call :
                \/ EnqueueCall(c) \/ BindCallSid(c) \/ BindRefused(c) \/ MarkDialAmbiguous(c)
                \/ WebhookStatus(c, "in-progress") \/ FinishResolve(c) \/ DeleteCall(c) \/ Clock(c)
                \/ \E w \in Worker :
                    \/ ClaimJob(w, c) \/ RelinquishClaim(w, c)
                    \/ ClaimDueAction(w, c) \/ ReconciliationResult(w, c)
    PROVE  EndKept
  <1>1. \A d \in Call : calls[d] \in Row /\ SameEnd(calls[d], calls[d])
    BY DEF Table, SameEnd
  <1>2. ASSUME NEW c \in Call, NEW row, calls' = [calls EXCEPT ![c] = row],
               SameEnd(calls[c], row) \/ Blank(row)
        PROVE  EndKept
    BY <1>1, <1>2 DEF EndKept, Table
  <1>3. CASE UNCHANGED calls
    BY <1>1, <1>3 DEF EndKept
  <1>4. CASE ClaimNothing
    BY <1>1, <1>4, RowsKeepEnd DEF ClaimNothing, ExpireClaims, EndKept
  <1>5. CASE QuarantineAbandonedJobs
    BY <1>1, <1>5, RowsKeepEnd DEF QuarantineAbandonedJobs, Commit, EndKept
  <1>6. Blank(DeletedRow) /\ Blank(QueuedRow)
    BY DEF Blank, DeletedRow, QueuedRow, AbsentRow
  <1>7. CASE ClearCalls
    BY <1>1, <1>6, <1>7 DEF ClearCalls, EndKept
  <1>8. ASSUME NEW c \in Call
        PROVE  /\ EnqueueCall(c) => EndKept
               /\ BindCallSid(c) => EndKept
               /\ BindRefused(c) => EndKept
               /\ MarkDialAmbiguous(c) => EndKept
               /\ FinishResolve(c) => EndKept
               /\ DeleteCall(c) => EndKept
    BY <1>1, <1>2, <1>3, <1>6, RowsKeepEnd DEF EnqueueCall, BindCallSid, BindRefused,
       MarkDialAmbiguous, FinishResolve, DeleteCall, Commit
  <1>9. ASSUME NEW c \in Call, WebhookStatus(c, "in-progress")
        PROVE  EndKept
    BY <1>1, <1>2, <1>9, RowsKeepEnd DEF WebhookStatus, PROVIDER_TERMINAL
  <1>10. ASSUME NEW c \in Call, NEW w \in Worker
         PROVE  /\ RelinquishClaim(w, c) => EndKept
                /\ ClaimDueAction(w, c) => EndKept
                /\ ReconciliationResult(w, c) => EndKept
    BY <1>1, <1>2, <1>3, RowsKeepEnd, Words DEF RelinquishClaim, ClaimDueAction,
       ReconciliationResult, Commit
  <1>11. ASSUME NEW c \in Call, NEW w \in Worker, ClaimJob(w, c)
         PROVE  EndKept
    <2> DEFINE table == ExpireClaims(calls)
    <2>1. /\ table \in Table
          /\ \A d \in Call : table[d] \in Row /\ SameEnd(calls[d], table[d])
      BY <1>1, WholeTableTypes, RowsKeepEnd DEF ExpireClaims, Table
    <2>2. calls' = [table EXCEPT ![c] = ClaimRow(table[c], w)]
      BY <1>11 DEF ClaimJob
    <2>3. SameEnd(table[c], ClaimRow(table[c], w))
      BY <2>1, RowsKeepEnd, Words
    <2> HIDE DEF table
    <2>4. \A d \in Call : SameEnd(table[d], calls'[d])
      BY <2>1, <2>2, <2>3 DEF Table, SameEnd
    <2> QED BY <2>1, <2>4 DEF EndKept, SameEnd
  <1>12. ASSUME NEW c \in Call, Clock(c)
         PROVE  EndKept
    BY <1>1, <1>12 DEF Clock, LeaseExpires, GraceElapses, DeadlinePasses,
       ActionLeaseExpires, BackoffElapses, Table, Row, EndKept, SameEnd
  <1> QED BY <1>3, <1>4, <1>5, <1>7, <1>8, <1>9, <1>10, <1>11, <1>12

\* A leg that was answered or ended never rings again, and one that ended or
\* was refused never changes.
Reached == {"answered"} \cup Ended

LegsProgress ==
    \A d \in Call :
        /\ leg[d] \in Reached => leg'[d] \in Reached
        /\ leg[d] \in Ended \cup {"refused"} => leg'[d] = leg[d]

LEMMA LegsOnlyProgress ==
    ASSUME TypeInv, DialInv, [Next]_vars
    PROVE  LegsProgress
  <1>1. leg \in [Call -> LegState]
    BY DEF TypeInv, TypeOK
  <1>2. CASE UNCHANGED leg
    BY <1>2 DEF LegsProgress
  <1>3. ASSUME NEW w \in Worker, Submit(w) \/ SubmitRefused(w) \/ SubmitLost(w)
        PROVE  LegsProgress
    <2>1. worker[w].call \in Call /\ DialingCall(w, worker[w].call)
      BY <1>3 DEF TypeInv, HandsFull, Submit, SubmitRefused, SubmitLost, At, DialingCall
    <2>2. leg[worker[w].call] = "none"
      BY <2>1 DEF DialInv, NeverRedialed
    <2> QED BY <1>1, <1>3, <2>1, <2>2 DEF LegsProgress, Submit, SubmitRefused, SubmitLost,
               Reached, Ended, PROVIDER_TERMINAL
  <1>4. ASSUME NEW w \in Worker, Abandon(w) \/ RequestTerminal(w)
        PROVE  LegsProgress
    BY <1>1, <1>4 DEF Abandon, RequestTerminal, LegsProgress, Reached, Live, Ended,
       PROVIDER_TERMINAL
  <1>5. ASSUME NEW c \in Call, Answer(c)
        PROVE  LegsProgress
    BY <1>1, <1>5 DEF Answer, LegsProgress, Reached, Ended, PROVIDER_TERMINAL
  <1>6. ASSUME NEW c \in Call, NEW s \in Verdict, HangUp(c, s)
        PROVE  LegsProgress
    BY <1>1, <1>6, StoreAssumption DEF HangUp, LegsProgress, Reached, Ended, PROVIDER_TERMINAL
  <1>7. \/ UNCHANGED leg
        \/ \E w \in Worker : \/ Submit(w) \/ SubmitRefused(w) \/ SubmitLost(w)
                               \/ Abandon(w) \/ RequestTerminal(w)
        \/ \E c \in Call : Answer(c) \/ \E s \in Verdict : HangUp(c, s)
    BY DEF Next, WorkerStep, Dialing, Reconciling, Sweep, TakeAction, TakeJob, ShutDown, Bind,
       RecordAmbiguous, RecordRejected, FetchStatus, RecordProof, RecordResult, Crash,
       CarrierStep, StatusWebhook, FlowWebhook, StreamStart, StreamEnd, OperatorStep, Enqueue,
       ResolveBegin, ResolveStatus, ResolveFinish, Delete, Clear, ClockTick, vars
  <1> QED BY <1>2, <1>3, <1>4, <1>5, <1>6, <1>7

\* Media is only ever met on an answered leg, and a coordinator records a
\* refusal or an end only of a leg that was refused or has ended.
EndInv ==
    /\ \A c \in Call :
        /\ Settled(calls[c])
        /\ media[c] # "none" \/ calls[c].media_connected => leg[c] \in Reached
    /\ \A w \in Worker :
        /\ At(w, "reject") => leg[worker[w].call] = "refused"
        /\ At(w, "resolve") => leg[worker[w].call] = worker[w].seen

\* What makes a call terminal in one step.
ProofStep ==
    \A c \in Call :
        ~calls[c].provider_terminal /\ calls'[c].provider_terminal =>
            \/ leg[c] \in Ended \cup {"refused"}
            \/ operator.call = c /\ operator'.pc = "finish"

EndStep == EndInv' /\ ProofStep

\* The invariant splits into the calls, whose columns a step changes one row
\* at a time, and the coordinators.
CallEnds(c) ==
    /\ Settled(calls[c])
    /\ media[c] # "none" \/ calls[c].media_connected => leg[c] \in Reached

WorkersKnow ==
    \A w \in Worker :
        /\ At(w, "reject") => leg[worker[w].call] = "refused"
        /\ At(w, "resolve") => leg[worker[w].call] = worker[w].seen

LEMMA KeptCalls ==
    ASSUME EndInv, LegsProgress, EndKept, UNCHANGED media
    PROVE  ProofStep /\ \A c \in Call : CallEnds(c)'
  <1>1. ASSUME NEW c \in Call, SameEnd(calls[c], calls'[c]) \/ Blank(calls'[c])
        PROVE  /\ Settled(calls'[c])
               /\ calls'[c].media_connected => calls[c].media_connected
               /\ calls'[c].provider_terminal => calls[c].provider_terminal
    BY <1>1 DEF EndInv, Settled, SameEnd, Blank, RawPersisted
  <1> QED BY <1>1 DEF EndInv, EndKept, ProofStep, CallEnds, LegsProgress

\* Steps of one coordinator that turn neither to "reject" nor to "resolve".
LEMMA KeptWorkers ==
    ASSUME TypeInv, EndInv, LegsProgress,
           \A v \in Worker : worker'[v].pc \in {"reject", "resolve"} => worker'[v] = worker[v]
    PROVE  WorkersKnow'
  <1>1. \A v \in Worker : worker[v].pc \in {"reject", "resolve"} =>
            worker[v].call \in Call /\ leg[worker[v].call] \in Ended \cup {"refused"}
    BY DEF TypeInv, HandsFull, EndInv, At
  <1> QED BY <1>1 DEF WorkersKnow, EndInv, At, LegsProgress

LEMMA Reassemble ==
    ASSUME \A c \in Call : CallEnds(c)', WorkersKnow'
    PROVE  EndInv'
  BY DEF EndInv, CallEnds, WorkersKnow

\* A transaction that ends calls changes one row, on evidence.
LEMMA EndingCalls ==
    ASSUME TypeInv, EndInv, LegsProgress, NEW c \in Call, UNCHANGED media,
           NEW row, calls' = [calls EXCEPT ![c] = row], Settled(row),
           row.media_connected => calls[c].media_connected,
           row.provider_terminal =>
               \/ leg[c] \in Ended \cup {"refused"}
               \/ operator.call = c /\ operator'.pc = "finish"
    PROVE  ProofStep /\ \A d \in Call : CallEnds(d)'
  <1>1. calls'[c] = row /\ \A d \in Call \ {c} : calls'[d] = calls[d]
    BY DEF TypeInv, TypeOK
  <1> QED BY <1>1 DEF EndInv, ProofStep, CallEnds, LegsProgress

LEMMA WorkerEnds ==
    ASSUME TypeInv, DialInv, EndInv, NEW w \in Worker, WorkerStep(w) \/ Crash(w)
    PROVE  EndStep
  <1> DEFINE c == worker[w].call
             KeptPCs == \A v \in Worker :
                worker'[v].pc \in {"reject", "resolve"} => worker'[v] = worker[v]
  <1>1. /\ calls \in Table
        /\ \A d \in Call : calls[d] \in Row
        /\ worker \in [Worker -> WorkerState]
        /\ leg \in [Call -> LegState]
        /\ c \in Call \cup {NoCall}
        /\ worker[w].seen \in Live \cup Ended \cup {"none"}
        /\ worker[w].pc \notin {"sweep", "action", "claim"} => c \in Call
        /\ At(w, "resolve") => worker[w].seen \in PROVIDER_TERMINAL
    BY DEF TypeInv, TypeOK, Table, HandsFull, WorkerState, Ended
  <1>2. LegsProgress
    BY LegsOnlyProgress DEF Next
  <1>3. CASE Sweep(w)
    <2>1. EndKept /\ UNCHANGED media
      BY <1>1, <1>3, TableKeepsEnd DEF Sweep
    <2>2. KeptPCs
      BY <1>1, <1>3, Moves DEF Sweep, PC
    <2> QED BY <1>2, <2>1, <2>2, KeptCalls, KeptWorkers, Reassemble DEF EndStep
  <1>4. CASE ShutDown(w)
    <2>1. EndKept /\ UNCHANGED media
      BY <1>1, <1>4, TableKeepsEnd DEF ShutDown, At
    <2>2. KeptPCs
      BY <1>1, <1>4, Moves DEF ShutDown, PC
    <2> QED BY <1>2, <2>1, <2>2, KeptCalls, KeptWorkers, Reassemble DEF EndStep
  <1>5. CASE Submit(w)
    <2>1. EndKept /\ UNCHANGED media
      BY <1>1, <1>5, TableKeepsEnd DEF Submit
    <2>2. KeptPCs
      BY <1>1, <1>5, Moves DEF Submit, PC
    <2> QED BY <1>2, <2>1, <2>2, KeptCalls, KeptWorkers, Reassemble DEF EndStep
  <1>6. CASE SubmitLost(w)
    <2>1. EndKept /\ UNCHANGED media
      BY <1>1, <1>6, TableKeepsEnd DEF SubmitLost
    <2>2. KeptPCs
      BY <1>1, <1>6, Moves DEF SubmitLost, PC
    <2> QED BY <1>2, <2>1, <2>2, KeptCalls, KeptWorkers, Reassemble DEF EndStep
  <1>7. CASE Bind(w)
    <2>1. EndKept /\ UNCHANGED media
      BY <1>1, <1>7, TableKeepsEnd DEF Bind, At
    <2>2. KeptPCs
      BY <1>1, <1>7, Moves DEF Bind, PC
    <2> QED BY <1>2, <2>1, <2>2, KeptCalls, KeptWorkers, Reassemble DEF EndStep
  <1>8. CASE RecordAmbiguous(w)
    <2>1. EndKept /\ UNCHANGED media
      BY <1>1, <1>8, TableKeepsEnd DEF RecordAmbiguous, At
    <2>2. KeptPCs
      BY <1>1, <1>8, Moves DEF RecordAmbiguous, PC
    <2> QED BY <1>2, <2>1, <2>2, KeptCalls, KeptWorkers, Reassemble DEF EndStep
  <1>9. CASE Abandon(w)
    <2>1. EndKept /\ UNCHANGED media
      BY <1>1, <1>9, TableKeepsEnd DEF Abandon
    <2>2. KeptPCs
      BY <1>1, <1>9, Moves DEF Abandon, PC
    <2> QED BY <1>2, <2>1, <2>2, KeptCalls, KeptWorkers, Reassemble DEF EndStep
  <1>10. CASE RequestTerminal(w)
    <2>1. EndKept /\ UNCHANGED media
      BY <1>1, <1>10, TableKeepsEnd DEF RequestTerminal
    <2>2. KeptPCs
      BY <1>1, <1>10, Moves DEF RequestTerminal, PC
    <2> QED BY <1>2, <2>1, <2>2, KeptCalls, KeptWorkers, Reassemble DEF EndStep
  <1>11. CASE Crash(w)
    <2>1. EndKept /\ UNCHANGED media
      BY <1>1, <1>11, TableKeepsEnd DEF Crash
    <2>2. KeptPCs
      BY <1>1, <1>11, Moves DEF Crash, PC
    <2> QED BY <1>2, <2>1, <2>2, KeptCalls, KeptWorkers, Reassemble DEF EndStep
  <1>12. CASE TakeAction(w)
    <2>1. EndKept /\ UNCHANGED media
      BY <1>1, <1>12, TableKeepsEnd DEF TakeAction
    <2>2. KeptPCs
      <3>1. CASE \E d \in Call : Become(w, "fetch", d, "none")
        BY <1>1, <3>1, Moves DEF PC
      <3>2. CASE Goto(w, "claim")
        BY <1>1, <3>2, Moves DEF PC
      <3> QED BY <1>12, <3>1, <3>2 DEF TakeAction
    <2> QED BY <1>2, <2>1, <2>2, KeptCalls, KeptWorkers, Reassemble DEF EndStep
  <1>13. CASE TakeJob(w)
    <2>1. EndKept /\ UNCHANGED media
      BY <1>1, <1>13, TableKeepsEnd DEF TakeJob
    <2>2. KeptPCs
      <3>1. CASE \E d \in Call : Become(w, "dial", d, "none")
        BY <1>1, <3>1, Moves DEF PC
      <3>2. CASE NextIteration(w)
        BY <1>1, <3>2, Moves DEF PC
      <3> QED BY <1>13, <3>1, <3>2 DEF TakeJob
    <2> QED BY <1>2, <2>1, <2>2, KeptCalls, KeptWorkers, Reassemble DEF EndStep
  <1>14. CASE RecordResult(w)
    <2>1. EndKept /\ UNCHANGED media
      BY <1>1, <1>14, TableKeepsEnd DEF RecordResult, At
    <2>2. KeptPCs
      <3>1. NoCall \in Call \cup {NoCall} /\ Become(w, "claim", NoCall, "none")
        BY <1>14 DEF RecordResult
      <3> QED BY <1>1, <3>1, Moves, ZenonT(40) DEF PC
    <2> QED BY <1>2, <2>1, <2>2, KeptCalls, KeptWorkers, Reassemble DEF EndStep
  <1>15. CASE SubmitRefused(w)
    <2>1. EndKept /\ UNCHANGED media
      BY <1>1, <1>15, TableKeepsEnd DEF SubmitRefused
    <2>2. /\ worker'[w].pc = "reject" /\ worker'[w].call = c
          /\ leg'[c] = "refused"
          /\ \A v \in Worker \ {w} : worker'[v] = worker[v]
      BY <1>1, <1>15, Moves DEF SubmitRefused, At, PC
    <2>3. \A v \in Worker \ {w} : worker[v].pc \in {"reject", "resolve"} =>
              worker[v].call \in Call /\ leg'[worker[v].call] = leg[worker[v].call]
      BY <1>2 DEF TypeInv, HandsFull, EndInv, At, LegsProgress
    <2>4. WorkersKnow'
      BY <2>2, <2>3 DEF WorkersKnow, EndInv, At
    <2> QED BY <1>2, <2>1, <2>4, KeptCalls, Reassemble DEF EndStep
  <1>16. CASE FetchStatus(w)
    <2>1. EndKept /\ UNCHANGED <<leg, media>>
      BY <1>1, <1>16, TableKeepsEnd DEF FetchStatus
    <2>2. /\ \A v \in Worker \ {w} : worker'[v] = worker[v]
          /\ worker'[w].pc # "reject"
          /\ worker'[w].pc = "resolve" => worker'[w].call = c /\ leg[c] = worker'[w].seen
      <3>1. CASE Become(w, "request", c, leg[c]) /\ leg[c] \in Live
        BY <1>1, <3>1, Moves DEF PC
      <3>2. CASE Become(w, "resolve", c, leg[c]) /\ leg[c] \in Ended
        BY <1>1, <3>2, Moves DEF PC
      <3>3. CASE Goto(w, "retry")
        BY <1>1, <3>3, Moves DEF PC
      <3> QED BY <1>16, <3>1, <3>2, <3>3 DEF FetchStatus
    <2>3. WorkersKnow'
      BY <2>1, <2>2 DEF WorkersKnow, EndInv, At
    <2> QED BY <1>2, <2>1, <2>3, KeptCalls, Reassemble DEF EndStep
  <1>17. CASE RecordRejected(w)
    <2>1. c \in Call /\ leg[c] = "refused" /\ calls[c] \in Row
      BY <1>1, <1>17 DEF RecordRejected, EndInv, At
    <2>2. ~calls[c].media_connected /\ Settled(calls[c])
      BY <2>1 DEF EndInv, Reached, Ended, PROVIDER_TERMINAL
    <2>3. KeptPCs
      BY <1>1, <1>17, Moves DEF RecordRejected, PC
    <2>4. UNCHANGED media
      BY <1>17 DEF RecordRejected
    <2>5. ProofStep /\ \A d \in Call : CallEnds(d)'
      <3>1. CASE Present(calls[c])
        <4>1. calls' = [calls EXCEPT ![c] = RejectRow(calls[c])]
          BY <1>17, <3>1 DEF RecordRejected, MarkDialRejected
        <4> QED BY <1>2, <2>1, <2>2, <2>4, <4>1, RowsSettle, EndingCalls
      <3>2. CASE ~Present(calls[c])
        <4>1. UNCHANGED calls
          BY <1>17, <3>2 DEF RecordRejected, MarkDialRejected
        <4> QED BY <1>1, <1>2, <2>4, <4>1, TableKeepsEnd, KeptCalls
      <3> QED BY <3>1, <3>2
    <2> QED BY <1>2, <2>3, <2>5, KeptWorkers, Reassemble DEF EndStep
  <1>18. CASE RecordProof(w)
    <2> DEFINE s == worker[w].seen
    <2>1. c \in Call /\ calls[c] \in Row /\ s \in PROVIDER_TERMINAL /\ leg[c] \in Ended
      BY <1>1, <1>18 DEF RecordProof, EndInv, At, Ended
    <2>2. KeptPCs
      BY <1>1, <1>18, Moves DEF RecordProof, PC
    <2>3. UNCHANGED media /\ Settled(calls[c])
      BY <1>18, <2>1 DEF RecordProof, EndInv
    <2>4. ProofStep /\ \A d \in Call : CallEnds(d)'
      <3>1. CASE calls' = [calls EXCEPT ![c] = TerminalRow(calls[c], s)]
        BY <1>2, <2>1, <2>3, <3>1, RowsSettle, EndingCalls
      <3>2. CASE UNCHANGED calls
        BY <1>1, <1>2, <2>3, <3>2, TableKeepsEnd, KeptCalls
      <3> QED BY <1>18, <3>1, <3>2 DEF RecordProof, ProvenStatus
    <2> QED BY <1>2, <2>2, <2>4, KeptWorkers, Reassemble DEF EndStep
  <1> QED
    BY <1>3, <1>4, <1>5, <1>6, <1>7, <1>8, <1>9, <1>10, <1>11, <1>12, <1>13, <1>14, <1>15, <1>16, <1>17, <1>18 DEF WorkerStep, Dialing, Reconciling

\* A terminal status, written by a webhook, by reconciliation or by an operator.
LEMMA StatusEnds ==
    ASSUME TypeInv, EndInv, LegsProgress, UNCHANGED media,
           NEW c \in Call, NEW s \in PROVIDER_TERMINAL, NEW r \in Row, SameEnd(calls[c], r),
           calls' = [calls EXCEPT ![c] = TerminalRow(r, s)],
           leg[c] \in Ended \/ (operator.call = c /\ operator'.pc = "finish")
    PROVE  ProofStep /\ \A d \in Call : CallEnds(d)'
  <1>1. Settled(r) /\ r.media_connected = calls[c].media_connected
    BY DEF EndInv, Settled, SameEnd, RawPersisted
  <1>2. Settled(TerminalRow(r, s)) /\ TerminalRow(r, s).media_connected = calls[c].media_connected
    BY <1>1, RowsSettle
  <1> QED BY <1>2, EndingCalls

LEMMA MediaEnds ==
    ASSUME TypeInv, EndInv, LegsProgress, NEW c \in Call,
           StreamStart(c) \/ \E reason \in EndReason : StreamEnd(c, reason)
    PROVE  ProofStep /\ \A d \in Call : CallEnds(d)'
  <1>1. /\ \A d \in Call : calls[d] \in Row /\ CallEnds(d)
        /\ media \in [Call -> {"none", "open", "closed"}]
        /\ DOMAIN calls = Call
    BY DEF TypeInv, TypeOK, EndInv, CallEnds
  <1>2. leg[c] \in Reached /\ \A d \in Call \ {c} : media'[d] = media[d]
    BY <1>1 DEF StreamStart, StreamEnd, Reached, CallEnds
  <1>3. ASSUME NEW row, calls' = [calls EXCEPT ![c] = row], Settled(row),
               row.provider_terminal => calls[c].provider_terminal
        PROVE  ProofStep /\ \A d \in Call : CallEnds(d)'
    <2>1. calls'[c] = row /\ \A d \in Call \ {c} : calls'[d] = calls[d]
      BY <1>1, <1>3
    <2> QED BY <1>1, <1>2, <1>3, <2>1 DEF ProofStep, CallEnds, LegsProgress
  <1>4. CASE UNCHANGED calls
    BY <1>1, <1>2, <1>4 DEF ProofStep, CallEnds, LegsProgress
  <1>5. CASE StreamStart(c)
    <2> DEFINE row == [calls[c] EXCEPT !.media_connected = TRUE, !.lifecycle_state = "CONNECTED"]
    <2>1. calls' = [calls EXCEPT ![c] = row] /\ ~calls[c].provider_terminal
      BY <1>5 DEF StreamStart, ClaimMedia
    <2>2. Settled(row) /\ ~row.provider_terminal
      BY <1>1, <2>1 DEF Settled, CallEnds, Row
    <2> HIDE DEF row
    <2> QED BY <1>3, <2>1, <2>2
  <1>6. ASSUME NEW reason \in EndReason, PersistRaw(c, reason), calls' # calls
        PROVE  ProofStep /\ \A d \in Call : CallEnds(d)'
    <2>1. reason \in MediaEndReasons
      BY StoreAssumption
    <2>2. CASE Present(calls[c])
      <3>1. /\ Settled(PersistRow(calls[c], reason))
            /\ PersistRow(calls[c], reason).provider_terminal = calls[c].provider_terminal
        BY <1>1, <2>1, RowsSettle DEF CallEnds
      <3> QED BY <1>3, <1>6, <2>2, <3>1 DEF PersistRaw
    <2>3. CASE ~Present(calls[c])
      <3> DEFINE fresh == [AbsentRow EXCEPT !.lifecycle_state = "CREATED"]
      <3>1. fresh \in Row /\ Settled(fresh) /\ ~fresh.provider_terminal
        <4>1. "CREATED" \in LifecycleState
          BY DEF LifecycleState
        <4>2. fresh \in Row
          BY <4>1, AbsentRowType DEF Row
        <4> QED BY <4>2 DEF AbsentRow, Settled
      <3>2. calls' = [calls EXCEPT ![c] = PersistRow(fresh, reason)]
        BY <1>6, <2>3 DEF PersistRaw
      <3> HIDE DEF fresh
      <3>3. /\ Settled(PersistRow(fresh, reason))
            /\ PersistRow(fresh, reason).provider_terminal = fresh.provider_terminal
        BY <2>1, <3>1, RowsSettle
      <3> QED BY <1>3, <3>1, <3>2, <3>3
    <2> QED BY <2>2, <2>3
  <1> QED BY <1>4, <1>5, <1>6 DEF StreamEnd

LEMMA OthersEnd ==
    ASSUME TypeInv, DialInv, EndInv,
           OperatorStep \/ \E c \in Call : CarrierStep(c) \/ ClockTick(c)
    PROVE  EndStep
  <1>1. /\ calls \in Table
        /\ \A d \in Call : calls[d] \in Row /\ SameEnd(calls[d], calls[d])
        /\ operator.pc # "idle" => operator.call \in Call
        /\ operator.pc = "status" => operator.status \in PROVIDER_TERMINAL
    BY StoreAssumption DEF TypeInv, TypeOK, Table, HandsFull, SameEnd
  <1>2. LegsProgress
    BY LegsOnlyProgress DEF Next
  <1>3. WorkersKnow'
    <2>1. UNCHANGED worker
      BY DEF OperatorStep, Enqueue, Delete, ResolveBegin, ResolveStatus, ResolveFinish, Clear,
         CarrierStep, Answer, HangUp, StatusWebhook, FlowWebhook, StreamStart, StreamEnd, ClockTick
    <2> QED BY <1>2, <2>1, KeptWorkers
  <1>4. CASE EndKept /\ UNCHANGED media
    BY <1>2, <1>3, <1>4, KeptCalls, Reassemble DEF EndStep
  <1>5. ASSUME NEW c \in Call, CarrierStep(c) \/ ClockTick(c)
        PROVE  EndStep
    <2>1. CASE Answer(c) \/ \E s \in Verdict : HangUp(c, s)
      BY <1>1, <1>4, <2>1, TableKeepsEnd DEF Answer, HangUp
    <2>2. CASE FlowWebhook(c)
      BY <1>1, <1>4, <2>2, TableKeepsEnd DEF FlowWebhook
    <2>3. CASE ClockTick(c)
      BY <1>1, <1>4, <2>3, TableKeepsEnd DEF ClockTick
    <2>4. CASE StreamStart(c) \/ \E reason \in EndReason : StreamEnd(c, reason)
      BY <1>2, <1>3, <2>4, MediaEnds, Reassemble DEF EndStep
    <2>5. CASE StatusWebhook(c, "in-progress")
      BY <1>1, <1>4, <2>5, TableKeepsEnd DEF StatusWebhook
    <2>6. ASSUME NEW s \in Ended, StatusWebhook(c, s)
          PROVE  EndStep
      <3> DEFINE r == BindIfUnknown(calls[c])
      <3>1. /\ leg[c] \in Ended /\ UNCHANGED media
            /\ s \in PROVIDER_TERMINAL
            /\ calls' = [calls EXCEPT ![c] = TerminalRow(r, s)]
        BY <2>6 DEF StatusWebhook, WebhookStatus, Ended, PROVIDER_TERMINAL
      <3>2. r \in Row /\ SameEnd(calls[c], r)
        BY <1>1, DialRowTypes, RowsKeepEnd
      <3> HIDE DEF r
      <3> QED BY <1>2, <1>3, <3>1, <3>2, StatusEnds, Reassemble DEF EndStep
    <2> QED BY <1>5, <2>1, <2>2, <2>3, <2>4, <2>5, <2>6 DEF CarrierStep
  <1>6. CASE ResolveStatus
    <2> DEFINE c == operator.call
    <2>1. /\ c \in Call /\ operator.status \in PROVIDER_TERMINAL
          /\ UNCHANGED media /\ operator'.pc = "finish"
      BY <1>1, <1>6 DEF ResolveStatus, TypeInv, TypeOK, OperatorState
    <2>2. CASE UNCHANGED calls
      BY <1>1, <1>4, <2>1, <2>2, TableKeepsEnd
    <2>3. CASE calls' = [calls EXCEPT ![c] = TerminalRow(calls[c], operator.status)]
      BY <1>1, <1>2, <1>3, <2>1, <2>3, StatusEnds, Reassemble DEF EndStep
    <2> QED BY <1>6, <2>2, <2>3 DEF ResolveStatus, ProvenStatus
  <1>7. CASE OperatorStep /\ ~ResolveStatus
    <2>1. UNCHANGED media
      BY <1>7 DEF OperatorStep, Enqueue, Delete, ResolveBegin, ResolveFinish, Clear
    <2>2. EndKept
      BY <1>1, <1>7, TableKeepsEnd DEF OperatorStep, Enqueue, Delete, ResolveBegin,
         ResolveFinish, Clear
    <2> QED BY <1>4, <2>1, <2>2
  <1> QED BY <1>5, <1>6, <1>7

LEMMA EndIsInductive ==
    ASSUME TypeInv, DialInv, EndInv, [Next]_vars
    PROVE  EndStep
  <1>1. CASE UNCHANGED vars
    BY <1>1 DEF vars, EndStep, EndInv, ProofStep, At
  <1> QED BY <1>1, WorkerEnds, OthersEnd DEF Next

LEMMA EndInvariant == Spec => [](TypeInv /\ DialInv /\ EndInv)
  <1>1. Init => DialInv /\ EndInv
    BY DEF Init, DialInv, NeverRedialed, Untouched, DialingCall, At, Idle, EndInv, Settled, AbsentRow
  <1>2. TypeInv /\ TypeInv' /\ DialInv /\ [Next]_vars => DialInv'
    <2>1. CASE UNCHANGED vars
      BY <2>1 DEF vars, DialInv, NeverRedialed, Untouched, DialingCall, At
    <2> QED BY <2>1, WorkerKeepsDialInv, OthersKeepDialInv DEF Next
  <1>3. TypeInv /\ DialInv /\ EndInv /\ [Next]_vars => EndInv'
    BY EndIsInductive DEF EndStep
  <1> QED BY <1>1, <1>2, <1>3, TypeCorrect, PTL DEF Spec, TypeInv

\* finalized_at is set exactly when the terminal status and, for a call that
\* had media, its transcript are both in, in whichever order and however often
\* they came: provider_status, persist_raw and mark_dial_rejected agree on it.
THEOREM FinalizedOnBothFacts == Spec => []FinalizedExactly
  <1>1. EndInv => FinalizedExactly
    BY DEF EndInv, FinalizedExactly, Settled
  <1> QED BY <1>1, EndInvariant, PTL

\* No timer, cancellation request, crash or media socket makes a call
\* terminal: the step that does so has the carrier's end or refusal of the leg
\* behind it, or is the operator's resolve_stuck_call of that call.
THEOREM EndsOnProof == Spec => TerminalNeedsProof
  <1>1. TypeInv /\ DialInv /\ EndInv /\ [Next]_vars => ProofStep
    BY EndIsInductive DEF EndStep
  <1>2. Spec => [][ProofStep]_vars
    BY <1>1, EndInvariant, PTL DEF Spec
  <1> QED BY <1>2 DEF TerminalNeedsProof, ProofStep

----------------------------------------------------------------------------
(* The invariant of the rows                                               *)

\* A row that is gone is blank.  A call waiting for its dial is open, has no
\* SID and no media.  A row is out of the phone index only for a terminal
\* status or a transcript, and a transcript is written by a stream that closes.
\* A job is over only for a terminal call.
RowInv(c) ==
    LET r == calls[c] IN
    /\ ~Present(r) => r.queue_state = "none" /\ ~r.provider_terminal /\ r.attempts = 0
    /\ r.queue_state \in {"queued", "claimed"} =>
            Open(r) /\ ~r.provider_terminal /\ ~r.call_sid /\ media[c] = "none"
    /\ Present(r) /\ ~r.provider_terminal /\ ~RawPersisted(r) => Open(r)
    /\ RawPersisted(r) => r.media_connected /\ media[c] # "open"
    /\ r.queue_state = "terminal" => r.provider_terminal

\* Coordinators between the claim and the record of a refusal.
Submitting(w, c) == worker[w].pc \in {"dial", "reject"} /\ worker[w].call = c

\* One coordinator at most is at such a call, and it is not terminal unless
\* an operator said so; an operator's request is about a call that was queued,
\* and about to be finished when that call is terminal or its job gone.
ClaimInv ==
    /\ \A w \in Worker, c \in Call :
        Submitting(w, c) =>
            /\ \A v \in Worker \ {w} : ~Submitting(v, c)
            /\ calls[c].provider_terminal => "resolve" \in Commands
    /\ operator.pc # "idle" =>
        "resolve" \in Commands /\ calls[operator.call].lifecycle_state # "ABSENT"
    /\ operator.pc = "finish" =>
        \/ calls[operator.call].provider_terminal
        \/ calls[operator.call].queue_state = "none"

Rows == \A c \in Call : RowInv(c)

----------------------------------------------------------------------------
(* Every step, one row at a time                                           *)

\* A result recorded by the owner of the row's action lease.
ByOwner(c) == \E w \in Worker : calls[c].action_owner = w /\ worker'[w] # worker[w]

\* A coordinator records the refusal it met, and goes on.
ByRefused(c) ==
    \E w \in Worker : /\ At(w, "reject") /\ worker[w].call = c
                      /\ worker'[w].pc = "sweep"

ByOperator(c, pc) == operator.pc = pc /\ operator.call = c

\* The step writes no row but this one.
Alone(c) == \A d \in Call \ {c} : calls'[d] = calls[d]

Enqueued(c) ==
    /\ Alone(c)
    /\ calls[c].lifecycle_state = "ABSENT"
    /\ \A d \in SamePhone(c) : ~Unresolved(calls[d])
    /\ PhoneIndexFree(c)
    /\ calls'[c] = QueuedRow

\* What may happen to a row while its media socket stays as it is.
QueueStep(c) ==
    LET r == calls[c]
        t == calls'[c] IN
    \/ Resting(r, t)
    \/ Enqueued(c)
    \/ r.queue_state = "claimed" /\ Quarantined(r, t) /\ t.attempts = r.attempts
    \/ r.queue_state = "queued" /\ Claimed(r, t)
    \/ r.queue_state = "claimed" /\ leg[c] = "none" /\ Requeued(r, t)
    \/ Present(r) /\ Bound(r, t)
    \/ Present(r) /\ r.provider_terminal /\ Waiting(r, t)
    \/ /\ Present(r) /\ ~r.provider_terminal /\ IndexHolds(calls')
       /\ Quarantined(r, t) /\ (t.attempts = r.attempts \/ ByOwner(c))
    \/ Present(r) /\ ~r.provider_terminal /\ Retried(r, t) /\ ByOwner(c)
    \/ Present(r) /\ leg[c] = "refused" /\ ByRefused(c) /\ Rejected(r, t) /\ Alone(c)
    \/ /\ Present(r) /\ Alone(c)
       /\ \E s \in Ended : (leg[c] = s \/ ByOperator(c, "status")) /\ Finished(r, t, s)
    \/ Present(r) /\ ~r.provider_terminal /\ r.call_sid /\ Canceling(r, t)
    \/ Present(r) /\ ByOperator(c, "finish") /\ Resolved(r, t)
    \/ /\ r.lifecycle_state \in LIFECYCLE_TERMINAL /\ Commands # {}
       /\ t = DeletedRow

MediaStarts(c) ==
    /\ Present(calls[c]) /\ calls[c].call_sid
    /\ ~calls[c].media_connected /\ ~calls[c].provider_terminal
    /\ Connected(calls[c], calls'[c])
    /\ media'[c] = "open"

\* The row as a late transcript re-creates it.
Recreated(t) ==
    /\ t.lifecycle_state \in {"AI_FINISHED", "HUNG_UP", "FAILED"}
    /\ t.queue_state = "none" /\ ~t.provider_terminal /\ t.attempts = 0
    /\ t.media_connected /\ t.media_end_reason # "none"

MediaStops(c) ==
    /\ media[c] = "open" /\ media'[c] = "closed"
    /\ \/ calls'[c] = calls[c]
       \/ Present(calls[c]) /\ Persisted(calls[c], calls'[c])
       \/ ~Present(calls[c]) /\ PhoneIndexFree(c) /\ Recreated(calls'[c]) /\ Alone(c)

RowStep(c) ==
    \/ media'[c] = media[c] /\ QueueStep(c)
    \/ MediaStarts(c)
    \/ MediaStops(c)

----------------------------------------------------------------------------
(* The transactions, one by one                                            *)

LEMMA SameRowRests == \A r : Resting(r, r)
  BY DEF Resting, Kept, Alike, SameLife

\* A transaction that writes one row leaves the others alone.
LEMMA OneRow ==
    ASSUME calls \in Table, NEW c \in Call, NEW row, calls' = [calls EXCEPT ![c] = row]
    PROVE  calls'[c] = row /\ Alone(c)
  BY DEF Table, Alone

LEMMA ExpiryStep ==
    ASSUME calls \in Table, Rows, NEW c \in Call
    PROVE  LET t == ExpireClaims(calls)[c] IN
           \/ t = calls[c]
           \/ /\ calls[c].queue_state = "claimed" /\ Quarantined(calls[c], t)
              /\ t.attempts = calls[c].attempts
  <1>1. calls[c] \in Row
    BY DEF Table
  <1>2. ClaimExpired(calls[c]) => calls[c].queue_state = "claimed" /\ ~calls[c].call_sid
    BY DEF ClaimExpired, Rows, RowInv
  <1> QED BY <1>1, <1>2, RowChanges DEF ExpireClaims

\* claim_job: the quarantine of expired claims, and the claim of a queued row.
LEMMA ClaimJobStep ==
    ASSUME calls \in Table, Rows, NEW w \in Worker, NEW e \in Call, UNCHANGED media,
           ClaimJob(w, e) \/ ClaimNothing,
           NEW c \in Call
    PROVE  RowStep(c)
  <1> DEFINE table == ExpireClaims(calls)
  <1>1. /\ calls[c] \in Row /\ table \in Table
        /\ \/ table[c] = calls[c]
           \/ /\ calls[c].queue_state = "claimed" /\ Quarantined(calls[c], table[c])
              /\ table[c].attempts = calls[c].attempts
    BY WholeTableTypes, ExpiryStep DEF Table
  <1>2. CASE calls'[c] = table[c]
    BY <1>1, <1>2, SameRowRests DEF RowStep, QueueStep
  <1>3. CASE ClaimJob(w, e) /\ c = e
    <2>1. table[c].queue_state = "queued"
      BY <1>3 DEF ClaimJob, Queued
    <2>2. table[c] = calls[c]
      BY <1>1, <2>1 DEF Quarantined, JobGoes
    <2>3. calls'[c] = ClaimRow(calls[c], w)
      <3>1. calls' = [table EXCEPT ![c] = ClaimRow(table[c], w)]
        BY <1>3 DEF ClaimJob
      <3> HIDE DEF table
      <3> QED BY <1>1, <2>2, <3>1 DEF Table
    <2> QED BY <1>1, <2>1, <2>2, <2>3, RowChangesWith DEF RowStep, QueueStep
  <1>4. ClaimJob(w, e) /\ c # e => calls'[c] = table[c]
    <2> SUFFICES ASSUME ClaimJob(w, e), c # e PROVE calls'[c] = table[c]
      OBVIOUS
    <2>1. calls' = [table EXCEPT ![e] = ClaimRow(table[e], w)]
      BY DEF ClaimJob
    <2> HIDE DEF table
    <2> QED BY <1>1, <2>1 DEF Table
  <1>5. ClaimNothing => calls'[c] = table[c]
    BY DEF ClaimNothing
  <1> QED BY <1>2, <1>3, <1>4, <1>5

LEMMA OneRowStep ==
    ASSUME calls \in Table, NEW e \in Call, NEW row, calls' = [calls EXCEPT ![e] = row],
           UNCHANGED media, calls'[e] = row /\ Alone(e) => QueueStep(e),
           NEW c \in Call
    PROVE  RowStep(c)
  BY OneRow, SameRowRests DEF RowStep, QueueStep, Alone

LEMMA NoRowStep ==
    ASSUME UNCHANGED <<calls, media>>, NEW c \in Call
    PROVE  RowStep(c)
  BY SameRowRests DEF RowStep, QueueStep

\* bind_call_sid, by the dial or by a flow request.
LEMMA BindStep ==
    ASSUME calls \in Table, Rows, NEW e \in Call, UNCHANGED media,
           BindCallSid(e) \/ BindRefused(e),
           NEW c \in Call
    PROVE  RowStep(c)
  <1>1. calls[e] \in Row
    BY DEF Table
  <1>2. CASE BindCallSid(e)
    <2>1. Present(calls[e]) /\ Bound(calls[e], BindRow(calls[e]))
      BY <1>1, <1>2, RowChanges DEF BindCallSid, Bindable
    <2> QED BY <1>2, <2>1, OneRowStep DEF BindCallSid, QueueStep
  <1>3. CASE BindRefused(e) /\ Present(calls[e])
    <2>1. calls[e].provider_terminal /\ Waiting(calls[e], MarkReconciliation(calls[e]))
      BY <1>1, <1>3, RowChanges DEF BindRefused, Bindable
    <2> QED BY <1>3, <2>1, OneRowStep DEF BindRefused, QueueStep
  <1>4. CASE BindRefused(e) /\ ~Present(calls[e])
    BY <1>4, NoRowStep DEF BindRefused
  <1> QED BY <1>2, <1>3, <1>4

LEMMA DialRowSteps ==
    ASSUME TypeInv, DialInv, EndInv, Rows, NEW w \in Worker, Dialing(w), NEW c \in Call
    PROVE  RowStep(c)
  <1> DEFINE e == worker[w].call
  <1>1. /\ calls \in Table /\ \A d \in Call : calls[d] \in Row
        /\ worker \in [Worker -> WorkerState]
        /\ worker[w].pc \notin {"sweep", "action", "claim"} => e \in Call
    BY DEF TypeInv, TypeOK, Table, HandsFull
  <1>2. CASE ShutDown(w)
    <2>1. e \in Call /\ leg[e] = "none" /\ UNCHANGED media
      BY <1>1, <1>2 DEF ShutDown, At, DialInv, NeverRedialed, DialingCall
    <2>2. CASE calls' = [calls EXCEPT ![e] = RelinquishedRow(calls[e])] /\ calls[e].queue_state = "claimed"
      BY <1>1, <2>1, <2>2, RowChanges, OneRowStep DEF QueueStep
    <2> QED BY <1>2, <2>1, <2>2, NoRowStep DEF ShutDown, RelinquishClaim
  <1>3. CASE Submit(w) \/ SubmitRefused(w) \/ SubmitLost(w) \/ Abandon(w)
    BY <1>3, NoRowStep DEF Submit, SubmitRefused, SubmitLost, Abandon
  <1>4. CASE Bind(w)
    BY <1>1, <1>4, BindStep, NoRowStep DEF Bind, At
  <1>5. CASE RecordAmbiguous(w)
    <2>1. /\ e \in Call /\ UNCHANGED media /\ Present(calls[e])
          /\ calls' = [calls EXCEPT ![e] = MarkReconciliation(calls[e])]
          /\ IndexHolds(calls')
      BY <1>1, <1>5 DEF RecordAmbiguous, At, MarkDialAmbiguous, Commit
    <2>2. IF calls[e].provider_terminal THEN Waiting(calls[e], MarkReconciliation(calls[e]))
          ELSE /\ Quarantined(calls[e], MarkReconciliation(calls[e]))
               /\ MarkReconciliation(calls[e]).attempts = calls[e].attempts
      BY <1>1, <2>1, RowChanges
    <2>3. calls'[e] = MarkReconciliation(calls[e]) => QueueStep(e)
      BY <2>1, <2>2 DEF QueueStep
    <2> QED BY <1>1, <2>1, <2>3, OneRowStep
  <1>6. CASE RecordRejected(w)
    <2>1. e \in Call /\ UNCHANGED media /\ leg[e] = "refused"
      BY <1>1, <1>6 DEF RecordRejected, At, EndInv
    <2>2. ByRefused(e)
      BY <1>1, <1>6, Moves DEF RecordRejected, ByRefused, PC
    <2>3. CASE Present(calls[e]) /\ calls' = [calls EXCEPT ![e] = RejectRow(calls[e])]
      <3>1. Rejected(calls[e], RejectRow(calls[e]))
        BY <1>1, <2>1, RowChanges
      <3>2. calls'[e] = RejectRow(calls[e]) /\ Alone(e) => QueueStep(e)
        BY <2>1, <2>2, <2>3, <3>1 DEF QueueStep
      <3> QED BY <1>1, <2>1, <2>3, <3>2, OneRowStep
    <2> QED BY <1>6, <2>1, <2>3, NoRowStep DEF RecordRejected, MarkDialRejected
  <1> QED BY <1>2, <1>3, <1>4, <1>5, <1>6 DEF Dialing

\* A terminal status, with the carrier's word or an operator's behind it.
LEMMA StatusStep ==
    ASSUME calls \in Table, NEW e \in Call, UNCHANGED media, NEW s \in Ended,
           NEW r \in Row, Present(calls[e]), r = calls[e] \/ Bound(calls[e], r),
           calls' = [calls EXCEPT ![e] = TerminalRow(r, s)],
           leg[e] = s \/ ByOperator(e, "status"),
           NEW c \in Call
    PROVE  RowStep(c)
  <1>1. Finished(r, TerminalRow(r, s), s)
    BY RowChangesWith DEF Ended
  <1>2. Finished(calls[e], TerminalRow(r, s), s)
    BY <1>1 DEF Bound, Alike, Finished, SameLife, JobGoes
  <1>3. calls'[e] = TerminalRow(r, s) /\ Alone(e) => QueueStep(e)
    BY <1>2 DEF QueueStep
  <1> QED BY <1>3, OneRowStep

LEMMA ReconcileRowSteps ==
    ASSUME TypeInv, EndInv, NEW w \in Worker, Reconciling(w), NEW c \in Call
    PROVE  RowStep(c)
  <1> DEFINE e == worker[w].call
  <1>1. /\ calls \in Table /\ \A d \in Call : calls[d] \in Row
        /\ worker \in [Worker -> WorkerState]
        /\ worker[w].pc \notin {"sweep", "action", "claim"} => e \in Call
    BY DEF TypeInv, TypeOK, Table, HandsFull
  <1>2. CASE FetchStatus(w) \/ RequestTerminal(w)
    BY <1>2, NoRowStep DEF FetchStatus, RequestTerminal
  <1>3. CASE RecordProof(w)
    <2>1. /\ e \in Call /\ UNCHANGED media
          /\ worker[w].seen \in Ended /\ leg[e] = worker[w].seen
      BY <1>1, <1>3 DEF RecordProof, At, EndInv, TypeInv, HandsFull
    <2>2. CASE /\ Present(calls[e])
               /\ calls' = [calls EXCEPT ![e] = TerminalRow(calls[e], worker[w].seen)]
      BY <1>1, <2>1, <2>2, StatusStep
    <2> QED BY <1>3, <2>1, <2>2, NoRowStep DEF RecordProof, ProvenStatus
  <1>4. CASE RecordResult(w)
    <2>1. e \in Call /\ UNCHANGED media
      BY <1>1, <1>4 DEF RecordResult, At
    <2>2. worker'[w] # worker[w]
      BY <1>1, <1>4 DEF RecordResult, Become, At
    <2>3. CASE /\ Present(calls[e]) /\ calls[e].action_owner = w /\ IndexHolds(calls')
               /\ calls' = [calls EXCEPT ![e] = ReconciledRow(calls[e])]
      <3>1. ByOwner(e)
        BY <2>2, <2>3 DEF ByOwner
      <3>2. IF calls[e].provider_terminal THEN Resting(calls[e], ReconciledRow(calls[e]))
            ELSE \/ Quarantined(calls[e], ReconciledRow(calls[e]))
                 \/ Retried(calls[e], ReconciledRow(calls[e]))
        BY <1>1, <2>1, RowChanges
      <3>3. calls'[e] = ReconciledRow(calls[e]) => QueueStep(e)
        BY <2>3, <3>1, <3>2 DEF QueueStep
      <3> QED BY <1>1, <2>1, <2>3, <3>3, OneRowStep
    <2> QED BY <1>4, <2>1, <2>3, NoRowStep DEF RecordResult, ReconciliationResult, Commit
  <1> QED BY <1>2, <1>3, <1>4 DEF Reconciling

LEMMA WorkerRowSteps ==
    ASSUME TypeInv, DialInv, EndInv, Rows, NEW w \in Worker, WorkerStep(w) \/ Crash(w),
           NEW c \in Call
    PROVE  RowStep(c)
  <1>1. calls \in Table /\ \A d \in Call : calls[d] \in Row
    BY DEF TypeInv, TypeOK, Table
  <1>2. CASE Sweep(w)
    <2>1. CASE QuarantineAbandonedJobs
      <3>1. CASE Abandoned(calls[c])
        <4>1. Present(calls[c]) /\ ~calls[c].provider_terminal
          BY <3>1 DEF Rows, RowInv, Abandoned, HoldsSlot, CAPACITY_STATES
        <4>2. calls'[c] = AbandonRow(calls[c]) /\ IndexHolds(calls') /\ UNCHANGED media
          BY <1>2, <2>1, <3>1 DEF QuarantineAbandonedJobs, Commit, Sweep
        <4> QED BY <1>1, <4>1, <4>2, RowChanges DEF RowStep, QueueStep
      <3>2. CASE ~Abandoned(calls[c])
        BY <1>2, <2>1, <3>2, SameRowRests DEF QuarantineAbandonedJobs, Commit, Sweep, RowStep, QueueStep
      <3> QED BY <3>1, <3>2
    <2> QED BY <1>2, <2>1, NoRowStep DEF Sweep
  <1>3. CASE TakeAction(w)
    <2>1. ASSUME NEW e \in Call, ClaimDueAction(w, e)
          PROVE  RowStep(c)
      <3>1. /\ UNCHANGED media /\ Present(calls[e])
            /\ ~calls[e].provider_terminal /\ calls[e].call_sid
            /\ calls' = [calls EXCEPT ![e] = ActionRow(calls[e], w)]
        BY <1>3, <2>1 DEF TakeAction, ClaimDueAction, Actionable
      <3>2. Canceling(calls[e], ActionRow(calls[e], w))
        BY <1>1, RowChangesWith
      <3>3. calls'[e] = ActionRow(calls[e], w) => QueueStep(e)
        BY <3>1, <3>2 DEF QueueStep
      <3> QED BY <1>1, <3>1, <3>3, OneRowStep
    <2> QED BY <1>3, <2>1, NoRowStep DEF TakeAction
  <1>4. CASE TakeJob(w)
    BY <1>1, <1>4, ClaimJobStep DEF TakeJob
  <1>5. CASE Crash(w)
    BY <1>5, NoRowStep DEF Crash
  <1> QED BY <1>2, <1>3, <1>4, <1>5, DialRowSteps, ReconcileRowSteps DEF WorkerStep

----------------------------------------------------------------------------
(* The carrier, the media sockets, the operator and the clock              *)

LEMMA MediaRowSteps ==
    ASSUME TypeInv, Rows, NEW e \in Call,
           StreamStart(e) \/ \E reason \in EndReason : StreamEnd(e, reason),
           NEW c \in Call
    PROVE  RowStep(c)
  <1>1. /\ calls \in Table /\ calls[e] \in Row
        /\ media \in [Call -> {"none", "open", "closed"}]
    BY DEF TypeInv, TypeOK, Table
  <1>2. ASSUME c # e PROVE RowStep(c)
    <2>1. media'[c] = media[c]
      BY <1>1, <1>2 DEF StreamStart, StreamEnd
    <2>2. calls'[c] = calls[c]
      <3>1. CASE ClaimMedia(e)
        BY <1>1, <1>2, <3>1 DEF ClaimMedia, Table
      <3>2. CASE \E reason \in EndReason : PersistRaw(e, reason)
        BY <1>1, <1>2, <3>2 DEF PersistRaw, Table
      <3> QED BY <3>1, <3>2 DEF StreamStart, StreamEnd
    <2> QED BY <2>1, <2>2, SameRowRests DEF RowStep, QueueStep
  <1>3. CASE StreamStart(e)
    <2> DEFINE row == [calls[e] EXCEPT !.media_connected = TRUE, !.lifecycle_state = "CONNECTED"]
    <2>1. /\ Present(calls[e]) /\ calls[e].call_sid
          /\ ~calls[e].media_connected /\ ~calls[e].provider_terminal
          /\ calls'[e] = row
          /\ media'[e] = "open"
      BY <1>1, <1>3 DEF StreamStart, ClaimMedia, Table
    <2>2. Connected(calls[e], row)
      BY <1>1, RowChangesWith
    <2> HIDE DEF row
    <2>3. MediaStarts(e)
      BY <2>1, <2>2 DEF MediaStarts
    <2> QED BY <1>2, <2>3 DEF RowStep
  <1>4. ASSUME NEW reason \in EndReason, StreamEnd(e, reason)
        PROVE  MediaStops(e)
    <2>1. /\ media[e] = "open" /\ media'[e] = "closed"
          /\ reason \in MediaEndReasons
      BY <1>1, <1>4, StoreAssumption DEF StreamEnd
    <2>2. CASE UNCHANGED calls
      BY <2>1, <2>2 DEF MediaStops
    <2>3. CASE Present(calls[e]) /\ PersistRaw(e, reason)
      <3>1. calls'[e] = PersistRow(calls[e], reason)
        BY <1>1, <2>3 DEF PersistRaw, Table
      <3> QED BY <1>1, <2>1, <2>3, <3>1, RowChangesWith DEF MediaStops
    <2>4. CASE ~Present(calls[e]) /\ PhoneIndexFree(e) /\ PersistRaw(e, reason)
      <3> DEFINE created == [AbsentRow EXCEPT !.lifecycle_state = "CREATED"]
      <3>1. /\ created \in Row
            /\ created.queue_state = "none" /\ ~created.provider_terminal
            /\ created.attempts = 0
        BY AbsentRowType, Words, ZenonT(40) DEF AbsentRow, Row
      <3>2. calls'[e] = PersistRow(created, reason)
        BY <1>1, <2>4 DEF PersistRaw, Table
      <3> HIDE DEF created
      <3>3. Persisted(created, calls'[e])
        BY <2>1, <3>1, <3>2, RowChangesWith
      <3>4. Recreated(calls'[e])
        BY <3>1, <3>3 DEF Persisted, Recreated
      <3>5. Alone(e)
        BY <1>1, <3>2, <2>4 DEF PersistRaw, Alone, Table
      <3> QED BY <2>1, <2>4, <3>4, <3>5 DEF MediaStops
    <2>5. ~Present(calls[e]) /\ ~PhoneIndexFree(e) /\ PersistRaw(e, reason) => UNCHANGED calls
      BY DEF PersistRaw
    <2> QED BY <1>4, <2>2, <2>3, <2>4, <2>5 DEF StreamEnd
  <1> QED BY <1>2, <1>3, <1>4 DEF RowStep

LEMMA CarrierRowSteps ==
    ASSUME TypeInv, Rows, NEW e \in Call, CarrierStep(e), NEW c \in Call
    PROVE  RowStep(c)
  <1>1. calls \in Table /\ calls[e] \in Row
    BY DEF TypeInv, TypeOK, Table
  <1>2. CASE Answer(e) \/ \E s \in Verdict : HangUp(e, s)
    BY <1>2, NoRowStep DEF Answer, HangUp
  <1>3. CASE FlowWebhook(e)
    BY <1>1, <1>3, BindStep DEF FlowWebhook
  <1>4. ASSUME NEW s \in Ended \cup {"in-progress"}, StatusWebhook(e, s)
        PROVE  RowStep(c)
    <2> DEFINE r == BindIfUnknown(calls[e])
    <2>1. /\ Present(calls[e]) /\ UNCHANGED media
          /\ r \in Row /\ (r = calls[e] \/ Bound(calls[e], r))
      BY <1>1, <1>4, RowChanges, DialRowTypes DEF StatusWebhook, WebhookStatus
    <2>2. CASE s \in Ended
      <3>1. leg[e] = s /\ calls' = [calls EXCEPT ![e] = TerminalRow(r, s)]
        BY <1>4, <2>2 DEF StatusWebhook, WebhookStatus, Ended, PROVIDER_TERMINAL
      <3> HIDE DEF r
      <3> QED BY <1>1, <2>1, <2>2, <3>1, StatusStep
    <2>3. CASE s = "in-progress"
      <3>1. calls' = [calls EXCEPT ![e] = r]
        BY <1>4, <2>3 DEF StatusWebhook, WebhookStatus, PROVIDER_TERMINAL
      <3> HIDE DEF r
      <3>2. calls'[e] = r => QueueStep(e)
        BY <2>1, SameRowRests DEF QueueStep
      <3> QED BY <1>1, <2>1, <3>1, <3>2, OneRowStep
    <2> QED BY <2>2, <2>3
  <1> QED BY <1>2, <1>3, <1>4, MediaRowSteps DEF CarrierStep

LEMMA OperatorRowSteps ==
    ASSUME TypeInv, Rows, OperatorStep, NEW c \in Call
    PROVE  RowStep(c)
  <1>1. /\ calls \in Table /\ \A d \in Call : calls[d] \in Row
        /\ operator.pc # "idle" => operator.call \in Call
        /\ operator.pc = "status" => operator.status \in Ended
    BY StoreAssumption DEF TypeInv, TypeOK, Table, HandsFull, Ended
  <1>2. ASSUME NEW e \in Call, Enqueue(e)
        PROVE  RowStep(c)
    <2>1. /\ UNCHANGED media /\ calls' = [calls EXCEPT ![e] = QueuedRow]
          /\ calls'[e] = QueuedRow => Enqueued(e)
      BY <1>1, <1>2 DEF Enqueue, EnqueueCall, Enqueued, Alone, Table
    <2>2. calls'[e] = QueuedRow => QueueStep(e)
      BY <2>1 DEF QueueStep
    <2> QED BY <1>1, <2>1, <2>2, OneRowStep
  <1>3. ASSUME NEW e \in Call, Delete(e)
        PROVE  RowStep(c)
    <2>1. /\ UNCHANGED media /\ calls' = [calls EXCEPT ![e] = DeletedRow]
          /\ calls[e].lifecycle_state \in LIFECYCLE_TERMINAL /\ Commands # {}
      BY <1>3 DEF Delete, DeleteCall
    <2>2. calls'[e] = DeletedRow => QueueStep(e)
      BY <2>1 DEF QueueStep
    <2> QED BY <1>1, <2>1, <2>2, OneRowStep
  <1>4. CASE \E e \in Call, s \in Verdict : ResolveBegin(e, s)
    BY <1>4, NoRowStep DEF ResolveBegin
  <1>5. CASE ResolveStatus
    <2> DEFINE e == operator.call
    <2>1. e \in Call /\ UNCHANGED media /\ operator.status \in Ended /\ ByOperator(e, "status")
      BY <1>1, <1>5 DEF ResolveStatus, ByOperator
    <2>2. CASE /\ Present(calls[e])
               /\ calls' = [calls EXCEPT ![e] = TerminalRow(calls[e], operator.status)]
      BY <1>1, <2>1, <2>2, StatusStep
    <2> QED BY <1>5, <2>1, <2>2, NoRowStep DEF ResolveStatus, ProvenStatus
  <1>6. CASE ResolveFinish
    <2> DEFINE e == operator.call
    <2>1. e \in Call /\ UNCHANGED media /\ ByOperator(e, "finish")
      BY <1>1, <1>6 DEF ResolveFinish, ByOperator
    <2>2. CASE Present(calls[e]) /\ calls' = [calls EXCEPT ![e] = ResolvedRow(calls[e])]
      <3>1. Resolved(calls[e], ResolvedRow(calls[e]))
        BY <1>1, <2>1, RowChanges
      <3>2. calls'[e] = ResolvedRow(calls[e]) => QueueStep(e)
        BY <2>1, <2>2, <3>1 DEF QueueStep
      <3> QED BY <1>1, <2>1, <2>2, <3>2, OneRowStep
    <2> QED BY <1>6, <2>1, <2>2, NoRowStep DEF ResolveFinish, FinishResolve
  <1>7. CASE Clear
    <2>1. /\ UNCHANGED media /\ Commands # {}
          /\ \/ calls'[c] = calls[c]
             \/ calls'[c] = DeletedRow /\ calls[c].lifecycle_state \in LIFECYCLE_TERMINAL
      BY <1>7 DEF Clear, ClearCalls
    <2> QED BY <2>1, SameRowRests DEF RowStep, QueueStep
  <1> QED BY <1>2, <1>3, <1>4, <1>5, <1>6, <1>7 DEF OperatorStep

LEMMA ClockRowSteps ==
    ASSUME TypeInv, NEW e \in Call, ClockTick(e), NEW c \in Call
    PROVE  RowStep(c)
  <1>1. \A d \in Call : calls[d] \in Row
    BY DEF TypeInv, TypeOK
  <1>2. Resting(calls[c], calls'[c]) /\ UNCHANGED media
    BY <1>1 DEF ClockTick, Clock, LeaseExpires, GraceElapses, DeadlinePasses,
       ActionLeaseExpires, BackoffElapses, TypeInv, TypeOK, Row, Resting, Kept, Alike, SameLife
  <1> QED BY <1>2 DEF RowStep, QueueStep

\* Whoever takes a step, it does to each row one of the things of RowStep.
LEMMA StepEffects ==
    ASSUME TypeInv, DialInv, EndInv, Rows, [Next]_vars, NEW c \in Call
    PROVE  RowStep(c)
  <1>1. CASE UNCHANGED vars
    BY <1>1, NoRowStep DEF vars
  <1> QED BY <1>1, WorkerRowSteps, CarrierRowSteps, OperatorRowSteps, ClockRowSteps DEF Next

----------------------------------------------------------------------------
(* The invariants                                                          *)

\* A call that was never queued, or waits in the queue, met no media yet.
LEMMA FreshIsSilent ==
    ASSUME TypeInv, DialInv, EndInv, NEW c \in Call, Fresh(calls[c])
    PROVE  media[c] = "none" /\ leg[c] = "none"
  BY DEF DialInv, Untouched, EndInv, Reached, Ended, PROVIDER_TERMINAL

LEMMA RowInvKept ==
    ASSUME TypeInv, TypeInv', DialInv, EndInv, Rows, ClaimInv, NEW c \in Call, RowStep(c)
    PROVE  RowInv(c)'
  <1> DEFINE r == calls[c]
             t == calls'[c]
             Keeps == media'[c] = media[c]
  <1>1. r \in Row /\ t \in Row /\ RowInv(c)
    BY DEF TypeInv, TypeOK, Rows
  <1>2. CASE Keeps /\ Resting(r, t)
    BY <1>1, <1>2 DEF RowInv, Resting, Kept, Alike, SameLife, Present, Open, RawPersisted
  <1>3. CASE Keeps /\ Enqueued(c)
    <2>1. media[c] = "none"
      BY <1>3, FreshIsSilent DEF Enqueued, Fresh
    <2>2. /\ t.lifecycle_state = "QUEUED" /\ t.queue_state = "queued"
          /\ ~t.provider_terminal /\ ~t.call_sid /\ t.media_end_reason = "none"
      BY <1>3 DEF Enqueued, QueuedRow, AbsentRow
    <2> QED BY <1>3, <2>1, <2>2 DEF RowInv, Present, Open, RawPersisted, NoRow, LIFECYCLE_TERMINAL
  <1>4. CASE Keeps /\ r.queue_state \in {"queued", "claimed"} /\ (Quarantined(r, t) \/ Claimed(r, t) \/ Requeued(r, t))
    BY <1>1, <1>4 DEF RowInv, Quarantined, Claimed, Requeued, Kept, Alike, JobGoes, Present, Open,
       RawPersisted, NoRow, LIFECYCLE_TERMINAL
  <1>5. CASE Keeps /\ Present(r) /\ (Bound(r, t) \/ Canceling(r, t) \/ Retried(r, t) \/ Waiting(r, t))
    BY <1>1, <1>5 DEF RowInv, Bound, Canceling, Retried, Waiting, Kept, Alike, SameLife, JobGoes,
       Present, Open, RawPersisted
  <1>6. CASE Keeps /\ Present(r) /\ Quarantined(r, t)
    BY <1>1, <1>6 DEF RowInv, Quarantined, Alike, JobGoes, Present, Open, RawPersisted, NoRow,
       LIFECYCLE_TERMINAL
  <1>7. CASE Keeps /\ Present(r) /\ Rejected(r, t)
    BY <1>1, <1>7 DEF RowInv, Rejected, JobGoes, Present, RawPersisted, NoRow
  <1>8. CASE Keeps /\ Present(r) /\ \E s \in Ended : Finished(r, t, s)
    BY <1>1, <1>8 DEF RowInv, Finished, Lifecycles, LifecycleOf, SameLife, JobGoes, Present,
       RawPersisted, NoRow
  <1>9. CASE Keeps /\ Present(r) /\ ByOperator(c, "finish") /\ Resolved(r, t)
    BY <1>1, <1>9 DEF RowInv, ClaimInv, ByOperator, Resolved, Kept, Alike, SameLife, JobGoes,
       Present, Open, RawPersisted
  <1>10. CASE Keeps /\ t = DeletedRow
    BY <1>10 DEF RowInv, DeletedRow, AbsentRow, Present, NoRow, RawPersisted
  <1>11. CASE MediaStarts(c)
    BY <1>1, <1>11 DEF MediaStarts, Connected, RowInv, Present, Open, RawPersisted, NoRow,
       LIFECYCLE_TERMINAL
  <1>12. CASE MediaStops(c)
    BY <1>1, <1>12 DEF MediaStops, Persisted, Recreated, SameLife, RowInv, Present, Open,
       RawPersisted, NoRow, LIFECYCLE_TERMINAL
  <1> QED
    BY <1>2, <1>3, <1>4, <1>5, <1>6, <1>7, <1>8, <1>9, <1>10, <1>11, <1>12 DEF RowStep, QueueStep

\* What a step may not do to a row: bring back one that was never queued, take
\* back a terminal status or give a new job to a call that was queued, but for
\* a deletion; and it makes a call terminal for one of three reasons.
LEMMA RowsGoOn ==
    ASSUME TypeInv, Rows, NEW c \in Call, RowStep(c)
    PROVE  /\ calls'[c].lifecycle_state = "ABSENT" => calls[c].lifecycle_state = "ABSENT"
           /\ calls[c].provider_terminal =>
                calls'[c].provider_terminal \/ calls'[c] = DeletedRow
           /\ calls[c].queue_state = "none" /\ calls[c].lifecycle_state # "ABSENT" =>
                calls'[c].queue_state = "none"
           /\ ~calls[c].provider_terminal /\ calls'[c].provider_terminal =>
                \/ leg[c] = "refused" /\ ByRefused(c)
                \/ leg[c] \in Ended
                \/ ByOperator(c, "status")
  <1> DEFINE r == calls[c]
             t == calls'[c]
             Keeps == media'[c] = media[c]
             Goal == /\ t.lifecycle_state = "ABSENT" => r.lifecycle_state = "ABSENT"
                     /\ r.provider_terminal => t.provider_terminal \/ t = DeletedRow
                     /\ r.queue_state = "none" /\ r.lifecycle_state # "ABSENT" =>
                            t.queue_state = "none"
                     /\ ~r.provider_terminal /\ t.provider_terminal =>
                            \/ leg[c] = "refused" /\ ByRefused(c)
                            \/ leg[c] \in Ended
                            \/ ByOperator(c, "status")
  <1>1. r \in Row /\ RowInv(c)
    BY DEF TypeInv, TypeOK, Rows
  <1>2. CASE Resting(r, t) \/ Waiting(r, t) \/ Bound(r, t) \/ Retried(r, t) \/ Canceling(r, t)
             \/ Resolved(r, t)
    BY <1>2 DEF Resting, Waiting, Bound, Retried, Canceling, Resolved, Kept, Alike, SameLife, JobGoes
  <1>3. CASE Quarantined(r, t) \/ Requeued(r, t) \/ (r.queue_state = "queued" /\ Claimed(r, t))
    BY <1>3 DEF Quarantined, Requeued, Claimed, Kept, Alike, JobGoes
  <1>4. CASE Enqueued(c) \/ t = DeletedRow
    BY <1>1, <1>4 DEF Enqueued, QueuedRow, DeletedRow, AbsentRow, RowInv, Present, NoRow
  <1>5. CASE leg[c] = "refused" /\ ByRefused(c) /\ Rejected(r, t)
    BY <1>5 DEF Rejected, JobGoes
  <1>6. CASE \E s \in Ended : (leg[c] = s \/ ByOperator(c, "status")) /\ Finished(r, t, s)
    BY <1>6 DEF Finished, SameLife, JobGoes, Lifecycles, LifecycleOf
  <1>7. CASE MediaStarts(c) \/ MediaStops(c)
    BY <1>1, <1>7 DEF MediaStarts, MediaStops, Connected, Persisted, Recreated, SameLife, RowInv
  <1>8. Goal
    BY <1>2, <1>3, <1>4, <1>5, <1>6, <1>7 DEF RowStep, QueueStep
  <1> QED BY <1>8

\* A coordinator comes to a submission from a claim, or to the record of a
\* refusal from the submission; the others stay where they are.
LEMMA SubmittersMove ==
    ASSUME TypeInv, [Next]_vars
    PROVE  \E w : /\ \A v \in Worker \ {w} : worker'[v] = worker[v]
                  /\ w \in Worker /\ worker'[w].pc \in {"dial", "reject"} =>
                        \/ worker'[w] = worker[w]
                        \/ /\ worker[w].pc = "dial" /\ worker'[w].call = worker[w].call
                           /\ UNCHANGED <<calls, operator>>
                        \/ /\ worker'[w].pc = "dial" /\ UNCHANGED <<leg, operator>>
                           /\ worker'[w].call \in Call
                           /\ ExpireClaims(calls)[worker'[w].call].queue_state = "queued"
  <1>1. worker \in [Worker -> WorkerState]
    BY DEF TypeInv, TypeOK
  <1>2. ASSUME NEW w \in Worker, WorkerStep(w) \/ Crash(w)
        PROVE  /\ \A v \in Worker \ {w} : worker'[v] = worker[v]
               /\ worker'[w].pc \in {"dial", "reject"} =>
                        \/ worker[w].pc = "dial" /\ worker'[w].call = worker[w].call
                           /\ UNCHANGED <<calls, operator>>
                        \/ /\ worker'[w].pc = "dial" /\ UNCHANGED <<leg, operator>>
                           /\ worker'[w].call \in Call
                           /\ ExpireClaims(calls)[worker'[w].call].queue_state = "queued"
    <2> DEFINE Goal == /\ \A v \in Worker \ {w} : worker'[v] = worker[v]
                       /\ worker'[w].pc \in {"dial", "reject"} =>
                          \/ worker[w].pc = "dial" /\ worker'[w].call = worker[w].call
                             /\ UNCHANGED <<calls, operator>>
                          \/ /\ worker'[w].pc = "dial" /\ UNCHANGED <<leg, operator>>
                             /\ worker'[w].call \in Call
                             /\ ExpireClaims(calls)[worker'[w].call].queue_state = "queued"
    <2>1. ASSUME NEW pc \in PC \ {"dial", "reject"}, Goto(w, pc)
          PROVE  Goal
      BY <1>1, <2>1 DEF Goto, WorkerState
    <2>2. ASSUME NEW pc \in PC \ {"dial", "reject"}, NEW d, NEW s, Become(w, pc, d, s)
          PROVE  Goal
      BY <1>1, <2>2 DEF Become, WorkerState
    <2>3. ASSUME NextIteration(w)
          PROVE  Goal
      BY <1>1, <2>3 DEF NextIteration, Idle, WorkerState
    <2>4. CASE TakeJob(w)
      <3>1. ASSUME NEW d \in Call, ClaimJob(w, d), Become(w, "dial", d, "none")
            PROVE  Goal
        <4>1. worker'[w].pc = "dial" /\ worker'[w].call = d
              /\ \A v \in Worker \ {w} : worker'[v] = worker[v]
          BY <1>1, <3>1 DEF Become, WorkerState
        <4>2. ExpireClaims(calls)[d].queue_state = "queued"
          BY <3>1 DEF ClaimJob, Queued
        <4> QED BY <2>4, <4>1, <4>2 DEF TakeJob
      <3> QED BY <2>3, <2>4, <3>1 DEF TakeJob
    <2>5. CASE SubmitRefused(w)
      <3>1. /\ worker'[w].pc = "reject" /\ worker'[w].call = worker[w].call
            /\ \A v \in Worker \ {w} : worker'[v] = worker[v]
        BY <1>1, <2>5 DEF SubmitRefused, Goto, WorkerState
      <3> QED BY <2>5, <3>1 DEF SubmitRefused, At
    <2>6. CASE Sweep(w) \/ TakeAction(w)
      BY <2>1, <2>2, <2>6 DEF Sweep, TakeAction, PC
    <2>7. CASE ShutDown(w) \/ Submit(w) \/ SubmitLost(w) \/ Bind(w) \/ RecordAmbiguous(w)
               \/ RecordRejected(w) \/ Abandon(w) \/ Crash(w)
      BY <2>1, <2>3, <2>7 DEF ShutDown, Submit, SubmitLost, Bind, RecordAmbiguous, RecordRejected,
         Abandon, Crash, PC
    <2>8. CASE Reconciling(w)
      BY <2>1, <2>2, <2>8 DEF Reconciling, FetchStatus, RequestTerminal, RecordProof, RecordResult, PC
    <2> QED BY <1>2, <2>4, <2>5, <2>6, <2>7, <2>8 DEF WorkerStep, Dialing
  <1>3. (~\E w \in Worker : WorkerStep(w) \/ Crash(w)) => UNCHANGED worker
    BY DEF Next, vars, OperatorStep, Enqueue, Delete, ResolveBegin, ResolveStatus, ResolveFinish,
       Clear, CarrierStep, Answer, HangUp, StatusWebhook, FlowWebhook, StreamStart, StreamEnd,
       ClockTick
  <1> QED BY <1>2, <1>3

\* Who submits next did so before, or comes to an untouched call.
LEMMA SubmittersKept ==
    ASSUME TypeInv, DialInv, EndInv, Rows, ClaimInv, [Next]_vars,
           NEW w \in Worker, NEW c \in Call, Submitting(w, c)'
    PROVE  /\ \A v \in Worker \ {w} : ~Submitting(v, c)'
           /\ calls'[c].provider_terminal => "resolve" \in Commands
  <1> DEFINE Came == /\ worker'[w].pc = "dial" /\ UNCHANGED <<leg, operator>>
                     /\ ExpireClaims(calls)[c].queue_state = "queued"
  <1>1. ASSUME NEW v \in Worker, Submitting(v, c)', ~Submitting(v, c)
        PROVE  /\ \A u \in Worker \ {v} : worker'[u] = worker[u]
               /\ UNCHANGED operator
               /\ ExpireClaims(calls)[c].queue_state = "queued"
    BY <1>1, SubmittersMove DEF Submitting
  <1>2. ASSUME ExpireClaims(calls)[c].queue_state = "queued"
        PROVE  /\ calls[c].queue_state = "queued"
               /\ leg[c] = "none"
               /\ \A v \in Worker : ~Submitting(v, c)
    <2>1. calls[c].queue_state = "queued"
      BY <1>2, ExpiryStep DEF Quarantined, JobGoes, TypeInv, TypeOK, Table
    <2>2. leg[c] = "none" /\ Untouched(c)
      BY <2>1, FreshIsSilent DEF Fresh, DialInv
    <2>3. \A v \in Worker : ~Submitting(v, c)
      BY <2>2 DEF Untouched, DialingCall, Submitting, At, EndInv
    <2> QED BY <2>1, <2>2, <2>3
  <1>3. \A v \in Worker \ {w} : ~Submitting(v, c)'
    <2> SUFFICES ASSUME NEW v \in Worker \ {w}, Submitting(v, c)' PROVE FALSE
      OBVIOUS
    <2>1. CASE Submitting(w, c)
      <3>1. ~Submitting(v, c)
        BY <2>1 DEF ClaimInv
      <3> QED BY <1>1, <1>2, <2>1, <3>1
    <2>2. CASE ~Submitting(w, c)
      <3>1. Submitting(v, c)
        BY <1>1, <2>2 DEF Submitting
      <3> QED BY <1>1, <1>2, <2>2, <3>1
    <2> QED BY <2>1, <2>2
  <1>4. calls'[c].provider_terminal => "resolve" \in Commands
    <2> SUFFICES ASSUME calls'[c].provider_terminal PROVE "resolve" \in Commands
      OBVIOUS
    <2>1. RowStep(c)
      BY StepEffects
    <2>2. CASE ByOperator(c, "status")
      BY <2>2 DEF ByOperator, ClaimInv
    <2>3. CASE calls[c].provider_terminal
      <3>1. Submitting(w, c)
        BY <1>1, <1>2, <2>3 DEF Rows, RowInv
      <3> QED BY <2>3, <3>1 DEF ClaimInv
    <2>4. CASE ~calls[c].provider_terminal /\ leg[c] \in Ended
      <3>1. Submitting(w, c)
        BY <1>1, <1>2, <2>4 DEF Ended, PROVIDER_TERMINAL
      <3>2. leg[c] \in {"none", "refused"}
        BY <3>1 DEF Submitting, DialInv, NeverRedialed, DialingCall, At, EndInv
      <3> QED BY <2>4, <3>2 DEF Ended, PROVIDER_TERMINAL
    <2>5. CASE leg[c] = "refused" /\ ByRefused(c)
      <3>1. PICK v \in Worker : At(v, "reject") /\ worker[v].call = c /\ worker'[v].pc = "sweep"
        BY <2>5 DEF ByRefused
      <3>2. v # w /\ Submitting(v, c)
        BY <3>1 DEF Submitting, At
      <3>3. ~Submitting(w, c)
        BY <3>2 DEF ClaimInv
      <3> QED BY <1>1, <1>2, <2>5, <3>3
    <2> QED BY <2>1, <2>2, <2>3, <2>4, <2>5, RowsGoOn
  <1> QED BY <1>3, <1>4

LEMMA RequestKept ==
    ASSUME TypeInv, DialInv, EndInv, Rows, ClaimInv, [Next]_vars
    PROVE  /\ operator'.pc # "idle" =>
                "resolve" \in Commands /\ calls'[operator'.call].lifecycle_state # "ABSENT"
           /\ operator'.pc = "finish" =>
                \/ calls'[operator'.call].provider_terminal
                \/ calls'[operator'.call].queue_state = "none"
  <1>1. /\ operator \in OperatorState /\ calls \in Table
        /\ operator.pc # "idle" => operator.call \in Call
        /\ operator.pc = "status" => operator.status \in Ended
    BY StoreAssumption DEF TypeInv, TypeOK, HandsFull, Table, Ended
  <1>2. CASE UNCHANGED operator
    <2> DEFINE c == operator.call
    <2>1. CASE operator.pc = "idle"
      BY <1>2, <2>1
    <2>2. CASE operator.pc # "idle"
      <3>1. c \in Call /\ RowStep(c)
        BY <1>1, <2>2, StepEffects
      <3>2. DeletedRow.queue_state = "none"
        BY DEF DeletedRow, AbsentRow
      <3> QED BY <1>2, <2>2, <3>1, <3>2, RowsGoOn DEF ClaimInv
    <2> QED BY <2>1, <2>2
  <1>3. ASSUME NEW c \in Call, NEW s \in Verdict, ResolveBegin(c, s)
        PROVE  /\ operator'.pc = "status" /\ operator'.call = c /\ "resolve" \in Commands
               /\ calls'[c].lifecycle_state # "ABSENT"
    BY <1>3 DEF ResolveBegin, Present, NoRow
  <1>4. CASE ResolveStatus
    <2> DEFINE c == operator.call
    <2>1. c \in Call /\ "resolve" \in Commands /\ calls[c].lifecycle_state # "ABSENT"
      BY <1>1, <1>4 DEF ResolveStatus, ClaimInv
    <2>2. operator'.pc = "finish" /\ operator'.call = c
      BY <1>1, <1>4 DEF ResolveStatus, OperatorState
    <2>3. calls'[c].lifecycle_state # "ABSENT"
      BY <2>1, StepEffects, RowsGoOn
    <2>4. calls'[c].provider_terminal \/ calls'[c].queue_state = "none"
      <3>1. CASE Present(calls[c])
        <4>1. calls[c] \in Row /\ calls'[c] = TerminalRow(calls[c], operator.status)
          BY <1>1, <1>4, <2>1, <3>1 DEF ResolveStatus, ProvenStatus, Table
        <4>2. Finished(calls[c], calls'[c], operator.status)
          BY <1>1, <1>4, <4>1, RowChangesWith DEF ResolveStatus, Ended
        <4> QED BY <4>2 DEF Finished
      <3>2. CASE ~Present(calls[c])
        BY <1>4, <2>1, <3>2 DEF ResolveStatus, ProvenStatus, Rows, RowInv
      <3> QED BY <3>1, <3>2
    <2> QED BY <2>1, <2>2, <2>3, <2>4
  <1>5. CASE ResolveFinish
    BY <1>5 DEF ResolveFinish, NoRequest
  <1>6. \/ UNCHANGED operator \/ ResolveStatus \/ ResolveFinish
        \/ \E c \in Call, s \in Verdict : ResolveBegin(c, s)
    BY DEF Next, vars, WorkerStep, Dialing, Reconciling, Sweep, TakeAction, TakeJob, ShutDown, Submit,
       SubmitRefused, SubmitLost, Bind, RecordAmbiguous, RecordRejected, Abandon, FetchStatus,
       RequestTerminal, RecordProof, RecordResult, Crash, CarrierStep, Answer, HangUp,
       StatusWebhook, FlowWebhook, StreamStart, StreamEnd, OperatorStep, Enqueue, Delete, Clear,
       ClockTick
  <1> QED BY <1>2, <1>3, <1>4, <1>5, <1>6

LEMMA ClaimInvKept ==
    ASSUME TypeInv, DialInv, EndInv, Rows, ClaimInv, [Next]_vars
    PROVE  ClaimInv'
  BY SubmittersKept, RequestKept DEF ClaimInv

CallInv == TypeInv /\ DialInv /\ EndInv /\ Rows /\ ClaimInv

LEMMA CallInvariant == Spec => []CallInv
  <1>1. Init => Rows /\ ClaimInv
    BY DEF Init, Rows, RowInv, ClaimInv, Submitting, AbsentRow, Present, NoRow, RawPersisted, Idle,
       NoRequest
  <1>2. TypeInv /\ DialInv /\ EndInv /\ TypeInv' /\ Rows /\ ClaimInv /\ [Next]_vars => Rows' /\ ClaimInv'
    BY StepEffects, RowInvKept, ClaimInvKept DEF Rows
  <1> QED BY <1>1, <1>2, EndInvariant, PTL DEF Spec, CallInv

----------------------------------------------------------------------------
(* What follows from the kinds of change                                   *)

\* A row enters the phone index alone and on a free phone, or in a
\* transaction that checks the index.
LEMMA RowsOpen ==
    ASSUME TypeInv, Rows, NEW c \in Call, RowStep(c), Open(calls'[c])
    PROVE  \/ Open(calls[c])
           \/ PhoneIndexFree(c) /\ Alone(c)
           \/ IndexHolds(calls')
  <1> DEFINE r == calls[c]
             t == calls'[c]
  <1>1. r \in Row /\ RowInv(c)
    BY DEF TypeInv, TypeOK, Rows
  <1>2. CASE Resting(r, t) \/ Waiting(r, t) \/ Bound(r, t) \/ Retried(r, t) \/ Canceling(r, t)
             \/ Resolved(r, t)
    BY <1>2 DEF Resting, Waiting, Bound, Retried, Canceling, Resolved, SameLife, Open, Present
  <1>3. CASE r.queue_state \in {"queued", "claimed"}
    BY <1>1, <1>3 DEF RowInv
  <1>4. CASE t = DeletedRow
    BY <1>4 DEF DeletedRow, AbsentRow, Open, Present, NoRow
  <1>5. CASE Rejected(r, t)
    BY <1>5 DEF Rejected, Open, LIFECYCLE_TERMINAL
  <1>6. CASE \E s \in Ended : Finished(r, t, s)
    BY <1>6 DEF Finished, SameLife, Open, Present, Lifecycles, LifecycleOf, LIFECYCLE_TERMINAL
  <1>7. CASE MediaStarts(c)
    BY <1>1, <1>7 DEF MediaStarts, RowInv
  <1>8. CASE MediaStops(c)
    BY <1>1, <1>8 DEF MediaStops, Persisted, SameLife, RowInv, Open, Present
  <1> QED
    BY <1>2, <1>3, <1>4, <1>5, <1>6, <1>7, <1>8 DEF RowStep, QueueStep, Enqueued

\* The unique index one_active_phone is never broken, and outside the
\* transactions that may be refused by it no statement of sqlite_store.py ever
\* runs into it - with deletions, and with rows that a late transcript
\* re-creates while another call of the phone is open.
THEOREM PhoneIndexIsKept == Spec => []PhoneIndexHolds
  <1>1. Init => PhoneIndexHolds
    BY DEF Init, PhoneIndexHolds, IndexHolds, Open, Present, AbsentRow, NoRow
  <1>2. CallInv /\ PhoneIndexHolds /\ [Next]_vars => PhoneIndexHolds'
    <2> SUFFICES ASSUME CallInv, PhoneIndexHolds, [Next]_vars, ~PhoneIndexHolds'
                 PROVE  FALSE
      OBVIOUS
    <2>1. PICK c \in Call, d \in Call :
              Open(calls'[c]) /\ Open(calls'[d]) /\ PhoneOf[c] = PhoneOf[d] /\ c # d
      BY DEF PhoneIndexHolds, IndexHolds
    <2>2. ~IndexHolds(calls')
      BY DEF PhoneIndexHolds
    <2>3. \A e \in Call : Open(calls'[e]) => Open(calls[e]) \/ (PhoneIndexFree(e) /\ Alone(e))
      BY <2>2, StepEffects, RowsOpen DEF CallInv
    <2>4. ~(Open(calls[c]) /\ Open(calls[d]))
      BY <2>1 DEF PhoneIndexHolds, IndexHolds
    <2>5. ASSUME NEW e \in Call, NEW f \in Call, e # f, PhoneOf[e] = PhoneOf[f],
                 Open(calls'[e]), Open(calls'[f]), ~Open(calls[e])
          PROVE  FALSE
      <3>1. PhoneIndexFree(e) /\ calls'[f] = calls[f]
        BY <2>3, <2>5 DEF Alone
      <3> QED BY <2>5, <3>1 DEF PhoneIndexFree, SamePhone
    <2> QED BY <2>1, <2>4, <2>5
  <1> QED BY <1>1, <1>2, CallInvariant, PTL DEF Spec

\* A terminal row keeps its lifecycle and outcome.
Sticks(c) ==
    calls[c].provider_terminal /\ Present(calls'[c]) =>
        /\ calls'[c].provider_terminal
        /\ \/ /\ calls'[c].lifecycle_state = calls[c].lifecycle_state
              /\ calls'[c].outcome = calls[c].outcome
           \/ leg[c] = "refused" /\ "resolve" \in Commands

LEMMA TerminalRowsStay ==
    ASSUME CallInv, [Next]_vars, NEW c \in Call
    PROVE  Sticks(c)
  <1> DEFINE r == calls[c]
             t == calls'[c]
  <1> SUFFICES ASSUME r.provider_terminal, Present(t)
               PROVE  /\ t.provider_terminal
                      /\ \/ t.lifecycle_state = r.lifecycle_state /\ t.outcome = r.outcome
                         \/ leg[c] = "refused" /\ "resolve" \in Commands
    BY DEF Sticks
  <1>1. /\ r \in Row /\ RowInv(c) /\ RowStep(c)
        /\ r.queue_state \notin {"queued", "claimed"} /\ Present(r)
    BY StepEffects DEF CallInv, TypeInv, TypeOK, Rows, RowInv
  <1>2. CASE Resting(r, t) \/ Waiting(r, t) \/ Bound(r, t) \/ Resolved(r, t)
    BY <1>2 DEF Resting, Waiting, Bound, Resolved, Kept, Alike, SameLife
  <1>3. CASE ByRefused(c) /\ leg[c] = "refused" /\ Rejected(r, t)
    <2>1. "resolve" \in Commands
      BY <1>3 DEF ByRefused, CallInv, ClaimInv, Submitting, At
    <2> QED BY <1>3, <2>1 DEF Rejected
  <1>4. CASE \E s \in Ended : Finished(r, t, s)
    BY <1>4 DEF Finished, SameLife
  <1>5. CASE MediaStops(c)
    BY <1>1, <1>5 DEF MediaStops, Persisted, SameLife
  <1>6. ~Enqueued(c) /\ t # DeletedRow
    BY <1>1 DEF Enqueued, Present, NoRow, DeletedRow, AbsentRow
  <1> QED BY <1>1, <1>2, <1>3, <1>4, <1>5, <1>6 DEF RowStep, QueueStep, MediaStarts

\* Once a terminal status is recorded the lifecycle and the outcome of the call
\* stand, against late and repeated webhooks, the answers of coordinators that
\* lost their lease, transcripts, binds and the operator; only a refusal that
\* was on its way when an operator resolved the call replaces them.
THEOREM VerdictStands == Spec => TerminalIsSticky
  <1>1. CallInv /\ [Next]_vars => \A c \in Call : Sticks(c)
    BY TerminalRowsStay
  <1>2. Spec => [][\A c \in Call : Sticks(c)]_vars
    BY <1>1, CallInvariant, PTL DEF Spec
  <1> QED BY <1>2 DEF TerminalIsSticky, Sticks

\* No slot of the dial ceiling leaks or is freed silently: whatever frees one
\* leaves the call terminal, back in the queue and never submitted, or on the
\* operator's reconciliation list.
THEOREM SlotsAreAccounted == Spec => SlotReleaseIsAccounted
  <1> DEFINE Accounted(c) ==
        HoldsSlot(calls[c]) /\ ~HoldsSlot(calls'[c]) /\ Present(calls'[c]) =>
            \/ calls'[c].provider_terminal
            \/ calls'[c].queue_state = "queued" /\ leg[c] = "none"
            \/ calls'[c].reconciliation /\ calls'[c].queue_state = "needs_reconciliation"
  <1>1. ASSUME CallInv, [Next]_vars, NEW c \in Call
        PROVE  Accounted(c)
    <2> DEFINE r == calls[c]
               t == calls'[c]
    <2> SUFFICES ASSUME HoldsSlot(r), ~HoldsSlot(t), Present(t)
                 PROVE  Accounted(c)
      OBVIOUS
    <2>1. /\ r \in Row /\ t.queue_state # r.queue_state /\ RowInv(c) /\ RowStep(c)
          /\ r.queue_state \notin {"none", "queued"}
      BY <1>1, StepEffects DEF CallInv, TypeInv, TypeOK, Rows, HoldsSlot, CAPACITY_STATES
    <2>2. CASE Quarantined(r, t) \/ Rejected(r, t) \/ \E s \in Ended : Finished(r, t, s)
      BY <2>1, <2>2 DEF Quarantined, Rejected, Finished, JobGoes
    <2>3. CASE leg[c] = "none" /\ Requeued(r, t)
      BY <2>1, <2>3 DEF Requeued, JobGoes
    <2>4. CASE r.provider_terminal /\ Waiting(r, t)
      BY <2>4 DEF Waiting, Kept, Alike
    <2>5. CASE ByOperator(c, "finish") /\ Resolved(r, t)
      BY <1>1, <2>1, <2>5 DEF ByOperator, CallInv, ClaimInv, Resolved, Kept, Alike
    <2>6. /\ ~Resting(r, t) /\ ~Bound(r, t) /\ ~Retried(r, t) /\ ~Canceling(r, t)
          /\ ~MediaStarts(c) /\ ~Enqueued(c) /\ t # DeletedRow
      BY <2>1 DEF Resting, Bound, Retried, Canceling, JobGoes, HoldsSlot, CAPACITY_STATES, MediaStarts,
         Connected, Enqueued, DeletedRow, AbsentRow, Present, NoRow, RowInv
    <2>7. ~MediaStops(c)
      BY <2>1 DEF MediaStops, Persisted, RowInv
    <2> QED BY <2>1, <2>2, <2>3, <2>4, <2>5, <2>6, <2>7 DEF RowStep, QueueStep
  <1>2. CallInv /\ [Next]_vars => \A c \in Call : Accounted(c)
    BY <1>1
  <1>3. Spec => [][\A c \in Call : Accounted(c)]_vars
    BY <1>2, CallInvariant, PTL DEF Spec
  <1> QED BY <1>3 DEF SlotReleaseIsAccounted

\* A coordinator whose action lease went to another one records nothing: the
\* attempts of a call are counted by the owner of the lease alone.
THEOREM OwnerReconciles == Spec => OnlyOwnerReconciles
  <1> DEFINE Owned(c) ==
        calls'[c].attempts # calls[c].attempts /\ Present(calls'[c]) =>
            \E w \in Worker : calls[c].action_owner = w /\ worker'[w] # worker[w]
  <1>1. ASSUME CallInv, [Next]_vars, NEW c \in Call
        PROVE  Owned(c)
    <2> DEFINE r == calls[c]
               t == calls'[c]
    <2>1. r \in Row /\ RowInv(c) /\ RowStep(c)
      BY <1>1, StepEffects DEF CallInv, TypeInv, TypeOK, Rows
    <2>2. CASE Enqueued(c)
      BY <2>1, <2>2 DEF Enqueued, RowInv, Present, NoRow, QueuedRow, AbsentRow
    <2>3. CASE t = DeletedRow
      BY <2>3 DEF DeletedRow, AbsentRow, Present, NoRow
    <2>4. CASE MediaStarts(c) \/ MediaStops(c)
      BY <2>1, <2>4 DEF MediaStarts, MediaStops, Connected, Persisted, Recreated, RowInv
    <2>5. CASE ByOwner(c)
      BY <2>5 DEF ByOwner
    <2>6. CASE t.attempts = r.attempts
      BY <2>6
    <2>7. QueueStep(c) => Enqueued(c) \/ t = DeletedRow \/ ByOwner(c) \/ t.attempts = r.attempts
      BY DEF QueueStep, Resting, Waiting, Claimed, Requeued, Bound, Canceling, Resolved, Rejected,
         Finished, Kept
    <2> QED BY <2>1, <2>2, <2>3, <2>4, <2>5, <2>6, <2>7 DEF RowStep
  <1>2. CallInv /\ [Next]_vars => \A c \in Call : Owned(c)
    BY <1>1
  <1>3. Spec => [][\A c \in Call : Owned(c)]_vars
    BY <1>2, CallInvariant, PTL DEF Spec
  <1> QED BY <1>3 DEF OnlyOwnerReconciles

----------------------------------------------------------------------------
(* The invariant, as long as no operator resolves or deletes a call        *)

\* A queued call keeps its row and its job, and is terminal only on the
\* carrier's word, with a verdict that explains it.
Explained(c) ==
    LET r == calls[c] IN
    /\ r.lifecycle_state # "DELETED"
    /\ r.lifecycle_state # "ABSENT" => r.queue_state # "none"
    /\ r.provider_terminal =>
        leg[c] \in Ended \cup {"refused"} /\ r.lifecycle_state \in Explanations[leg[c]]

Pending(c) == Present(calls[c]) /\ ~calls[c].provider_terminal

\* One call of a phone at a time is under way.
OnePending ==
    \A c, d \in Call : Pending(c) /\ Pending(d) /\ PhoneOf[c] = PhoneOf[d] => c = d

LedgerInv == (\A c \in Call : Explained(c)) /\ OnePending

\* A call with a leg is in the queue, and one under way is unresolved there.
LEMMA PendingFacts ==
    ASSUME CallInv, LedgerInv, NEW c \in Call
    PROVE  /\ Pending(c) => Unresolved(calls[c])
           /\ Present(calls[c]) <=> calls[c].lifecycle_state # "ABSENT"
           /\ leg[c] # "none" => Present(calls[c]) /\ calls[c].queue_state # "queued"
           /\ leg[c] \notin Ended \cup {"refused"} => ~calls[c].provider_terminal
  <1>1. calls[c] \in Row /\ RowInv(c) /\ Explained(c)
    BY DEF CallInv, TypeInv, TypeOK, Rows, LedgerInv
  <1>2. Present(calls[c]) <=> calls[c].lifecycle_state # "ABSENT"
    BY <1>1 DEF Explained, Present, NoRow
  <1>3. Pending(c) => Unresolved(calls[c])
    BY <1>1, <1>2 DEF Pending, Explained, RowInv, Unresolved, Row, QueueState
  <1>4. leg[c] # "none" => ~Fresh(calls[c])
    BY FreshIsSilent DEF CallInv
  <1> QED BY <1>1, <1>2, <1>3, <1>4 DEF Fresh, Explained

\* What becomes of the ledger's view of one call.
Opened(c) == Enqueued(c)

Closed(c) ==
    /\ Pending(c) /\ Alone(c) /\ UNCHANGED leg
    /\ leg[c] \in Ended \cup {"refused"}
    /\ calls'[c].provider_terminal
    /\ calls'[c].lifecycle_state \in Explanations[leg[c]]

Unmoved(c) ==
    /\ Present(calls'[c]) <=> Present(calls[c])
    /\ calls'[c].provider_terminal = calls[c].provider_terminal
    /\ calls[c].provider_terminal => SameLife(calls[c], calls'[c])

\* A verdict that TerminalRow or RejectRow writes explains the leg.
LEMMA VerdictsExplain ==
    /\ DOMAIN Explanations = Ended \cup {"refused"}
    /\ "refused" \notin Ended
    /\ \A s \in Ended : Lifecycles(s) = Explanations[s]
    /\ Explanations["refused"] = {"FAILED"}
  BY DEF Explanations, Lifecycles, Ended, PROVIDER_TERMINAL

\* A step that changes a leg writes no row; it is the submission of a call
\* under way, or what the carrier does to a leg it has.
LegStep(c) ==
    /\ UNCHANGED calls
    /\ \/ /\ Pending(c) /\ leg[c] = "none"
          /\ \E answer \in {"ringing", "refused", "lost"} : leg' = [leg EXCEPT ![c] = answer]
       \/ leg[c] = "ringing" /\ leg' = [leg EXCEPT ![c] = "answered"]
       \/ leg[c] \in Live /\ \E s \in Ended : leg' = [leg EXCEPT ![c] = s]

LEMMA LegsOrRows ==
    ASSUME CallInv, LedgerInv, [Next]_vars
    PROVE  UNCHANGED leg \/ \E c \in Call : LegStep(c)
  <1>1. ASSUME NEW w \in Worker, Submit(w) \/ SubmitRefused(w) \/ SubmitLost(w)
        PROVE  LegStep(worker[w].call) /\ worker[w].call \in Call
    <2> DEFINE c == worker[w].call
    <2>1. c \in Call /\ DialingCall(w, c)
      BY <1>1 DEF CallInv, TypeInv, HandsFull, Submit, SubmitRefused, SubmitLost, At, DialingCall
    <2>2. leg[c] = "none" /\ ~Fresh(calls[c])
      BY <2>1 DEF CallInv, DialInv, NeverRedialed, Untouched
    <2>3. Pending(c)
      BY <2>1, <2>2, PendingFacts DEF Pending, Fresh, Ended, PROVIDER_TERMINAL
    <2> QED BY <1>1, <2>1, <2>2, <2>3 DEF LegStep, Submit, SubmitRefused, SubmitLost
  <1>2. ASSUME NEW w \in Worker, Abandon(w) \/ RequestTerminal(w), leg' # leg
        PROVE  LegStep(worker[w].call) /\ worker[w].call \in Call
    BY <1>2 DEF CallInv, TypeInv, HandsFull, Abandon, RequestTerminal, At, LegStep, Live, Ended,
       PROVIDER_TERMINAL
  <1>3. ASSUME NEW c \in Call, Answer(c) \/ \E s \in Verdict : HangUp(c, s)
        PROVE  LegStep(c)
    BY <1>3, StoreAssumption DEF Answer, HangUp, LegStep, Live, Ended
  <1>4. \/ UNCHANGED leg
        \/ \E w \in Worker : \/ Submit(w) \/ SubmitRefused(w) \/ SubmitLost(w)
                               \/ Abandon(w) \/ RequestTerminal(w)
        \/ \E c \in Call : Answer(c) \/ \E s \in Verdict : HangUp(c, s)
    BY DEF Next, WorkerStep, Dialing, Reconciling, Sweep, TakeAction, TakeJob, ShutDown, Bind,
       RecordAmbiguous, RecordRejected, FetchStatus, RecordProof, RecordResult, Crash,
       CarrierStep, StatusWebhook, FlowWebhook, StreamStart, StreamEnd, OperatorStep, Enqueue,
       ResolveBegin, ResolveStatus, ResolveFinish, Delete, Clear, ClockTick, vars
  <1> QED BY <1>1, <1>2, <1>3, <1>4

\* Every row is opened, closed or left as the ledger sees it.
LEMMA LedgerRow ==
    ASSUME Commands = {}, CallInv, LedgerInv, [Next]_vars, NEW c \in Call
    PROVE  /\ Explained(c)'
           /\ Opened(c) \/ Closed(c) \/ Unmoved(c)
  <1> DEFINE r == calls[c]
             t == calls'[c]
  <1>1. /\ r \in Row /\ RowInv(c) /\ RowStep(c) /\ Explained(c)
        /\ operator.pc = "idle"
        /\ Present(r) <=> r.lifecycle_state # "ABSENT"
    BY StepEffects, PendingFacts DEF CallInv, TypeInv, TypeOK, Rows, LedgerInv, ClaimInv
  <1>2. leg'[c] = leg[c] \/ (UNCHANGED calls /\ leg[c] \notin Ended \cup {"refused"})
    <2>1. leg \in [Call -> LegState]
      BY DEF CallInv, TypeInv, TypeOK
    <2> QED BY <2>1, LegsOrRows DEF LegStep, Live, Ended, PROVIDER_TERMINAL
  <1>3. ASSUME t.provider_terminal = r.provider_terminal,
               r.provider_terminal => SameLife(r, t),
               Present(r), Present(t),
               r.queue_state # "none" => t.queue_state # "none"
        PROVE  Explained(c)' /\ Unmoved(c)
    BY <1>1, <1>2, <1>3 DEF Explained, Unmoved, RowInv, SameLife, Present, NoRow
  <1>4. CASE Enqueued(c)
    BY <1>4 DEF Enqueued, QueuedRow, AbsentRow, Explained, Opened
  <1>5. CASE Resting(r, t)
    BY <1>1, <1>2, <1>5 DEF Explained, Unmoved, Resting, Kept, Alike, SameLife, Present
  <1>6. CASE /\ Present(r)
             /\ Bound(r, t) \/ Waiting(r, t) \/ Retried(r, t) \/ Canceling(r, t)
    <2>1. /\ t.provider_terminal = r.provider_terminal /\ SameLife(r, t) /\ Present(t)
          /\ r.queue_state # "none" => t.queue_state # "none"
      BY <1>6 DEF Bound, Waiting, Retried, Canceling, Kept, Alike, SameLife, JobGoes, Present
    <2> QED BY <1>3, <1>6, <2>1
  <1>7. CASE /\ Present(r) /\ ~r.provider_terminal
             /\ Quarantined(r, t) \/ Claimed(r, t) \/ Requeued(r, t)
    <2>1. /\ t.provider_terminal = r.provider_terminal /\ Present(t)
          /\ r.queue_state # "none" => t.queue_state # "none"
      BY <1>7 DEF Quarantined, Claimed, Requeued, Kept, Alike, JobGoes, Present, NoRow
    <2> QED BY <1>3, <1>7, <2>1
  <1>8. CASE MediaStarts(c)
    <2>1. /\ Present(r) /\ t.provider_terminal = r.provider_terminal /\ Present(t)
          /\ ~r.provider_terminal /\ t.queue_state = r.queue_state
      BY <1>8 DEF MediaStarts, Connected, Present, NoRow
    <2> QED BY <1>3, <2>1
  <1>9. CASE MediaStops(c)
    <2>1. CASE t = r
      BY <1>5, <2>1, SameRowRests
    <2>2. CASE Present(r) /\ Persisted(r, t)
      <3>1. /\ t.provider_terminal = r.provider_terminal /\ Present(t)
            /\ r.provider_terminal => SameLife(r, t)
            /\ t.queue_state = r.queue_state
        BY <2>2 DEF Persisted, SameLife, Present, NoRow
      <3> QED BY <1>3, <2>2, <3>1
    <2>3. Present(r)
      BY <1>1, <1>9, FreshIsSilent DEF MediaStops, CallInv, Fresh
    <2> QED BY <1>9, <2>1, <2>2, <2>3 DEF MediaStops
  <1>10. ASSUME Present(r), Alone(c), leg[c] \in Ended \cup {"refused"}, t.provider_terminal,
                JobGoes(r, t, "terminal"),
                r.provider_terminal => SameLife(r, t),
                ~r.provider_terminal => t.lifecycle_state \in Explanations[leg[c]]
         PROVE  Explained(c)' /\ (Closed(c) \/ Unmoved(c))
    <2>1. Present(t) /\ (r.queue_state # "none" => t.queue_state # "none")
      BY <1>10, VerdictsExplain DEF JobGoes, SameLife, Present, NoRow, Lifecycles, LifecycleOf
    <2>2. CASE r.provider_terminal
      BY <1>3, <1>10, <2>1, <2>2
    <2>3. CASE ~r.provider_terminal
      <3>1. UNCHANGED leg
        BY <1>10, <2>3, LegsOrRows DEF LegStep
      <3>2. Closed(c)
        BY <1>10, <2>3, <3>1 DEF Closed, Pending
      <3>3. r.queue_state # "none"
        BY <1>1, <1>10 DEF Explained
      <3>4. Explained(c)'
        BY <1>10, <2>1, <2>3, <3>1, <3>3 DEF Explained, Present, NoRow
      <3> QED BY <3>2, <3>4
    <2> QED BY <2>2, <2>3
  <1>11. CASE Present(r) /\ leg[c] = "refused" /\ ByRefused(c) /\ Rejected(r, t) /\ Alone(c)
    <2>1. r.provider_terminal => SameLife(r, t)
      BY <1>1, <1>11 DEF Explained, Rejected, SameLife, Explanations
    <2> QED BY <1>10, <1>11, <2>1, VerdictsExplain DEF Rejected
  <1>12. CASE /\ Present(r) /\ Alone(c)
              /\ \E s \in Ended : (leg[c] = s \/ ByOperator(c, "status")) /\ Finished(r, t, s)
    <2>1. PICK s \in Ended : leg[c] = s /\ Finished(r, t, s)
      BY <1>1, <1>12 DEF ByOperator
    <2> QED BY <1>10, <1>12, <2>1, VerdictsExplain DEF Finished
  <1>13. ~ByOperator(c, "finish")
    BY <1>1 DEF ByOperator
  <1>14. r.queue_state \in {"queued", "claimed"} => Present(r) /\ ~r.provider_terminal
    BY <1>1 DEF RowInv, Open
  <1> QED
    BY <1>1, <1>4, <1>5, <1>6, <1>7, <1>8, <1>9, <1>11, <1>12, <1>13, <1>14
       DEF RowStep, QueueStep, Opened

LEMMA PendingKept ==
    ASSUME Commands = {}, CallInv, LedgerInv, [Next]_vars
    PROVE  OnePending'
  <1>1. ASSUME NEW c \in Call, Pending(c)'
        PROVE  Pending(c) \/ Enqueued(c)
    BY <1>1, LedgerRow DEF Opened, Closed, Unmoved, Pending
  <1>2. ASSUME NEW c \in Call, NEW d \in Call, c # d, PhoneOf[c] = PhoneOf[d],
               Pending(c)', Pending(d)', ~Pending(c)
        PROVE  FALSE
    <2>1. Enqueued(c) /\ calls'[d] = calls[d]
      BY <1>1, <1>2 DEF Enqueued, Alone
    <2>2. Pending(d) /\ ~Unresolved(calls[d])
      BY <1>2, <2>1 DEF Enqueued, SamePhone, Pending
    <2> QED BY <2>2, PendingFacts
  <1>3. \A c, d \in Call : Pending(c) /\ Pending(d) /\ PhoneOf[c] = PhoneOf[d] => c = d
    BY DEF LedgerInv, OnePending
  <1> QED BY <1>2, <1>3 DEF OnePending

LEMMA LedgerInvariant ==
    ASSUME Commands = {}
    PROVE  Spec => [](CallInv /\ LedgerInv)
  <1>1. Init => LedgerInv
    BY DEF Init, LedgerInv, Explained, OnePending, Pending, AbsentRow, Present, NoRow
  <1>2. CallInv /\ LedgerInv /\ [Next]_vars => LedgerInv'
    BY LedgerRow, PendingKept DEF LedgerInv
  <1> QED BY <1>1, <1>2, CallInvariant, PTL DEF Spec

\* A call with a live leg is never lost sight of: its job is unresolved and not
\* back in the queue, whatever leases expire and coordinators crash, and
\* whatever webhooks come late or never.
THEOREM LiveLegsAreTracked ==
    ASSUME Commands = {}
    PROVE  Spec => []LiveLegIsTracked
  <1>1. CallInv /\ LedgerInv => LiveLegIsTracked
    BY PendingFacts DEF LiveLegIsTracked, Pending, Live, Ended, PROVIDER_TERMINAL
  <1> QED BY <1>1, LedgerInvariant, PTL

\* The carrier never has two live legs to one phone.
THEOREM OneLegAPhone ==
    ASSUME Commands = {}
    PROVE  Spec => []OneLegPerPhone
  <1>1. ASSUME CallInv, LedgerInv
        PROVE  OneLegPerPhone
    <2>1. \A c \in Call : leg[c] \in Live => Pending(c)
      BY <1>1, PendingFacts DEF Pending, Live, Ended, PROVIDER_TERMINAL
    <2> QED BY <1>1, <2>1 DEF OneLegPerPhone, LedgerInv, OnePending
  <1> QED BY <1>1, LedgerInvariant, PTL

----------------------------------------------------------------------------
(* The refinement                                                          *)

ledgerVars == <<Record, leg, ReportedVerdict>>

LEMMA LedgerStarts ==
    ASSUME Init
    PROVE  Ledger!Init
  BY DEF Init, Ledger!Init, Record, ReportedVerdict, AbsentRow, Present, NoRow

\* A change of a leg is a Dial, an Answer or an End of the ledger.
LEMMA LegStepMaps ==
    ASSUME CallInv, NEW c \in Call, LegStep(c)
    PROVE  Ledger!Dial(c) \/ Ledger!Answer(c) \/ Ledger!End(c)
  <1>1. UNCHANGED <<Record, ReportedVerdict>>
    BY DEF LegStep, Record, ReportedVerdict, Present
  <1>2. CASE Pending(c) /\ leg[c] = "none"
    <2>1. Record[c] = "open"
      BY <1>2 DEF Pending, Record
    <2> QED BY <1>1, <1>2, <2>1 DEF LegStep, Ledger!Dial, Live
  <1>3. CASE leg[c] = "ringing" /\ leg' = [leg EXCEPT ![c] = "answered"]
    BY <1>1, <1>3 DEF Ledger!Answer
  <1>4. CASE leg[c] \in Live /\ \E s \in Ended : leg' = [leg EXCEPT ![c] = s]
    <2>1. Ledger!Endings = Ended
      BY VerdictsExplain DEF Ledger!Endings
    <2> QED BY <1>1, <1>4, <2>1 DEF Ledger!End, Live
  <1> QED BY <1>2, <1>3, <1>4 DEF LegStep

LEMMA RowStepMaps ==
    ASSUME Commands = {}, CallInv, LedgerInv, [Next]_vars, UNCHANGED leg
    PROVE  [Ledger!Next]_ledgerVars
  <1>1. \A c \in Call : calls[c] \in Row /\ (Opened(c) \/ Closed(c) \/ Unmoved(c))
    BY LedgerRow DEF CallInv, TypeInv, TypeOK
  <1>2. ASSUME NEW c \in Call, Opened(c)
        PROVE  Ledger!Open(c)
    <2>1. Record[c] = "none" /\ ReportedVerdict[c] = "none"
      BY <1>1, <1>2 DEF Opened, Enqueued, Record, ReportedVerdict, Present, NoRow, CallInv, Rows, RowInv
    <2>2. \A d \in Call : PhoneOf[d] = PhoneOf[c] => Record[d] # "open"
      BY <1>2, PendingFacts DEF Opened, Enqueued, SamePhone, Record, Pending
    <2>3. Present(QueuedRow) /\ ~QueuedRow.provider_terminal
      BY DEF QueuedRow, AbsentRow, Present, NoRow
    <2>4. Record' = [Record EXCEPT ![c] = "open"]
      BY <1>2, <2>3 DEF Opened, Enqueued, Alone, Record
    <2>5. UNCHANGED ReportedVerdict
      BY <1>2, <2>1, <2>3 DEF Opened, Enqueued, Alone, ReportedVerdict
    <2> QED BY <2>1, <2>2, <2>4, <2>5 DEF Ledger!Open
  <1>3. ASSUME NEW c \in Call, Closed(c)
        PROVE  Ledger!Close(c)
    <2>1. Record[c] = "open"
      BY <1>3 DEF Closed, Pending, Record
    <2>2. Present(calls'[c])
      BY <1>3, LedgerRow, VerdictsExplain DEF Closed, Explanations, Present, NoRow, LifecycleOf
    <2>3. Record' = [Record EXCEPT ![c] = "closed"]
      BY <1>3, <2>2 DEF Closed, Alone, Record
    <2>4. ReportedVerdict' = [ReportedVerdict EXCEPT ![c] = calls'[c].lifecycle_state]
      BY <1>3 DEF Closed, Alone, ReportedVerdict
    <2>5. leg[c] \in DOMAIN Explanations /\ calls'[c].lifecycle_state \in Explanations[leg[c]]
      BY <1>3, VerdictsExplain DEF Closed
    <2> QED BY <2>1, <2>3, <2>4, <2>5 DEF Ledger!Close
  <1>4. CASE \A c \in Call : Unmoved(c)
    <2>1. Record' = Record
      BY <1>4 DEF Unmoved, Record
    <2>2. ReportedVerdict' = ReportedVerdict
      BY <1>4 DEF Unmoved, SameLife, ReportedVerdict
    <2> QED BY <2>1, <2>2 DEF ledgerVars
  <1> QED BY <1>1, <1>2, <1>3, <1>4 DEF Ledger!Next

\* Without operators the queue, the coordinators and the webhooks implement
\* CallLedger: one open call a phone, one submission a call, and one verdict,
\* which explains how the leg ended.
THEOREM LedgerIsKept ==
    ASSUME Commands = {}
    PROVE  Spec => KeepsLedger
  <1>1. Init => Ledger!Init
    BY LedgerStarts
  <1>2. CallInv /\ LedgerInv /\ [Next]_vars => [Ledger!Next]_ledgerVars
    BY LegsOrRows, LegStepMaps, RowStepMaps DEF Ledger!Next
  <1> QED BY <1>1, <1>2, LedgerInvariant, PTL DEF Spec, KeepsLedger, Ledger!Spec, ledgerVars
=============================================================================
