---------------------------- MODULE MediaSession ----------------------------
(***************************************************************************)
(* The life of one media websocket around its conversation: the route      *)
(* handler's teardown (adapter, bridge, transcript, metrics), CallMetrics   *)
(* and its buffer, fed from the event loop and from the provider's         *)
(* listener thread, MetricsWriter with its queue and its flushes, and the   *)
(* thread pool in which the database writes of both run.                   *)
(*                                                                         *)
(* The conversation itself is StreamingCall's and TurnTaking's; what the   *)
(* row becomes when the transcript is stored is CallStore's PersistRaw.    *)
(* An event is its number, in the order in which events were stamped.      *)
(***************************************************************************)
EXTENDS Naturals, Sequences, FiniteSets, SequencesExt

CONSTANTS
    FlushEvery,  \* CallMetrics._flush_every
    MaxEvents,   \* bound: events stamped before the summary
    MaxCancels   \* bound: times the handler is cancelled

ASSUME MediaAssumption ==
    FlushEvery \in Nat \ {0} /\ MaxEvents \in Nat \ {0} /\ MaxCancels \in Nat

VARIABLES
    buffer,      \* CallMetrics._buffer, under its lock
    count,       \* events stamped so far
    thread,      \* per thread: inside _stamp, with the batch it drained
    queue,       \* MetricsWriter._queue, its batches joined
    writer,      \* MetricsWriter._task
    job,         \* what asyncio.to_thread was given: state and batch
    table,       \* call_events of this call
    route,       \* where the route handler is
    ended,       \* session.ended_at is set
    transcript,  \* what became of the transcript
    summary,     \* the number of the last summary event, 0 before
    hits,        \* history: where cancellations of the handler arrived
    cancels,     \* how many did
    lost,        \* history: events of writes that were refused or cancelled
    strayed      \* history: what the listener held when the summary was made

vars == <<buffer, count, thread, queue, writer, job, table, route, ended, transcript,
          summary, hits, cancels, lost, strayed>>

measure == <<buffer, count, thread>>
teardown == <<route, ended, transcript, summary, hits, cancels, strayed>>

----------------------------------------------------------------------------
Threads == {"loop",      \* the event loop: adapter, paced sender, bridge
            "listener"}  \* connection.start_listening

Jobs == {"periodic", "final", "persist"}

Idle == [pc |-> "idle", batch |-> <<>>]
NoJob == [st |-> "none", batch |-> <<>>]
Queued(batch) == [st |-> "queued", batch |-> batch]

Waits == {"talking", "hangup", "stop", "persist", "restop", "repersist", "flush", "final"}

Events == Seq(1..(MaxEvents + 2))

TypeOK ==
    /\ {buffer, queue, table, lost} \subseteq Events
    /\ count \in 1..(MaxEvents + 2) /\ summary \in 0..(MaxEvents + 2)
    /\ thread \in [Threads -> [pc : {"idle", "check", "emit"}, batch : Events]]
    /\ writer \in {"asleep", "writing", "ended"}
    /\ job \in [Jobs -> [st : {"none", "queued", "running", "done", "failed"}, batch : Events]]
    /\ route \in Waits \cup {"finish", "closing", "closed"}
    /\ ended \in BOOLEAN
    /\ transcript \in {"none", "persisted", "failed"}
    /\ hits \subseteq Waits /\ cancels \in 0..MaxCancels
    /\ strayed \subseteq 1..(MaxEvents + 2)

\* The media stream is claimed, the metrics are bound, the adapter starts.
Init ==
    /\ buffer = <<1>> /\ count = 1 /\ thread = [t \in Threads |-> Idle]
    /\ queue = <<>> /\ writer = "asleep" /\ job = [j \in Jobs |-> NoJob] /\ table = <<>>
    /\ route = "talking" /\ ended = FALSE /\ transcript = "none" /\ summary = 0
    /\ hits = {} /\ cancels = 0 /\ lost = <<>> /\ strayed = {}

\* Nothing else on the loop runs while a coroutine is inside _stamp.
LoopFree == thread["loop"].pc = "idle"

----------------------------------------------------------------------------
(* CallMetrics: each of the three steps holds the lock, nothing holds it   *)
(* from one to the next.                                                   *)

\* _append_locked: one more event in the buffer.
AppendBy(t) ==
    /\ thread[t].pc = "idle"
    /\ count' = count + 1 /\ buffer' = Append(buffer, count + 1)
    /\ thread' = [thread EXCEPT ![t].pc = "check"]
    /\ UNCHANGED <<queue, writer, job, table, teardown, lost>>

\* The first frame of a greeting or of a turn has gone out.  The pump outlives
\* the receive loop until bridge.stop first awaits.
ObserveOutbound ==
    /\ route \in {"talking", "hangup", "stop"} /\ count < MaxEvents
    /\ AppendBy("loop")

\* Everything else that is stamped during a call: barge-in decisions and nudges
\* on the loop; refusals, closings and diagnostics of the provider on either.
Stamp(t) ==
    /\ t = "loop" => route \in {"talking", "hangup", "stop"}
    /\ count < MaxEvents /\ summary = 0
    /\ AppendBy(t)

\* The listener may outlive the summary: nobody reads the buffer any more.
StampLate ==
    /\ summary # 0 /\ count < MaxEvents + 2
    /\ AppendBy("listener")

\* Variant that is wrong: a drain hands out a copy of the buffer.
Copied == buffer

\* _drain_locked: what a drain leaves in the buffer.
Drained == <<>>

MaybeFlush(t) ==
    /\ thread[t].pc = "check"
    /\ IF Len(buffer) < FlushEvery
       THEN thread' = [thread EXCEPT ![t] = Idle] /\ UNCHANGED buffer
       ELSE /\ thread' = [thread EXCEPT ![t] = [pc |-> "emit", batch |-> buffer]]
            /\ buffer' = Drained
    /\ UNCHANGED <<count, queue, writer, job, table, teardown, lost>>

Emit(t) ==
    /\ thread[t].pc = "emit"
    /\ queue' = queue \o thread[t].batch
    /\ thread' = [thread EXCEPT ![t] = Idle]
    /\ UNCHANGED <<buffer, count, writer, job, table, teardown, lost>>

----------------------------------------------------------------------------
(* MetricsWriter._run and the thread pool                                  *)

WriterFlushes ==
    /\ LoopFree /\ writer = "asleep" /\ queue # <<>>
    /\ queue' = <<>> /\ writer' = "writing"
    /\ job' = [job EXCEPT !["periodic"] = Queued(queue)]
    /\ UNCHANGED <<measure, table, teardown, lost>>

WriterResumes ==
    /\ LoopFree /\ writer = "writing" /\ job["periodic"].st = "done"
    /\ writer' = "asleep" /\ job' = [job EXCEPT !["periodic"] = NoJob]
    /\ UNCHANGED <<measure, queue, table, teardown, lost>>

JobStarts(j) ==
    /\ job[j].st = "queued"
    /\ job' = [job EXCEPT ![j].st = "running"]
    /\ UNCHANGED <<measure, queue, writer, table, teardown, lost>>

\* record_events: one transaction, its sqlite errors swallowed.
RecordEvents(j) ==
    /\ j # "persist" /\ job[j].st = "running"
    /\ job' = [job EXCEPT ![j] = [st |-> "done", batch |-> <<>>]]
    /\ \/ table' = table \o job[j].batch /\ UNCHANGED lost
       \/ lost' = lost \o job[j].batch /\ UNCHANGED table
    /\ UNCHANGED <<measure, queue, writer, teardown>>

PersistRaw ==
    /\ job["persist"].st = "running"
    /\ \/ /\ transcript' = "persisted"
          /\ job' = [job EXCEPT !["persist"].st = "done"]
       \/ /\ job' = [job EXCEPT !["persist"].st = "failed"]
          /\ UNCHANGED transcript
    /\ UNCHANGED <<measure, queue, writer, table, route, ended, summary, hits, cancels,
                   lost, strayed>>

\* Cancelling the await of to_thread: a job not yet started never runs, a
\* running one cannot be stopped.
Cancelled(j) == IF job[j].st = "queued" THEN [job EXCEPT ![j] = NoJob] ELSE job
LostWith(j) == IF job[j].st = "queued" THEN lost \o job[j].batch ELSE lost

----------------------------------------------------------------------------
(* The route handler                                                       *)

\* The receive loop ended; the carrier is asked to hang up only after an
\* error or when the provider stopped taking audio.
ConversationEnds ==
    /\ LoopFree /\ route = "talking"
    /\ route' \in {"hangup", "stop"}
    /\ UNCHANGED <<measure, queue, writer, job, table, ended, transcript, summary, hits,
                   cancels, lost, strayed>>

CarrierAsked ==
    /\ LoopFree /\ route = "hangup"
    /\ route' = "stop"
    /\ UNCHANGED <<measure, queue, writer, job, table, ended, transcript, summary, hits,
                   cancels, lost, strayed>>

\* AudioBridge.stop from the return of engine.stop on: session.finish before
\* the transcript is handed to the thread pool.
EngineStopped ==
    /\ LoopFree /\ route \in {"stop", "restop"}
    /\ ended' = TRUE
    /\ job' = [job EXCEPT !["persist"] = Queued(<<>>)]
    /\ route' = IF route = "stop" THEN "persist" ELSE "repersist"
    /\ UNCHANGED <<measure, queue, writer, table, transcript, summary, hits, cancels, lost,
                   strayed>>

\* Variant that is wrong: the adapter is trusted to have stopped the bridge.
TrustsTheAdapter(isEnded) == "finish"

\* The route's finally: a bridge that did not finish is stopped again.
Finally(isEnded) == IF isEnded THEN "finish" ELSE "restop"

\* The await of persist_raw returns, or raises and is logged.
TranscriptHandled ==
    /\ LoopFree /\ route \in {"persist", "repersist"}
    /\ job["persist"].st \in {"done", "failed"}
    /\ transcript' = IF job["persist"].st = "failed" THEN "failed" ELSE transcript
    /\ route' = Finally(ended)
    /\ UNCHANGED <<measure, queue, writer, job, table, ended, summary, hits, cancels, lost,
                   strayed>>

\* CallMetrics.finish: two events, and everything still buffered.
Summarise ==
    /\ LoopFree /\ route = "finish"
    /\ count' = count + 2 /\ summary' = count + 2
    /\ thread' = [thread EXCEPT !["loop"] =
                    [pc |-> "emit", batch |-> buffer \o <<count + 1, count + 2>>]]
    /\ buffer' = <<>>
    /\ strayed' = Range(thread["listener"].batch)
    /\ route' = "closing"
    /\ UNCHANGED <<queue, writer, job, table, ended, transcript, hits, cancels, lost>>

\* MetricsWriter.stop: the task is cancelled, in its sleep or in its flush.
StopWriter ==
    /\ LoopFree /\ route = "closing"
    /\ writer' = "ended"
    /\ job' = IF writer = "writing" THEN Cancelled("periodic") ELSE job
    /\ lost' = IF writer = "writing" THEN LostWith("periodic") ELSE lost
    /\ route' = "flush"
    /\ UNCHANGED <<measure, queue, table, ended, transcript, summary, hits, cancels, strayed>>

\* The summary is in the queue, so there is something to write.
LastFlush ==
    /\ route = "flush"
    /\ queue' = <<>> /\ job' = [job EXCEPT !["final"] = Queued(queue)]
    /\ route' = "final"
    /\ UNCHANGED <<measure, writer, table, ended, transcript, summary, hits, cancels, lost,
                   strayed>>

Flushed ==
    /\ route = "final" /\ job["final"].st = "done"
    /\ route' = "closed"
    /\ UNCHANGED <<measure, queue, writer, job, table, ended, transcript, summary, hits,
                   cancels, lost, strayed>>

\* A CancelledError is not an Exception: it passes every handler but the
\* suppress of a cancelled task's await, and leaves through the finallys.
CancelHandler ==
    /\ LoopFree /\ cancels < MaxCancels /\ route \in Waits
    /\ cancels' = cancels + 1 /\ hits' = hits \cup {route}
    /\ \/ /\ route = "talking" /\ route' = "stop"
          /\ UNCHANGED <<job, lost>>
       \/ /\ route \in {"hangup", "stop"} /\ route' = Finally(ended)
          /\ UNCHANGED <<job, lost>>
       \/ /\ route \in {"stop", "restop", "flush"}  \* swallowed
          /\ UNCHANGED <<job, lost, route>>
       \/ /\ route = "persist" /\ route' = Finally(ended)
          /\ job' = Cancelled("persist") /\ UNCHANGED lost
       \/ /\ route = "restop" /\ route' = "closed"
          /\ UNCHANGED <<job, lost>>
       \/ /\ route = "repersist" /\ route' = "closed"
          /\ job' = Cancelled("persist") /\ UNCHANGED lost
       \/ /\ route = "final" /\ route' = "closed"
          /\ job' = Cancelled("final") /\ lost' = LostWith("final")
    /\ UNCHANGED <<measure, queue, writer, table, ended, transcript, summary, strayed>>

----------------------------------------------------------------------------
ThreadStep(t) == MaybeFlush(t) \/ Emit(t)

WriterStep == WriterFlushes \/ WriterResumes

JobStep(j) == JobStarts(j) \/ RecordEvents(j)

RouteStep == EngineStopped \/ CarrierAsked \/ TranscriptHandled \/ Summarise \/ StopWriter
             \/ LastFlush \/ Flushed

Next ==
    \/ ObserveOutbound
    \/ \E t \in Threads : Stamp(t) \/ ThreadStep(t)
    \/ StampLate
    \/ WriterStep
    \/ \E j \in Jobs : JobStep(j)
    \/ PersistRaw
    \/ ConversationEnds
    \/ RouteStep
    \/ CancelHandler

Spec == Init /\ [][Next]_vars

\* Threads that hold no lock go on, the loop runs what is ready, the pool
\* gets to its jobs, and a database call returns.  Nobody has to end a
\* conversation here, and the writer's sleep is not needed either.
FairSpec ==
    /\ Spec
    /\ \A t \in Threads : WF_vars(ThreadStep(t))
    /\ \A j \in Jobs : WF_vars(JobStep(j))
    /\ WF_vars(PersistRaw)
    /\ WF_vars(RouteStep)

----------------------------------------------------------------------------
(* Properties                                                              *)

\* Every event that was stamped is in exactly one place, once: two threads
\* that find the buffer full drain it once, a flush that races another takes
\* what the other left, and a batch whose writer was cancelled while the
\* database was busy with it is not written again by the final flush.
WrittenOnce ==
    LET places == buffer \o thread["loop"].batch \o thread["listener"].batch \o queue
                    \o job["periodic"].batch \o job["final"].batch \o table \o lost
    IN Len(places) = count /\ Range(places) = 1..count

\* Where a cancellation makes the handler leave what follows undone.
LeavesMetrics == {"restop", "repersist", "final"}
LeavesTranscript == {"persist", "restop", "repersist"}

\* A conversation that is over is torn down to the end, whatever fails on
\* the way and even when the handler is cancelled in the middle of it: the
\* transcript is stored or its failure logged, and every event up to the
\* summary is written, refused by the database, or cancelled before its
\* write began.  Excepted are a cancellation that arrives while the second
\* stop or the last write is awaited, and a batch that the listener thread
\* had in its hands when the summary was made.
TeardownCompletes ==
    route # "talking" ~>
        /\ route = "closed"
        /\ transcript # "none" \/ hits \cap LeavesTranscript # {}
        /\ \/ hits \cap LeavesMetrics # {}
           \/ 1..summary \subseteq Range(table) \cup Range(lost) \cup strayed

=============================================================================
