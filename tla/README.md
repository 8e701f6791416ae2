# The AI call agent in TLA+

Models, checks and proofs for the outbound voice agent in `src/`: a FastAPI
application that queues phone calls in SQLite, dials them through a carrier
(Twilio, Exotel or Teler), lets a Deepgram agent talk to the customer over a media
socket, and extracts structured answers from the transcript with OpenAI.

## 1. The system

| Part | State it keeps | Operations | What makes it correct |
|---|---|---|---|
| Call store (`storage/sqlite_store.py`) | tables `calls`, `call_jobs`, `extraction_jobs`, `leads`, `suppression_list`, `settings`, `call_events`; the index `one_active_phone` | one `BEGIN IMMEDIATE` transaction per method | a call is dialed at most once; it ends once, on proof; a phone has one open call; slots are accounted for |
| Durable coordinator (`services/call_coordinator.py`), one per worker process | only its stack: it suspends at every await | `run_once`: sweep, one due action, one extraction, one dial | nothing is lost or repeated when it crashes, is shut down, or loses a lease between two awaits |
| Carrier webhooks and media routes (`telephony/*_routes.py`) | none | status, TwiML/flow, AMD, media stream | status callbacks may be late, repeated, out of order or missing |
| Carrier control plane (`telephony/providers/`) | none | `dial`, `fetch_status`, `request_terminal`, error classification, the words of each carrier | only a proven refusal is a refusal; a verdict in the row is what the leg did |
| Callback URLs and tokens (`telephony/callback_urls.py`) | none: a token carries its own expiry | mint, validate | a token outlives the use of its URL, and dies |
| Extraction and do-not-call (`extraction_jobs`, `answer_extractor`) | leases, attempts, lead flags, suppression list | claim, complete, fail | answers count once, from the lease's holder; a request not to be called outlives the lead |
| Leads and operator commands (`main.py`) | `leads` | import, call, batch, delete, clear, resolve | deletions leave no half-records; an override does not contradict the carrier |
| Streaming media adapters (`adapters/streaming_media.py` and a subclass per carrier) | paced sender, marks, soft pause, closing flags | receive loop, outbound pump, barge-in, closing drain | the goodbye is heard; the pause always ends; one hangup |
| Conversation engine (`core/conversation/`) | closing flags, close deadline, send lock | audio in and out, keepalive, injected messages, events on a listener thread | a call always ends, and not before the agent's closing line |
| Local voice detection and idle watcher (`audio/local_vad.py`, `audio/idle_watcher.py`) | voiced and silent runs; quiet time, nudges | observe a frame | an interruption is decided on evidence; a pause ends; a silent line is closed after the nudges |
| Paced sender, audio bridge (`audio/paced_sender.py`, `audio/audio_bridge.py`) | a frame buffer, an output queue | feed, pause, resume, discard, interrupt, stop | frames neither lost nor reordered |
| Provider selection (`settings` row, cache in each worker) | the selected carrier | read with a 2 s cache, set, resolve | a call gets the choice that was in force, and a carrier that can dial |
| Metrics (`telephony/metrics.py`) | event buffer, writer queue, writer task | stamp, flush, finish | every event is written once, or its loss is known; teardown does not hang on it |
| Call session, state machine, call manager | call state, registry | transitions | only legal transitions |
| Greeting cache, dumps, codecs, prompts, migrations, exports, dashboards, scripts | - | - | not modelled, see section 8 |

**How they interact.** An operator queues a call (`enqueue_call`). Some coordinator
claims the job when the number of `claimed`, `active` and `canceling` jobs is below
the ceiling, submits the call to the carrier and binds the SID the answer names. The
carrier asks for the flow (which binds the SID too), opens the media socket
(`claim_media`) and posts status callbacks, which bind the SID if nobody has. When
the media ends, `persist_raw` stores the transcript and queues its extraction. A
terminal callback - or a status lookup by a coordinator, once a deadline has passed -
makes the call terminal and frees its slot. Claims that expire and calls nobody can
resolve are quarantined (`needs_reconciliation`): no slot, but the phone stays
blocked and an operator is to look at them.

**What is hard.** All of this happens in several processes that share nothing but the
database. Every store method is atomic, but every method call sits between two awaits
of somebody who may crash, be shut down, or come back after his lease went to another.
Carrier requests may succeed with the answer lost. Callbacks are unordered. The
operator works on the same rows. `PROJECT.json` lists the hazards at the line where
each bites, with the properties that would show it.

## 2. The modules

| Module | Models |
|---|---|
| `CallStore` | the row of a call in `calls` and `call_jobs`, and the transactions that write it, one operator each; the clock as the answers to the SQL comparisons |
| `CallPipeline` | coordinators at their awaits, the carrier, webhooks, media sockets and an operator, all working on `CallStore`; its safety, action and liveness properties, and the statements of the documentation |
| `CallLedger` | the abstract promise of the pipeline: open, dial once, answer, end, close with a verdict that explains the end |
| `MCCallPipeline` | instances and the symmetry of the coordinators |
| `CallStoreProofs`, `CallPipelineProofs` | lemmas about the row operators and transactions of `CallStore`; in three parts, the invariant of `CallPipeline`, what its steps keep, and the refinement of `CallLedger` (section 6) |
| `ExtractionProofs`, `StreamingProofs`, `PlaybackProofs`, `MediaProofs`, `CarrierProofs`, `SelectionProofs` | the theorems about `ExtractionQueue`, `StreamingCall`, `CarrierPlayback`, `MediaSession`, `CarrierControl` and `ProviderSelection` (section 6) |
| `ExtractionQueue`, `MCExtraction` | extraction jobs, leads and the suppression list, on top of `CallStore` |
| `CarrierControl`, `MCCarrierControl` | one call at one of the three carriers, in its own words and with a clock: control plane, webhooks, URL tokens, deadlines, attempts and back-off |
| `ProviderSelection`, `MCSelection` | the selected carrier: its row, the cache of each worker, the threads of the requests |
| `StreamingCall`, `MCStreaming` | one call on its media socket: receive loop, outbound pump, paced sender, engine flags, closing handshake |
| `TurnTaking`, `MCTurnTaking` | what the caller's frames decide: soft pause, confirmation, echo, idle watch, and the drain under an undecided pause |
| `CarrierPlayback`, `MCPlayback` | the same audio through Twilio's frames, Exotel's chunks and Teler's unacknowledged chunks: batching, marks, modelled playout |
| `MediaSession`, `MCMediaSession` | the route handler around a conversation: teardown, metrics buffer, writer task, thread pool, cancellation |

The modules overlap on purpose where one question needs little of what another needs
much of. `StreamingCall` lets every frame decide a pause either way, and `TurnTaking` says
how it is decided; `StreamingCall` has one kind of sender, and `CarrierPlayback` the three;
`CallPipeline` has no lengths of time, and `CarrierControl` has them for one call. In each pair
the second module has fewer behaviours of the part that the first abstracts.

### Correspondence

| Code | Model |
|---|---|
| `enqueue_call` | `EnqueueCall`: calls are numbered by `created_at`; `SamePhone` and `PhoneIndexFree` are the unresolved-job query and the unique index |
| `claim_job` | `ClaimJob`, `ClaimNothing` (both keep the quarantine of expired claims the transaction starts with) |
| `bind_call_sid` | `BindCallSid` (True), `BindRefused` (False, with its `_mark_reconciliation_db`) |
| `mark_dial_ambiguous`, `mark_dial_rejected`, `relinquish_claim` | operators of the same name |
| `claim_media`, `persist_raw` | `ClaimMedia`, `PersistRaw` (with the re-creation of a deleted row) |
| `provider_status` | `WebhookStatus` (with a SID), `ProvenStatus` (without one) |
| `claim_due_action`, `reconciliation_result`, `quarantine_abandoned_jobs` | `ClaimDueAction`/`NoDueAction`, `ProvenStatus` then `ReconciliationResult` (two transactions), `QuarantineAbandonedJobs` |
| `resolve_stuck_call` | `ResolveBegin`, `ResolveStatus`, `ResolveFinish` (three transactions) |
| `delete_call`, `clear_data` | `DeleteCall`, `ClearCalls`; `Delete`, `DeleteLead`, `Clear` in `ExtractionQueue` |
| `run_once` | `worker[w].pc`: `sweep`, `action`, then `fetch`/`request`/`resolve`/`settle`/`retry` for `_reconcile`, `claim`, then `dial`/`bind`/`conflict`/`ambiguous`/`reject`/`abandon` for `_dial` |
| `_extract` | `ClaimExtraction`, `CompleteExtraction`, `FailExtraction` |
| `StreamingMediaAdapter.start`, its awaits | `loop.pc`: `receive`, `inject` (`close_for_silence`), `start` (a provider session), `send`/`sent` (`send_media`), `handoff`, `drain`, `tail`, `finally` |
| `_run_outbound_pump` | `Feed`, `BeginSoftPause`, `BeginInterrupt` then `ClearPlayback` or `ClearFails`, `CloseSignal` |
| `PacedSender.run` | `SendFrame`, `FrameSent` (with the mark) |
| `_process_barge_in_signal` | `BargeIn`, part of every frame |
| the listener thread | `TerminalText`, `AgentAudio`, `AgentAudioDone`, `UserStartedSpeaking`, `ClosingHint`, `OnClose`, `OnError` |
| `_arm_close_deadline` | `Armed` on the event loop (`Injected`); on a listener thread `ClosingHint` cancels the old deadline and `StartDeadline` starts the new, and another thread may come in between |
| `_close_after_grace`, `_keepalive_loop` | `CloseAfterGrace`, `KeepaliveFails` |
| `_process_barge_in_signal` in detail | `TurnTaking!ProcessBargeIn`: `Commit`, `Resume` or `Wait` |
| `VoicedDurationTracker`, `_is_probable_echo` | `Voiced`, `Unvoiced`; `ProbableEcho`, `Heard` |
| `IdleWatcher.observe`, `_observe_idle` | `ReceiveFrame` (nothing), `Nudge`, `GiveUp`, then `Injected` with the frame still in hand |
| `_drain_playback` | `DrainFinishes`, `DrainProgresses`, `DrainGivesUp` |
| `PacedSender.run` with `send_audio`, `_flush_outbound`, `_on_frame_sent` | `CarrierPlayback!TakeFrame`, then `TwilioSent`, `ExotelSent` or `TelerSent`, then `MarkSent` |
| `_extend_playout`, `clear_playback` | `Extended`; `Interrupt` up to its await, `Cleared` after it |
| `active_provider_setting` | `Begin`, `Lookup`, `ReadSetting`, `FillCache`: thread switches are possible between any two |
| `resolve_provider`, `set_active_provider` | `ResolveProvider`; `SetActiveProvider`, then `ForgetCache` after the commit |
| `dial`, `request_terminal`, `normalize_status`, `normalize_event` of a carrier | `TwilioDial`, `ExotelDial`, `TelerDial`; `TwilioTerminal`, ...; `Reports` and `normalize_status`, `normalize_event` |
| the status, TwiML, flow, media and AMD routes | `TwilioStatus`, `ExotelStatus`, `TelerStatusWebhook`, `TwimlWebhook`, `FlowWebhook`, `TwilioMedia`, `ExotelMedia`, `TelerMedia`, `AmdWebhook` |
| `claim_due_action`, `_reconcile`, `reconciliation_result`, with lengths of time | `CarrierControl!ClaimAction`, `FetchStatus`, `RequestTerminal`, `RequestFails`, `ReconciliationResult` |
| `CallMetrics._stamp`, `_maybe_flush`, `_emit`, `finish` | `ObserveOutbound`, `Stamp`, `StampLate`; `MaybeFlush`; `Emit`; `Summarise` |
| `MetricsWriter._run`, `stop`, `flush` | `WriterFlushes`, `WriterResumes`; `StopWriter`; `LastFlush`, `Flushed` |
| the media route, `AudioBridge.stop`, and their `finally` clauses | `ConversationEnds`, `CarrierAsked`, `EngineStopped`, `TranscriptHandled`, `Finally`; a cancellation at any await is `CancelHandler` |
| `call_lead`, `_normalize_answers` | `ExtractionQueue!CallLead`, `normalize_answers` |

A transaction that writes rows of a phone whose other call may be open goes through `Commit`:
the unique index refuses it, the exception rolls it back, and nothing is written.
`claim_job` and the webhooks need no `Commit`, and `PhoneIndexIsKept` (section 6) is the proof.

A row is a record of the columns some guard reads. `RawPersisted` is
`raw_persisted_at`, which is set together with `media_end_reason`; `media_connected`
also stands for `media_owner`; `reconciliation` says whether `reconciliation_status`
is NULL - no statement distinguishes its values. A timestamp becomes the answer
to the comparison made with it: `lease` is live or expired, `next` later or due, and
`deadline` moves from `running` over `ring` and `max` to `overdue` (the maximum-call
deadline plus the grace), which is the order the code's settings give these instants.
Separate timers move independently, so the model has every interleaving of the clock,
and more.

The carrier is a variable of its own, `leg[c]`: nothing yet, ringing, answered, ended
with a status word, `refused` (proven) or `lost` (never arrived). A submission moves it and then the
answer is recorded, lost, or says something unusable. Webhooks are not messages that are
consumed: any fact that is true of the leg may be reported at any later time, any number of
times. That covers loss, delay, repetition and reordering with no queue to bound. The
carrier sends a terminal word only for a leg that ended with it. The media socket is
opened by an answered leg; it may still be opened just after the leg ended.

`StreamingCall` has agent audio as stretches numbered in the order of their generation, one
number per message and per frame: what matters is where a stretch is - on the bridge's queue,
in the sender's buffer, held by the carrier, played - and not its length. Caller audio has no
content, so every frame may decide a soft pause either way. A callback that the listener
thread has posted and the event loop has not run yet is the end of `outbound`; that is why
`DiscardAndClear(n)` empties only a prefix of it. The socket is open or over; when it is over, a
message may still be accepted or refused. Two history variables exist for the properties: `cut` (what
had been generated before the caller whose interruption was committed spoke) and `promise` (who
closed the engine, and what had been generated by then). It follows the base class
and the Twilio adapter; what the others do differently is in `CarrierPlayback`.

In `TurnTaking` a frame is what its energy makes of it: at or over the threshold and over
the echo margin (`voice`), over the threshold and under the margin (`echo`), or under it
(`quiet`). So the noise floor's estimate may be anything, right or wrong. Frames and the
clock are independent: a hundred frames may come in one tick, or none in ten. Counters
stop where the code only asks whether they have reached their limit.

The close deadline is two flags: `close_deadline` is the one that `_close_deadline_task` refers
to, and `stray_deadline` one that two threads started past each other: the reference to it was overwritten,
so nobody can cancel it and it runs on.

In `CarrierPlayback` a frame is its number and a tick is its length; the carrier plays what
was written to the socket in the order of the writes. In a tick it plays a frame (`Plays`) or is late (`Lags`:
a jitter buffer, a congested socket), and the clock of Teler's modelled playout runs on in either case. A write is a
step, and what follows its await another.

In `CarrierControl` a leg's state has the set of words that the carrier may report it by,
words this build does not know among them; a report is a word and, for Teler, a
reason. A deadline or a token is the number of ticks that are left of it. `past`
is what the leg has ever been: a webhook may report any of it, at any time.

In `MediaSession` an event is its number, in the order of stamping. `asyncio.to_thread` is
a job that is queued, running, or done: cancelling its await takes back the first
and cannot stop the second.

## 3. The runs

| Run | Instance | States | Checks |
|---|---|---|---|
| `PipelineRaces` | 1 call, 2 coordinators, 2 attempts, media, operator | 2.0 M | `TypeOK`, `NeverRedialed`, `FinalizedExactly`, `TerminalNeedsProof`, `TerminalIsSticky`, `SlotReleaseIsAccounted`, `OnlyOwnerReconciles` |
| `PipelineOnePhone` | 2 calls to one phone, 1 coordinator, 1 attempt | 1.8 M | `LiveLegIsTracked`, `OneLegPerPhone`, `PhoneIndexHolds` |
| `PipelineLiveness` | 1 call, 1 coordinator, 2 attempts, media, 2 verdicts, under `FairSpec` | 65 K | `SlotIsReleased`, and `KeepsLedger`: the refinement of `CallLedger` |
| `CarrierControl` | 1 call at each of the 3 carriers, ring 3, call 5, grace 8, stream token 5 ticks, 5 attempts, 2 failed requests | 290 K | `TypeOK`, `VerdictIsTheLegs`, `TokensOutliveUse`, `OverdueLegIsEnded`, `ConversationIsSpared` |
| `Selection` | 2 workers, 3 requests, 1 change, a cache of 2 ticks, time up to 3 | 1.97 M | `ChoiceIsFresh` |
| `Extraction` | 2 calls to one phone, 2 coordinators, 2 attempts, every deletion, under `FairSpec` | 126 K | `TypeOK`, `RecordsAgree`, `DndIsSuppressed`, `LeadsAreFlagged`, `OnlyHolderRecords`, `ResultIsFinal`, `ExtractionEnds` |
| `Streaming` | greeting and one more stretch of audio, a mark after each, one barge-in, two provider sessions, under `FairSpec` | 717 K | `TypeOK`, `HandedOver`, `PlayedOut`, `InterruptedAudioIsGone`, `LineIsReleased`, `StreamEnds` |
| `TurnTaking` | confirmation 3 frames, hangover 2, pause at most 4 ticks, 1 nudge, drain 3 ticks, 2 pauses, a speakerphone, under `FairSpec` | 286 K | `DecidedOnEvidence`, `PauseEnds`, `SilentLineIsClosed`, `DrainEnds` |
| `Playback` | 3 carriers, 5 frames, chunks of 3, a mark every 2, 2 interruptions, a carrier late by up to 2 frames, under `FairSpec` | 120 K | `NothingLost`, `DrainHeardIt`, `NothingStranded` |
| `MediaSession` | 4 events and the summary, a flush at 2, 2 cancellations, under `FairSpec` | 322 K | `WrittenOnce`, `TeardownCompletes` |
| `DocMuted`, `DocEcho` | the smallest that shows it | - | one statement of the source each, which the code does not keep (section 5) |

What the passing runs show, in words:

- a call is submitted at most once, though claims expire under a submission, processes die
  at every await and shutdown gives claims back;
- a call ends only on the carrier's word or an operator's, its first verdict stands, and
  `finalized_at` is set exactly when the end is proven and the transcript (if any) is in, in
  either order;
- slots are given back only for a terminal call, an unsubmitted one, or one put on the
  reconciliation list in the same transaction; and they are always given back;
- two calls to one phone are never live at the carrier together, and no late transaction
  can hit the unique index;
- when the close signal reaches the receive loop, everything generated before the engine
  closed is in the paced sender, and a drain that ends by itself leaves at most the stretch
  behind the last mark unplayed; a committed interruption leaves nothing of what it
  interrupted in any buffer; no stream ends with the caller on the line and the carrier not asked to
  hang up; a call that is closing, that is to close, or whose caller left comes to its end;
- extraction results are recorded once, by the holder of the lease; job and call agree
  through deletions and re-created rows; requests not to be called reach the list;
- whatever words a carrier uses, and however late, often or out of order it reports them,
  a terminal row says what the leg did; status callbacks keep a valid token as long
  as the leg they are about, and Exotel's media URL as long as the phone rings; a leg
  over its deadline is ended before the sweep would give it up, with two failed requests
  on the way; and the reconciler hangs up on a conversation at its deadline only, but for
  the two cases in section 5;
- a request works with a choice of carrier that was in force less than the life of a
  cache entry before it began, also when a thread fills the cache with what it read before a
  change;
- a soft pause is committed only on one utterance of the confirmed length and resumed
  only on a hangover of silence or at its limit, whatever mixture of voice, gaps and echo
  the frames are; it always ends; a line that falls silent is closed; a drain that begins
  under an undecided pause ends;
- through frames, chunks and marks no frame is lost, repeated or reordered, and what a
  finished drain leaves unheard is what was in flight, what followed Twilio's last mark, or
  less than one of Exotel's chunks; Teler's modelled playout is behind the real one by what the
  carrier is late itself, which the adapter cannot see, and by nothing else;
- every metrics event is in one place at a time, with two threads stamping and a writer
  cancelled in the middle of a write; teardown comes to its end with every step failing or the
  handler cancelled at any await.

**Bounds.** `NCalls` (calls ever queued), `MaxReconcile` and `MaxAttempts` (the
configured limits), `Capacity`, the sets `Worker`, `Verdict`, `EndReason`, `Commands`.
Two of any actor are enough for the races, since every row is written by one
transaction at a time and names at most one owner: a third coordinator can do nothing
that the crash and restart of one of the two cannot. Two calls to one phone show every use of the index and of the
queue's order; the pipeline's calls to different phones meet only in the count of
slots, whose ceiling does not hold (section 5). `Verdict` has one word per run, because
the words differ only in the lifecycle they map to; `EndReason` one or two, because
the reasons fall in the classes `MediaLifecycle` and `TerminalLifecycle` name.
`attempts` is capped: a call that was stalled, bound again and reconciled
again stays at `MaxReconcile`, where the code goes on counting past its limit, with the
same outcome for any count at or over it. `CHECK_DEADLOCK FALSE`: the system may stop, when
every call has ended or is deleted.

In `Streaming`, two stretches of audio are the fewest that can be in two different buffers,
one interrupted and one not, and a mark after every stretch makes `PlayedOut` tight: one
stretch may be behind the last mark, two may not. `MaxBargeIns` is 1: a second soft pause meets the
same buffers, since a resume restores the state before the pause and a commit empties them.
A third provider session is not asked for, because the second finds the engine closing.
A pending deadline is dropped when the engine closes (it would return with nothing done),
and the two seconds of `_await_close_signal` run out only if the pump is not running.

`KeepsLedger` is checked on one call, since a step of the pipeline moves the ledger of one call; what `CallLedger`
says of several - one open call per phone - is `PhoneIndexHolds` and `OneLegPerPhone` of `PipelineOnePhone`.

In `CarrierControl` the lengths keep the order that the settings have: the ring deadline
before the maximum call, the grace long enough for the attempts that `MaxFailures` leaves, `RetryMargin`
at least the grace, and `MaxBackoff` reached by the third attempt. Two failures put the
request that ends the leg behind a capped back-off. Time does not pass while the coordinator has something due: its poll takes
well under the shortest of these lengths. A second TwiML or flow request would only bind again.

In `Selection` the clock runs one tick over the life of an entry, so that entries of every
age meet requests that began before and after them; three requests are a reader, another
on the same worker, and the operator. `TurnTaking` takes the shortest confirmation that
a gap shorter than the hangover can interrupt in the middle (3 frames and 2), and a pause limit over
both; the second pause meets the frames of the first. In `Playback` five frames fill one chunk and leave
a remainder, a mark every two puts a mark and an unmarked frame in flight together, and
the second interruption may come while the first is still clearing. `MaxLate` bounds what the carrier is late in all
since it last held nothing; with two frames a drain on Teler does end while the line still holds audio, by exactly that much. In `MediaSession` four events are
two full batches, so both threads can hold one; the second cancellation arrives in what the first left.

A call has one SID, because it is dialed at most once (`NeverRedialed`), so the SID
comparisons of the code cannot fail; they are left out.

**Deletions and overrides.** `PipelineOnePhone` has no operator besides the one who
queues. With `delete`, `LiveLegIsTracked` and `OneLegPerPhone` do not hold, for the
reason that section 5 gives for `delete_call`; with `resolve` a call may be closed while its leg is
silent about its end. `PipelineRaces` has all operator commands. Its
`TerminalIsSticky` excepts one case, which the code has: `mark_dial_rejected` is
unconditional, so the proven refusal of a submission replaces the outcome an operator
asserted while it was in flight.

## 4. Fairness

`CallPipeline!FairSpec`: a coordinator's loop goes on (`run` catches everything and
backs off; a dead process is replaced), so `WF` on its steps, although `Crash` may come at
any await, for ever; a sweep that is tried for ever succeeds at last (`SF`: it fails only on
database errors); time passes (`WF` on three clock actions); the carrier does not
ask for the flow of one call for ever, since each such request moves the deadlines. Nothing is assumed of the
carrier's webhooks, its answers, the media sockets or the operator.

`ExtractionQueue!FairSpec`: coordinators go on, time passes, processes stop dying at some
point - a crash is not counted as an attempt, so a transcript that always killed its
process would be tried for ever - and requests stop outliving their leases, because the
lease is 30 s longer than the request's own timeout (`run_once`).

`StreamingCall!FairSpec`: the pump and the receive loop go on, a handler that has cancelled a deadline
starts the next, a timer that is left alone goes off,
and while the socket is open the carrier delivers frames (an answered line delivers 50
a second). Nothing is assumed of the provider, which may never speak or close, of the paced
sender, or of the marks: the drain's bounds are there for those. One behaviour of the provider is excepted
in the property itself: each hint to close cancels the pending deadline and starts the grace again
(`conversation_engine.py:439-443`), so a provider that hints for ever, each time before the grace is over, keeps open a call
that only the deadline would end. The model has that behaviour, and `StreamEnds` claims the end of such a
call only if the hints stop. It claims it without that condition for a call that is closing, one whose caller has left, and one
with a deadline nobody can cancel.

`TurnTaking!FairSpec`: the pump and the receive loop go on, a frame comes and time passes
again and again, and a close that was promised comes, since its deadline is armed by
`close_for_silence`. Nothing is assumed of the agent, the paced sender or the marks.

`CarrierPlayback!FairSpec`: the sender task goes on, a clear that was sent returns, and the
carrier plays what it holds, late by `MaxLate` frames at most. Nobody has to speak, interrupt or hang up, and marks
may never be echoed.

`MediaSession!FairSpec`: threads that hold no lock go on, the pool gets to its jobs, a
database call returns (with or without an error), and the event loop runs what is ready. Nobody
has to end a conversation, and the writer's timer is not needed.

`CarrierControl` and `ProviderSelection` have no liveness property. That a leg over its deadline is ended is
stated as a bound in ticks, which needs no fairness because time waits for the coordinator.

## 5. Where code and documentation differ

Two are runs that TLC ends with a counterexample, and entries in `findings` with both
lines quoted.

| Run | In short |
|---|---|
| `DocMuted` | after a confirmed barge-in nobody resumes the paced sender: the agent's next reply is not played |
| `DocEcho` | the idle watcher takes any frame over the threshold for the caller, echo included: on a speakerphone the nudge renews itself, and a deserted line is nudged until the maximum-call deadline |

These statements fail too, each on an instance that can be run as described; they are stated in their modules.
All but the last two are of `MCCallPipeline` with `SPECIFICATION Spec`, `CHECK_DEADLOCK FALSE`, `Worker = {w1}`,
`Capacity = 1`, `MaxReconcile = 1`, `Verdict = {"completed"}`, `EndReason = {}`, `Commands = {}` and `PhoneOf <- OnePhone`,
unless the table says otherwise.

| Statement | Instance | In short |
|---|---|---|
| `CeilingHolds` | `NCalls = 2`, `PhoneOf <- OwnPhones` | a call quarantined and bound late takes a slot again, over the "database-wide active-call ceiling" |
| `QuarantinedIsVisible` | `NCalls = 1` | `_mark_reconciliation_db` guards the call but not the job: a call that ended before it was bound is quarantined, invisible to the operator, and keeps its phone blocked |
| `DeletionSparesUnresolved` (a PROPERTY) | `NCalls = 1`, `EndReason = {"hung_up"}`, `Commands = {"delete"}` | `delete_call` looks at the lifecycle, which the end of the media makes terminal while the call is still active |
| `DeadlineActionResumes` | `NCalls = 1`, `MaxReconcile = 2` | a first deadline action interrupted by a crash has no `next_reconciliation_at` and is never claimed again; only the sweep ends it |
| `GoodbyeIsCompleted` | `MCStreaming` with the constants of `Streaming.cfg` | a call the agent closed is `ai_disconnected` when its audio is refused before the close signal arrives |
| `NothingAfterGoodbye` | the same with `CachedGreeting = FALSE` | agent audio behind the close signal is played; the greeting of a session opened on a closing engine, too |

Other things met on the way:

- a call already queued is dialed though its lead has since been put under review; a live, bound
  call gives its slot back when the answer to its submission is lost;
- after a deletion, `mark_dial_ambiguous`, the stall of a reconciliation and the sweep may be
  refused by the phone index. A late transcript re-creates a deleted row with no
  `provider_terminal_at` and a terminal lifecycle, the phone gets another call, and then
  one of the three sets the first row to `NEEDS_RECONCILIATION`: SQLite raises, the transaction is rolled
  back, and the sweep, which does all its calls in one transaction, fails again each time until
  the other call ends. The proof of `PhoneIndexHolds` met this; `Commit` models it;
- a call may be reconciled more often than `CALL_AGENT_RECONCILIATION_MAX_ATTEMPTS`: a stalled call that is
  bound again loses its reconciliation but keeps its count, and the next failure stalls it at
  once. So `attempts` has no bound in `CarrierControl`'s `TypeOK`;
- a conversation may be hung up on before its deadline in two cases, which `ConversationIsSpared`
  excepts. A reconciliation attempt that began at the ring deadline is not called off when the
  phone is answered, the flow is served and media connects (`claim_due_action` tests
  `media_connected` only when the attempt begins, `sqlite_store.py:713`), and its retry ends the call. And a dial whose
  answer timed out marks the row ambiguous, due at once, though a webhook has
  bound it since (`sqlite_store.py:543`);
- with the default settings the fifth attempt at a reconciliation never happens: the
  back-offs before it, 10, 20, 40 and 80 s, add up to more than the grace of the sweep, 120 s;
- Exotel's `_flush_outbound` keeps a remainder shorter than a chunk and waits for more audio,
  and `audio_currently_playing` does not look at `_outbound_pcm`: the last part of a
  goodbye is never sent, where `_close_after_goodbye` says "Play out whatever the
  agent already generated, then hang up". `NothingStranded` and `DrainHeardIt` except it;
- a soft pause that began just before the drain is ended by nobody, so the goodbye is cut
  at the stall bound; `close_for_silence` sets `_terminal_closing_spoken` before its
  injection, so a refused one gets no fallback goodbye; a call that meets a closing engine opens a second
  provider session, whose failure ends the stream as an error, with no drain;
- a provider that repeats its hint to close within `AGENT_CLOSE_UNSPOKEN_GRACE_SECONDS` postpones the
  deadline each time, so the backstop ends the call only when it has stopped. Two threads that arm it at once start two
  deadlines, of which the first to go off closes the call;
- on Teler the drain reads finished early by what the carrier is late, as `teler_adapter.py:37-39` says it
  will: past the 250 ms of `AGENT_PLAYBACK_TAIL_MS`, the end of the goodbye is cut;
- `MetricsWriter.stop` cancels a flush whose thread has not started: its batch is in nobody's
  hands and not logged (`metrics.py:587`). So is a batch that the listener thread
  holds when the summary is made;
- a handler cancelled in `engine.stop` or in the hangup stops the bridge again from its
  `finally` clause, with the status "completed": a call that ended in an error is stored as finished by
  the agent. A second cancellation there leaves transcript and metrics undone (`TeardownCompletes` excepts it).

## 6. What is proved

Each theorem holds for every value of the constants that the `ASSUME`s of its module
allow; what the properties say is in section 3. All numbers of calls, phones, coordinators, slots, attempts,
stretches of audio, barge-ins, workers, requests, and all settings, are covered.

| Module | Theorem | States |
|---|---|---|
| `CallPipelineProofs` | `TypeCorrect` | `Spec => [](TypeOK /\ HandsFull)` |
| | `SubmittedOnce` | `Spec => []NeverRedialed` |
| | `FinalizedOnBothFacts` | `Spec => []FinalizedExactly` |
| | `EndsOnProof` | `Spec => TerminalNeedsProof` |
| | `PhoneIndexIsKept` | `Spec => []PhoneIndexHolds` |
| | `VerdictStands` | `Spec => TerminalIsSticky` |
| | `SlotsAreAccounted` | `Spec => SlotReleaseIsAccounted` |
| | `OwnerReconciles` | `Spec => OnlyOwnerReconciles` |
| | `LiveLegsAreTracked` | `Spec => []LiveLegIsTracked`, if `Commands = {}` |
| | `OneLegAPhone` | `Spec => []OneLegPerPhone`, if `Commands = {}` |
| | `LedgerIsKept` | `Spec => KeepsLedger`, if `Commands = {}`: the refinement of `CallLedger` |
| `ExtractionProofs` | `ExtractionTypes` | `Spec => []TypeOK` |
| | `RecordsStayTogether` | `Spec => []RecordsAgree` |
| | `RequestsAreHonoured` | `Spec => []DndIsSuppressed` |
| | `LeadsKnow` | `Spec => []LeadsAreFlagged` |
| | `HoldersRecord` | `Spec => OnlyHolderRecords` |
| | `ResultsStand` | `Spec => ResultIsFinal` |
| `StreamingProofs` | `StreamReleasesLine` | `Spec => []LineIsReleased` |
| | `StreamIsSound`, `StreamTypes` | `Spec => []StreamInv`, the inductive invariant, and `Spec => []TypeOK` |
| | `SignalFollowsAudio` | `Spec => []HandedOver` |
| | `InterruptionIsComplete` | `Spec => []InterruptedAudioIsGone` |
| | `GoodbyeIsPlayed` | `Spec => []PlayedOut` |
| `PlaybackProofs` | `PlaybackTypes` | `Spec => []TypeOK` |
| | `AudioIsNotLost` | `Spec => []NothingLost` |
| | `DrainWasHeard` | `Spec => DrainHeardIt` |
| `MediaProofs` | `MediaTypes` | `Spec => []TypeOK` |
| | `EventsAreWrittenOnce` | `Spec => []WrittenOnce` |
| `CarrierProofs` | `ControlTypes` | `Spec => []TypeOK` |
| | `VerdictIsTrue` | `Spec => []VerdictIsTheLegs` |
| | `ConversationsAreSpared` | `Spec => ConversationIsSpared` |
| | `OverdueLegsEnd` | `Spec => []OverdueLegIsEnded`, if `PatientSweep` |
| | `TokensLast` | `Spec => []TokensOutliveUse`, if `LastingTokens` |
| `SelectionProofs` | `TypeCorrect` | `Spec => []TypeOK` |
| | `ChoiceFresh` | `Spec => []ChoiceIsFresh` |
| | `DialableCalls` | `Spec => []CallIsDialable`; it depends on one step only, so no run repeats it |

### The pipeline

*Types.* Lemmas say of every row operator of `CallStore` that it maps rows to rows
(`SetJobType`, `DialRowTypes`, `StatusRowTypes`, ...), then of every transaction that it maps
tables to tables; the step lemmas (`WorkerKeepsTypes`, `OthersKeepTypes`) go through the
actions. `HandsFull` - a coordinator inside `_dial` or `_reconcile`, and a resolve request
being served, have a call in hand - is part of the induction, because `leg'[worker[w].call]`
would otherwise be about no call.

*`SubmittedOnce`.* `NeverRedialed` is not inductive: it says nothing of the queued call,
whose claim is the step that must find no leg and nobody dialing. `DialInv` adds that: a
call that is absent or queued (`Fresh`) has no leg and no coordinator about to submit it
(`Untouched`). `RowsAge` shows that of all row operators only those of `enqueue_call` and
`relinquish_claim` make a row fresh; the interesting steps are the claim (`ClaimStep`) and the
shutdown (`ShutDownStep`), where the claim given back must be the coordinator's own.

*`FinalizedOnBothFacts`.* `Settled`, the property of one row, is kept by `PersistRow` and
`TerminalRow` in either order. `RejectRow` sets `finalized_at` with no look at the media, so
the invariant must know that a refused call never had any: `EndInv` says that media is only
met on a leg that was answered or has ended, and `LegsOnlyProgress` that a leg never goes
back.

*`EndsOnProof`.* The verdict is written two awaits after the lookup that saw it
(`RecordProof`), or one after the refusal (`RecordRejected`). `EndInv` carries the fact across:
a coordinator at `resolve` holds the status its leg ended with, one at `reject` a leg that
was refused, and neither changes any more (`Reassemble`, `WorkerEnds`, `OthersEnd`).

*The steps.* The properties that the second and third parts of `CallPipelineProofs` are about ask what a step may do to a row.
`RowChanges` of `CallStoreProofs` answers once for all: whatever transaction ran, each row is
as it was, or quarantined, claimed, given back, bound, rejected, connected, persisted, finished, canceled, retried,
or resolved, and each of these is a short statement of what it changes. `StepEffects` adds who
did it: the owner, a coordinator whose submission was refused, a webhook, the operator. The
invariant is `CallInv == TypeInv /\ DialInv /\ EndInv /\ Rows /\ ClaimInv`: `Rows` relates the columns of one
row (a call waiting for its dial is open, with no SID and no media; a row leaves the index only with a terminal status or a
transcript; a job is over only for a terminal call). `ClaimInv` says that a call is in the hands of one coordinator at most
from the claim to the record of a refusal, and is terminal there only on an operator's word, and what an
operator's request that is being served is about.

*`PhoneIndexIsKept`.* A row enters the index when it is queued, or re-opened by one of the transactions that
go through `Commit`; `RowsOpen` shows that no other change opens a row. The first version
of the model did not know that the others may be refused, and the proof failed on it: section 5 has the case.

*The ledger.* `LedgerInv` says that every row is explained by its leg (`Explained`), and that one phone has one call
that is neither absent nor terminal (`OnePending`). `LedgerRow` maps each change of a row to an action of
`CallLedger` or to a stutter, `LegStepMaps` each step of the carrier, and `LedgerIsKept` puts them
together. `Commands = {}` is needed, not convenient: `delete` and `clear` remove the row of a live
leg (section 5), and `resolve` closes a call with a verdict that its leg may not bear out.

### Extraction

`RecordsAgree`, `DndIsSuppressed` and `LeadsAreFlagged` are conjunctions over the calls, and so is what they
need: `Settled(c)` says which states job, row, answer and leads may be in together, for one call.
Most steps leave a call as it was in all that `Settled` looks at (`Steady`), or blank it (`Blank`); the others
are one lemma each. The hard ones are `CompleteSettles`, where the leads that are linked now, and not those that were when the
request began, get the flags; `DeleteSettles` and `ClearSettles`, where the suppression list must
survive the call that put the phone on it; and `PersistSettles`, where a late transcript brings back a deleted row.
The two action properties follow from what a step does to one job (`JobSteps`).

### The stream

*`StreamReleasesLine`.* `LineIsReleased` speaks of a stream that is over; `Owed` says what the
paths to that end owe the carrier while the caller is on the line: the receive loop is told
to stop only by a hangup, and reaches its `finally` clause hung up already or with
one of the two statuses for which the clause hangs up. `Decide`, the way out of the loop
after a frame, is the step that needs the first of these; a pump or sender that stops the
loop does so at a socket that refused it, when nobody is on the line.

*`StreamIsSound`.* The other three need to know where everything is. `QueueInv`: the queue is in the order
of generation, and the close signal stands behind what had been generated when the engine closed and before what came
later. `PauseInv`: an undecided pause stands before all audio on the queue, and the sender has nothing to send while the
carrier clears. `CutInv`: nothing at or before the last committed cut is left in the queue, the sender or the
line. `CloseInv`: a close signal is on the queue, or has come through, only if somebody closed the engine, and what is queued
behind it is later. `MarkInv`: of what the carrier holds, all but the stretches sent since the last mark is
followed by a mark that is still to be echoed. `DrainInv`: what a drain that came to its end may have left. `DiscardLeaves`, about `_discard_and_clear`, is the lemma the
interruption rests on: rebuilding the queue keeps the signals, in order, and drops the audio of the prefix only,
so the close signal can neither be lost nor overtake. `PostSound`, `TakeSound` and `DiscardSound` do the queue;
`SendSound`, `MarkSound` and `CarrierSound` the marks; `DrainSound` the end.

### The playback

*`AudioIsNotLost`.* `NothingLost` puts four buffers - the line, the write in flight, the chunk, the sender's
buffer - behind what was played, and is not inductive as it stands: whether the next frame is
greater than all before it depends on all that was played, and not on the last. `OrderInv` says so of every pair. `OrderStep`
follows one frame from the generation to the ear: most steps move a frame from the head of one
buffer to the tail of the one before it, which `Regrouped` shows to leave the order as it was; a barge-in moves what
is in the buffers to `cut`, once.

*`DrainWasHeard`.* The drain ends on what `audio_currently_playing` looks at, which is not the line but its shadow: the
marks that Twilio and Exotel have not echoed, or Teler's modelled `playout`. `CoverInv` says that the shadow is long enough. On the first two
the last frame that was written and is not too young to have a mark (`Covered`) is a frame whose mark
is awaited; on Teler the line is never longer than the playout, the write in flight and what the carrier is late
together. That is kept by a write because the playout is extended before the next one is made
(`BacklogInv`), by an interruption because the line is cleared with the playout, and by a tick because a
carrier that does not play what it holds gets later by one (`Ticked`). What the adapter has no means to see is `Unseen`: Twilio's frames
behind the last mark, and on Teler the carrier's lateness, for which the theorem gives no bound: it holds for every `MaxLate`.

### The metrics

`WrittenOnce` says that no event is in two places. Without knowing how many there are, a step
cannot show that: `Accounted` says that the places together have as many entries as events were stamped, and
that what they hold is exactly these events. From that, `AccountedIsWrittenOnce` counts: `count` entries
with `count` different events have no event twice. A step of a thread, the writer or the pool moves a whole batch,
and the lemmas are about that: `BatchLeaves`, `BatchTaken`, and `CancelledWrite`, where `stop` takes
back a flush that had not started and its batch joins what is lost. `PlaceInv` is why a move never overwrites: a job is
submitted only when none of its name holds a batch.

### The carrier

`VerdictIsTheLegs` is about the row, and the words arrive by four ways: webhook, lookup, refusal and the
answer to the dial. `Words` is the lemma about the vocabularies: whatever word a carrier uses of a leg,
after normalization a terminal status is said exactly of a leg that is over, and as it is. It is one case for each
carrier, words this build does not know among them. `LegInv` makes `past` safe to report from: of all that a leg has been only
its end is terminal. `RecInv` carries what the reconciler was told over its awaits,
and that Twilio - which records what it is asked for - is asked to complete only what was answered.
`DialInv` is about the window in which a leg exists and its id has not been bound: nobody can reconcile
it there, no deadline runs, and no row says anything of a leg that there is not.

`ConversationsAreSpared` needs `SpareInv`: whenever a reconciliation is pending or under way, one of the
reasons that the property names holds. The converse of it is where `Correlated` matters: the flow's request starts the
deadlines again, and drops the reconciliation, so that the reason that has just gone is not needed any more.

*`OverdueLegsEnd`, `TokensLast`.* These do not hold for every setting, and the proofs say what the settings must
be. `PatientSweep`: the grace of the sweep is longer than the first `MaxFailures + 1` back-offs together, and the
budget has more attempts than that. `LastingTokens`: a stream token outlives the ring deadline, and the
margin of a callback token the ring deadline and the first `MaxFailures` back-offs. The one back-off beyond the failed requests is
Twilio's: a cancellation that crosses the answer changes nothing, which can happen once (`AttemptInv`). `DatesInv` and `NotOver` say
that time passes over a live leg only while a deadline or a back-off is running; so the time over the deadline
is the sum of the back-offs so far, less what is left of the last (`OverdueInv`), and the age of a
callback token that sum after a ring and a call (`CallbackInv`). `CarrierControl.cfg` satisfies both conditions, and so do the defaults
with ten-second ticks (ring 5, call 90, grace 12, stream token 30, margin 360, 5 attempts) and two failures; with three and
a crossed cancellation, the back-offs (15 ticks) exceed the grace, and the sweep may give up a leg that the next attempt would have ended.

Two defects of the model came out of this proof and are mended: a `CASE` whose guards overlapped, which TLC takes
in the order of writing and TLA+ does not, and the bound of `attempts` (section 5). The exponent of the back-off
is now capped as in the code.

### The choice of carrier

*`ChoiceFresh`.* `ChoiceIsFresh` speaks of requests that have decided. `FreshInv` adds what
they decide from: no choice retired in the future (`Past`); an entry of a cache holds a
value that was in force when the entry is dated, or later (`EntriesHold`); so does
what a thread has read and not yet stored, from the moment the thread looked at the clock
(`ReadingsHold`). The last is where the code is right and nearly is not: the date of an
entry is taken before the row is read, so an entry is never younger than its value, and a
thread that fills the cache after a change has cleared it stores an old value under an
old date. `Monotone` says that the moment at which a choice was last in force never moves back; with
it, the invariant about one thread or cache survives every step of the others.

*`DialableCalls`.* `Fallback` shows that the search through the candidates finds a configured
carrier when there is one; `Resolved` that `ResolveProvider` returns one in every case.

### Only model-checked

Liveness under fairness (`SlotIsReleased`, `ExtractionEnds`, `StreamEnds`, the properties of `TurnTaking`,
`TeardownCompletes`) is beyond the prover, and so is ENABLED.
`DecidedOnEvidence` is the next theorem of the plan. `NothingStranded`, `PauseEnds` and the others
under `FairSpec` are liveness.

## 7. Plan

In this order:

1. A proof of the remaining safety property, `DecidedOnEvidence`, whose frames are sequences of evidence.
2. An abstract specification of a stream - agent audio is heard in order, up to an
   interruption, and the goodbye before the hangup - implemented by `StreamingCall`, and a
   composition with `CallPipeline` in which the reason a stream ends with is the one `StreamingCall` gives.
3. `TurnTaking` composed with `StreamingCall`, so that an interruption is decided and carried
   out in one model.
4. The session's state machine with the two threads that move it, and the call manager.

## 8. Not modelled

Of the store: descriptive columns, `leads.status` and `last_call_id`, idempotency keys,
the events of `call_events` other than the metrics, the order among several due extraction jobs or
actions, the compatibility wrappers `save_extraction` and `extraction_failed`, migrations,
exports and statistics. Migrations run once, before any coordinator.

Of the routes: signatures, the optional address allowlist, payload decoding. A token is what is left of
its life; its digest, and a token that was not minted here, are not modelled.

Of the media path: energies and the estimate of the noise floor, which only choose among the kinds of a
frame; the reframing of the carriers' inbound chunks; pacing in real time and the sender's lead; codecs,
greeting cache and dump. The hard interruption of the browser adapter, and browser calls, which have no job. The
Asterisk and GSM adapters are stubs.

Of the session: `CallStateMachine` and the registry. Its transition table is a function without branches, an illegal
transition is refused silently, and no stored value is decided by it; reading it showed only that
a call that ends before the agent is active stays `CONNECTED` in memory. `session.finish`, which does decide
something, is in `MediaSession`. The call status tracker is a bounded log in memory with no reader in the pipeline.

The content of transcripts and answers, of prompts and prices, and the wording of errors and
logs. Of the metrics, what the events measure. Dashboards and the scripts under `src/scripts/`: reports and
checks run by hand on what the system has stored.
