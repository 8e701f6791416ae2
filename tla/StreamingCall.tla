---------------------------- MODULE StreamingCall ----------------------------
(***************************************************************************)
(* One call while its media socket is open: the receive loop and the       *)
(* outbound pump of StreamingMediaAdapter, the paced sender, the output    *)
(* queue of AudioBridge and the closing flags of ConversationEngine, which *)
(* the listener thread of a provider session sets while the event loop     *)
(* runs.                                                                   *)
(*                                                                         *)
(* A listener thread posts callbacks to the event loop, which runs them in *)
(* order, and each puts one message on the bridge's queue: posted          *)
(* callbacks are modelled as the end of that queue.                        *)
(*                                                                         *)
(* Agent audio is numbered in the order in which it is generated, a        *)
(* number standing for a stretch of it.  Caller audio has no content: how  *)
(* long a voice lasts, hence how a soft pause is decided, is left open.    *)
(* A step of the model is what a task does between two awaits.             *)
(***************************************************************************)
EXTENDS Naturals, Sequences, FiniteSets, SequencesExt

CONSTANTS
    MaxAudio,        \* bound: stretches of agent audio in the call
    MaxBargeIns,     \* bound: UserStartedSpeaking events
    MarkEvery,       \* MARK_EVERY_N_FRAMES
    CachedGreeting   \* is the greeting pre-rendered (greeting_already_played)?

ASSUME StreamAssumption ==
    /\ MaxAudio \in Nat \ {0}
    /\ MaxBargeIns \in Nat
    /\ MarkEvery \in Nat \ {0}
    /\ CachedGreeting \in BOOLEAN

VARIABLES
    turn,        \* turn[s]: what provider session s is doing
    generated,   \* agent audio so far
    bargeIns,    \* UserStartedSpeaking events so far
    engine,      \* the flags of ConversationEngine
    outbound,    \* AudioBridge.outbound_queue, and the callbacks posted behind it
    pump,        \* the outbound pump
    sender,      \* PacedSender
    pending,     \* _pending_marks: the audio each mark follows
    pause,       \* the soft pause, and the audio generated before it
    line,        \* audio the carrier holds for the caller and has not played
    socket,      \* over: the carrier has sent "stop", or closed the socket
    loop,        \* the receive loop and the flags it looks at
    hungUp,      \* _completed_via_api: the carrier has been asked to end the call
    cut,         \* history: audio generated before the last committed barge-in
    promise      \* history: who closed the engine, and the audio generated by then

providerVars == <<turn, generated, bargeIns>>
engineVars == <<engine, promise>>
playVars == <<pump, sender, pending, pause, cut>>
carrierVars == <<line, socket>>
vars == <<providerVars, engineVars, outbound, playVars, carrierVars, loop, hungUp>>

Frame == 1..MaxAudio
Session == 1..2         \* a third is not asked for: see StartEngine
Message == [type : {"audio", "pause", "interrupt", "control"}, frame : 0..MaxAudio]

Audio(f) == [type |-> "audio", frame |-> f]
Pause == [type |-> "pause", frame |-> generated]    \* frame: what came before
Interrupt(f) == [type |-> "interrupt", frame |-> f]
Control == [type |-> "control", frame |-> 0]

FramesOf(messages) == {m.frame : m \in {n \in ToSet(messages) : n.type = "audio"}}

PC == {"receive", "inject", "start", "send", "sent",
       "handoff", "drain", "tail", "finally", "done"}
Status == {"completed", "ai_disconnected", "client_disconnected", "error"}

\* Every variable has a value of its kind.
TypeOK ==
    /\ turn \in [Session -> {"none", "idle", "speaking", "over"}]
    /\ generated \in 0..MaxAudio /\ bargeIns \in 0..MaxBargeIns
    /\ engine \in [closing_requested : BOOLEAN, close_after_audio_done : BOOLEAN,
                   terminal_closing_spoken : BOOLEAN, close_deadline : BOOLEAN,
                   stray_deadline : BOOLEAN, arming : SUBSET Session]
    /\ outbound \in Seq(Message)
    /\ pump \in {"run", "clear", "dead"}
    /\ sender \in [buffer : Seq(Frame), paused : BOOLEAN, sending : 0..MaxAudio,
                   since_mark : 0..(MarkEvery - 1), alive : BOOLEAN]
    /\ pending \subseteq Frame
    /\ pause \in [active : BOOLEAN, upto : 0..MaxAudio]
    /\ line \in Seq(Frame) /\ socket \in {"open", "over"}
    /\ loop \in [pc : PC, status : Status, closing_requested : BOOLEAN,
                 close_after_playback : BOOLEAN, gave_up : BOOLEAN,
                 drained : {"no", "finished", "blind", "gave_up", "left"}]
    /\ hungUp \in BOOLEAN
    /\ cut \in 0..MaxAudio
    /\ promise \in [by : {"nobody", "agent", "provider"}, upto : 0..MaxAudio]

NoPause == [active |-> FALSE, upto |-> 0]
Greeting == IF CachedGreeting THEN <<1>> ELSE <<>>

Init ==
    /\ turn = [s \in Session |-> "none"]
    /\ generated = Len(Greeting) /\ bargeIns = 0
    /\ engine = [closing_requested |-> FALSE, close_after_audio_done |-> FALSE,
                 terminal_closing_spoken |-> FALSE, close_deadline |-> FALSE,
                 stray_deadline |-> FALSE, arming |-> {}]
    /\ outbound = <<>>
    /\ pump = "run"
    /\ sender = [buffer |-> Greeting, paused |-> FALSE, sending |-> 0,
                 since_mark |-> 0, alive |-> TRUE]
    /\ pending = {} /\ pause = NoPause
    /\ line = <<>> /\ socket = "open"
    /\ loop = [pc |-> "receive", status |-> "completed", closing_requested |-> FALSE,
               close_after_playback |-> FALSE, gave_up |-> FALSE, drained |-> "no"]
    /\ hungUp = FALSE /\ cut = 0
    /\ promise = [by |-> "nobody", upto |-> 0]

----------------------------------------------------------------------------
(* ConversationEngine: events of a provider session, on its listener       *)
(* thread, and the close deadline                                          *)

\* A listener that arms the deadline is between the cancellation of the old one
\* and the start of the new: its thread handles nothing else.
Listening(s) == turn[s] \in {"idle", "speaking"} /\ s \notin engine.arming

\* A second session is opened by an engine that sends it no audio: it has
\* nothing to say but its greeting.
Speaks(s) == Listening(s) /\ (s = 1 \/ ~CachedGreeting)

\* Variant that is wrong: the close signal overtakes the audio.
FinishFirst(by, last) ==
    /\ engine' = [engine EXCEPT !.closing_requested = TRUE, !.close_deadline = FALSE,
                                !.stray_deadline = FALSE]
    /\ promise' = IF promise.by = "nobody" THEN [by |-> by, upto |-> generated'] ELSE promise
    /\ outbound' = (IF engine.closing_requested THEN <<>> ELSE <<Control>>) \o outbound \o last

\* The engine is closing: the flag at once, on_finished through the loop,
\* behind the callbacks posted before.  A second on_finished would set a flag
\* that is or will be set, and is not posted.  _deepgram_closed is not modelled:
\* it is set only where closing_requested is, which nothing resets, and is
\* tested only together with it.
Finish(by, last) ==
    /\ engine' = [engine EXCEPT !.closing_requested = TRUE, !.close_deadline = FALSE,
                                !.stray_deadline = FALSE]
    /\ promise' = IF promise.by = "nobody" THEN [by |-> by, upto |-> generated'] ELSE promise
    /\ outbound' = outbound \o last \o (IF engine.closing_requested THEN <<>> ELSE <<Control>>)

\* _arm_close_deadline: the deadline that is pending is cancelled and a new one
\* started.  One that will find the engine closing returns with nothing done: it
\* is taken to be gone.
Armed == [engine EXCEPT !.close_deadline = ~engine.closing_requested]

\* ConversationText of the assistant with a line that ends the call: of no
\* further effect when it is closing.
TerminalText(s) ==
    /\ Speaks(s) /\ ~engine.closing_requested
    /\ engine' = [engine EXCEPT !.terminal_closing_spoken = TRUE, !.close_after_audio_done = TRUE]
    /\ UNCHANGED <<providerVars, promise, outbound, playVars, carrierVars, loop, hungUp>>

AgentAudio(s) ==
    /\ Speaks(s) /\ generated < MaxAudio
    /\ turn' = [turn EXCEPT ![s] = "speaking"]
    /\ generated' = generated + 1
    /\ outbound' = Append(outbound, Audio(generated + 1))
    /\ UNCHANGED <<bargeIns, engineVars, playVars, carrierVars, loop, hungUp>>

AgentAudioDone(s) ==
    /\ Listening(s) /\ turn[s] = "speaking"
    /\ turn' = [turn EXCEPT ![s] = "idle"]
    /\ UNCHANGED <<generated, bargeIns>>
    /\ IF engine.close_after_audio_done
       THEN Finish("agent", <<>>)
       ELSE UNCHANGED <<engineVars, outbound>>
    /\ UNCHANGED <<playVars, carrierVars, loop, hungUp>>

\* The provider may break off what it was saying.
UserStartedSpeaking(s) ==
    /\ Listening(s) /\ bargeIns < MaxBargeIns
    /\ bargeIns' = bargeIns + 1
    /\ \E t \in {turn[s], "idle"} : turn' = [turn EXCEPT ![s] = t]
    /\ outbound' = Append(outbound, Pause)
    /\ UNCHANGED <<generated, engineVars, playVars, carrierVars, loop, hungUp>>

\* A hint to close counts once a goodbye was spoken; before, it arms the deadline,
\* which a listener does on its own thread, in two steps.
ClosingHint(s) ==
    /\ Listening(s)
    /\ \/ /\ engine.terminal_closing_spoken
          /\ engine' = [engine EXCEPT !.close_after_audio_done = TRUE]
       \/ /\ ~engine.terminal_closing_spoken /\ ~engine.closing_requested
          /\ engine' = [engine EXCEPT !.close_deadline = FALSE, !.arming = @ \cup {s}]
    /\ UNCHANGED <<providerVars, promise, outbound, playVars, carrierVars, loop, hungUp>>

\* Variant that is wrong: the old deadline is cancelled and no new one started.
CancelOnly(s) ==
    /\ s \in engine.arming
    /\ engine' = [engine EXCEPT !.arming = @ \ {s}]
    /\ UNCHANGED <<providerVars, promise, outbound, playVars, carrierVars, loop, hungUp>>

\* A deadline that another thread has started meanwhile is lost sight of: it runs
\* on, and nobody can cancel it.
StartDeadline(s) ==
    /\ s \in engine.arming
    /\ engine' = [Armed EXCEPT !.arming = @ \ {s},
                               !.stray_deadline = @ \/ engine.close_deadline]
    /\ UNCHANGED <<providerVars, promise, outbound, playVars, carrierVars, loop, hungUp>>

OnClose(s) ==
    /\ Listening(s)
    /\ turn' = [turn EXCEPT ![s] = "over"]
    /\ UNCHANGED <<generated, bargeIns>>
    /\ IF engine.closing_requested
       THEN UNCHANGED <<engineVars, outbound>>
       ELSE Finish("provider", <<>>)
    /\ UNCHANGED <<playVars, carrierVars, loop, hungUp>>

OnError(s) ==
    /\ Listening(s)
    /\ turn' = [turn EXCEPT ![s] = "over"]
    /\ UNCHANGED <<generated, bargeIns>>
    /\ Finish("provider", <<>>)
    /\ UNCHANGED <<playVars, carrierVars, loop, hungUp>>

Started == (\E s \in Session : turn[s] # "none") /\ ~engine.closing_requested

KeepaliveFails ==
    /\ Started
    /\ UNCHANGED providerVars
    /\ Finish("provider", <<>>)
    /\ UNCHANGED <<playVars, carrierVars, loop, hungUp>>

\* The goodbye nobody spoke is spoken from the cache, if it was rendered.  A
\* callback that is posted when the deadline has just passed counts as posted
\* after it.
CloseAfterGrace ==
    /\ engine.close_deadline \/ engine.stray_deadline
    /\ \/ /\ UNCHANGED generated
          /\ Finish("agent", <<>>)
       \/ /\ ~engine.terminal_closing_spoken /\ generated < MaxAudio
          /\ generated' = generated + 1
          /\ Finish("agent", <<Audio(generated + 1)>>)
    /\ UNCHANGED <<turn, bargeIns, playVars, carrierVars, loop, hungUp>>

----------------------------------------------------------------------------
(* The event loop, the outbound pump and the paced sender                  *)

NextOutput(type) ==
    /\ pump = "run" /\ outbound # <<>> /\ Head(outbound).type = type
    /\ outbound' = Tail(outbound)
    /\ UNCHANGED <<providerVars, engineVars, pending, cut, carrierVars, hungUp>>

Feed ==
    /\ NextOutput("audio")
    /\ sender' = [sender EXCEPT !.buffer = Append(@, Head(outbound).frame)]
    /\ UNCHANGED <<pump, pause, loop>>

BeginSoftPause ==
    /\ NextOutput("pause")
    /\ sender' = [sender EXCEPT !.paused = TRUE]
    /\ pause' = [active |-> TRUE, upto |-> Head(outbound).frame]
    /\ UNCHANGED <<pump, loop>>

\* discard, then the carrier is told to clear, which is awaited.
BeginInterrupt ==
    /\ NextOutput("interrupt")
    /\ sender' = [sender EXCEPT !.buffer = <<>>]
    /\ pause' = [active |-> FALSE, upto |-> Head(outbound).frame]
    /\ pump' = "clear"
    /\ UNCHANGED loop

CloseSignal ==
    /\ NextOutput("control")
    /\ loop' = [loop EXCEPT !.close_after_playback = TRUE]
    /\ UNCHANGED <<pump, sender, pause>>

\* Variant that is wrong: the carrier is not told.
KeepLine ==
    /\ pump = "clear"
    /\ pump' = "run"
    /\ pending' = {}
    /\ cut' = pause.upto
    /\ UNCHANGED <<providerVars, engineVars, outbound, sender, pause, carrierVars, loop, hungUp>>

ClearPlayback ==
    /\ pump = "clear"
    /\ pump' = "run"
    /\ line' = <<>> /\ pending' = {}
    /\ cut' = pause.upto
    /\ UNCHANGED <<providerVars, engineVars, outbound, sender, pause, socket, loop, hungUp>>

\* The socket refuses the message, and the pump ends.
ClearFails ==
    /\ pump = "clear" /\ socket = "over"
    /\ pump' = "dead"
    /\ sender' = [sender EXCEPT !.alive = FALSE]
    /\ loop' = [loop EXCEPT !.closing_requested = TRUE]
    /\ UNCHANGED <<providerVars, engineVars, outbound, pending, pause, cut, carrierVars, hungUp>>

SendFrame ==
    /\ sender.alive /\ ~sender.paused /\ sender.sending = 0 /\ sender.buffer # <<>>
    /\ LET f == Head(sender.buffer)
           rest == [sender EXCEPT !.buffer = Tail(@)] IN
       \/ /\ sender' = [rest EXCEPT !.sending = f]
          /\ line' = IF socket = "open" THEN Append(line, f) ELSE <<>>
          /\ UNCHANGED loop
       \/ /\ socket = "over"
          /\ sender' = [rest EXCEPT !.alive = FALSE]
          /\ loop' = [loop EXCEPT !.closing_requested = TRUE]
          /\ UNCHANGED line
    /\ UNCHANGED <<providerVars, engineVars, outbound, pump, pending, pause, cut, socket, hungUp>>

\* Variant that is wrong: the count of frames is not reset by a mark.
CountsOn ==
    /\ sender.sending # 0
    /\ sender' = [sender EXCEPT !.sending = 0, !.since_mark = @ + 1]
    /\ pending' = IF sender.since_mark + 1 >= MarkEvery
                  THEN pending \cup {sender.sending} ELSE pending
    /\ UNCHANGED <<providerVars, engineVars, outbound, pump, pause, cut, carrierVars, loop, hungUp>>

\* _on_frame_sent, with the mark it may be time for.
FrameSent ==
    /\ sender.sending # 0
    /\ LET mark == sender.since_mark + 1 = MarkEvery IN
       /\ sender' = [sender EXCEPT !.sending = 0, !.since_mark = IF mark THEN 0 ELSE @ + 1]
       /\ \/ pending' = IF mark THEN pending \cup {sender.sending} ELSE pending
          \/ socket = "over" /\ UNCHANGED pending
    /\ UNCHANGED <<providerVars, engineVars, outbound, pump, pause, cut, carrierVars, loop, hungUp>>

\* Variant that is wrong: what the carrier has not acknowledged is forgotten.
PlayingHere == sender.buffer # <<>>

\* audio_currently_playing
Playing == pending # {} \/ sender.buffer # <<>>

----------------------------------------------------------------------------
(* The receive loop                                                        *)

Goto(pc) == loop' = [loop EXCEPT !.pc = pc]

EndStream(status) == loop' = [loop EXCEPT !.pc = "finally", !.status = status]

\* The close signals among the first n messages, one like the other.
Signals(n) == [i \in 1..Cardinality({j \in 1..n : outbound[j].type = "control"}) |-> Control]

\* commit_interruption: of the messages the loop has put on the queue so far,
\* the first n, only close signals are kept.
DiscardAndClear(n) ==
    outbound' = <<Interrupt(pause.upto)>> \o Signals(n) \o SubSeq(outbound, n + 1, Len(outbound))

\* _process_barge_in_signal: wait, commit, or resume (backchannel or timeout).
BargeIn ==
    \/ UNCHANGED <<outbound, sender, pause>>
    \/ /\ pause.active /\ pause' = NoPause
       /\ \E n \in 0..Len(outbound) : DiscardAndClear(n)
       /\ UNCHANGED sender
    \/ /\ pause.active /\ pause' = NoPause
       /\ sender' = [sender EXCEPT !.paused = FALSE]
       /\ UNCHANGED outbound

\* The frame itself: barge-in, then the engine, started anew when it is not healthy.
HandleFrame ==
    /\ BargeIn
    /\ Goto(IF Started THEN "send" ELSE "start")

ReceiveFrame ==
    /\ loop.pc = "receive" /\ socket = "open"
    /\ HandleFrame
    /\ UNCHANGED <<providerVars, engineVars, pump, pending, cut, carrierVars, hungUp>>

\* _observe_idle gives up on a silent line: close_for_silence, then the frame.
GiveUp ==
    /\ loop.pc = "receive" /\ socket = "open"
    /\ ~loop.closing_requested /\ ~loop.close_after_playback
    /\ ~Playing /\ ~loop.gave_up /\ \E s \in Session : turn[s] # "none"
    /\ engine' = [engine EXCEPT !.terminal_closing_spoken = TRUE, !.close_after_audio_done = TRUE]
    /\ loop' = [loop EXCEPT !.pc = "inject", !.gave_up = TRUE]
    /\ UNCHANGED <<providerVars, promise, outbound, playVars, carrierVars, hungUp>>

\* The injection has been sent, or refused; then the deadline is armed.
Injected ==
    /\ loop.pc = "inject"
    /\ engine' = Armed
    /\ HandleFrame
    /\ UNCHANGED <<providerVars, promise, pump, pending, cut, carrierVars, hungUp>>

\* A new provider session.  The second is opened by a loop that finds the engine
\* closing; it then refuses the audio and the loop leaves.
StartEngine ==
    /\ loop.pc = "start"
    /\ \/ /\ \E s \in Session :
              /\ turn[s] = "none" /\ \A r \in 1..(s - 1) : turn[r] # "none"
              /\ turn' = [turn EXCEPT ![s] = "idle"]
          /\ Goto("send")
       \/ /\ EndStream("error")
          /\ UNCHANGED turn
    /\ UNCHANGED <<generated, bargeIns, engineVars, outbound, playVars, carrierVars, hungUp>>

\* What the loop does when receive_telephony_audio has returned.
Decide(accepted) ==
    IF accepted /\ ~loop.close_after_playback
    THEN Goto(IF loop.closing_requested THEN "finally" ELSE "receive")
    ELSE loop' = [loop EXCEPT !.pc = "handoff",
                              !.status = IF loop.close_after_playback THEN "completed"
                                         ELSE "ai_disconnected"]

SendAudio ==
    /\ loop.pc = "send"
    /\ IF engine.closing_requested THEN Decide(FALSE) ELSE Goto("sent")
    /\ UNCHANGED <<providerVars, engineVars, outbound, playVars, carrierVars, hungUp>>

AudioSent ==
    /\ loop.pc = "sent"
    /\ \/ Decide(TRUE) /\ UNCHANGED <<engineVars, outbound>>
       \/ Decide(FALSE) /\ UNCHANGED generated /\ Finish("provider", <<>>)
    /\ UNCHANGED <<providerVars, playVars, carrierVars, hungUp>>

\* "stop" ends the stream, and so does a socket that is gone.
SocketEnds ==
    /\ loop.pc = "receive" /\ socket # "open"
    /\ \E status \in {"completed", "client_disconnected"} : EndStream(status)
    /\ UNCHANGED <<providerVars, engineVars, outbound, playVars, carrierVars, hungUp>>

----------------------------------------------------------------------------
(* _close_after_goodbye                                                    *)

\* The two seconds of the wait run out only if the pump is not running.
AwaitCloseSignal ==
    /\ loop.pc = "handoff"
    /\ loop.close_after_playback \/ pump # "run"
    /\ Goto("drain")
    /\ UNCHANGED <<providerVars, engineVars, outbound, playVars, carrierVars, hungUp>>

Drained(how) == loop' = [loop EXCEPT !.pc = "tail", !.drained = how]

\* Nothing is playing; only with the close signal does that say that everything
\* has been played.
DrainFinishes ==
    /\ loop.pc = "drain" /\ ~Playing
    /\ Drained(IF loop.close_after_playback THEN "finished" ELSE "blind")
    /\ UNCHANGED <<providerVars, engineVars, outbound, playVars, carrierVars, hungUp>>

\* Stalled, or at the cap.
DrainGivesUp ==
    /\ loop.pc = "drain" /\ Playing
    /\ Drained("gave_up")
    /\ UNCHANGED <<providerVars, engineVars, outbound, playVars, carrierVars, hungUp>>

CallerGone ==
    /\ loop.pc = "drain" /\ Playing /\ socket # "open"
    /\ Drained("left")
    /\ sender' = [sender EXCEPT !.buffer = <<>>] /\ pending' = {}
    /\ UNCHANGED <<providerVars, engineVars, outbound, pump, pause, cut, carrierVars, hungUp>>

HangUp ==
    /\ loop.pc = "tail"
    /\ hungUp' = TRUE
    /\ loop' = [loop EXCEPT !.pc = "finally", !.closing_requested = TRUE]
    /\ UNCHANGED <<providerVars, engineVars, outbound, playVars, carrierVars>>

\* Variant that is wrong: a stream that ends in an error does not hang up.
FinallyQuietly == hungUp' = (hungUp \/ loop.status = "ai_disconnected")

\* _complete_provider_call in the finally clause.
CompleteAtLast == hungUp' = (hungUp \/ loop.status \in {"ai_disconnected", "error"})

\* The finally clause of start, with AudioBridge.stop.
Finally ==
    /\ loop.pc = "finally"
    /\ CompleteAtLast
    /\ pump' = "dead" /\ sender' = [sender EXCEPT !.alive = FALSE]
    /\ engine' = [engine EXCEPT !.closing_requested = TRUE, !.close_deadline = FALSE]
    /\ Goto("done")
    /\ UNCHANGED <<providerVars, promise, outbound, pending, pause, cut, carrierVars>>

----------------------------------------------------------------------------
(* The carrier                                                             *)

CarrierPlays ==
    /\ line # <<>> /\ socket = "open" /\ ~hungUp
    /\ line' = Tail(line)
    /\ UNCHANGED <<providerVars, engineVars, outbound, playVars, socket, loop, hungUp>>

\* A mark is echoed when the audio before it has been played or cleared, and
\* is met by whoever reads the socket.
MarkEchoed ==
    /\ socket = "open" /\ loop.pc \in {"receive", "drain"}
    /\ \E f \in pending : f \notin ToSet(line) /\ pending' = pending \ {f}
    /\ UNCHANGED <<providerVars, engineVars, outbound, pump, sender, pause, cut, carrierVars,
                   loop, hungUp>>

CallerLeaves ==
    /\ socket = "open"
    /\ socket' = "over" /\ line' = <<>>
    /\ UNCHANGED <<providerVars, engineVars, outbound, playVars, loop, hungUp>>

ListenerStep(s) ==
    \/ TerminalText(s) \/ AgentAudio(s) \/ AgentAudioDone(s) \/ UserStartedSpeaking(s)
    \/ ClosingHint(s) \/ StartDeadline(s) \/ OnClose(s) \/ OnError(s)

PumpStep == Feed \/ BeginSoftPause \/ BeginInterrupt \/ CloseSignal \/ ClearPlayback \/ ClearFails

SenderStep == SendFrame \/ FrameSent

LoopStep ==
    \/ ReceiveFrame \/ Injected \/ StartEngine \/ SendAudio \/ AudioSent \/ SocketEnds
    \/ AwaitCloseSignal \/ DrainFinishes \/ DrainGivesUp \/ CallerGone \/ HangUp \/ Finally

\* Once the stream is over nothing is read any more, whoever still writes.
Next ==
    /\ loop.pc # "done"
    /\ \/ \E s \in Session : ListenerStep(s)
       \/ KeepaliveFails \/ CloseAfterGrace
       \/ PumpStep \/ SenderStep \/ LoopStep \/ GiveUp
       \/ CarrierPlays \/ MarkEchoed \/ CallerLeaves

Spec == Init /\ [][Next]_vars

\* The pump, the receive loop and a handler that has begun go on, a timer that
\* is not restarted goes off, and the carrier delivers media until it closes the
\* socket.  Nothing is asked of the provider, nor of the paced sender: the drain
\* gives up on it.
FairSpec ==
    /\ Spec
    /\ WF_vars(PumpStep) /\ WF_vars(LoopStep)
    /\ WF_vars(\E s \in Session : StartDeadline(s)) /\ WF_vars(CloseAfterGrace)

----------------------------------------------------------------------------
(* Properties                                                              *)

\* _await_close_signal relies on it: once the close signal has reached the
\* receive loop, no audio generated before the engine closed is still on its
\* way to the paced sender.
HandedOver ==
    loop.close_after_playback =>
        \A f \in FramesOf(outbound) : f > promise.upto

\* Audio generated, not discarded and not played, wherever it is buffered.
Unplayed == FramesOf(outbound) \cup ToSet(sender.buffer) \cup ToSet(line)

\* The goodbye is played before the hangup: for a caller who stayed, a close that
\* waited for the signal and drained to the end leaves unplayed, of all that was
\* generated when the engine closed, no more than the stretch behind the last
\* mark - which is what the tail is for.
PlayedOut ==
    (hungUp /\ loop.drained = "finished" /\ socket = "open") =>
        Cardinality({f \in Unplayed : f <= promise.upto}) <= MarkEvery

\* After a committed barge-in nothing of what the agent had generated before
\* the caller spoke is left to be played, in any of the buffers.
InterruptedAudioIsGone ==
    \A f \in Unplayed : f > cut

\* No stream ends with the caller still on the line and nobody having asked the
\* carrier to hang up, whoever ended it: the agent, the provider, a timer, an error.
LineIsReleased == (loop.pc = "done" /\ socket = "open") => hungUp

\* A call that is closing, whose caller has left, or that has a deadline nobody
\* can cancel comes to its end, whatever is queued, paused or unacknowledged.  So
\* does one that promised to close, unless the provider hints at closing for ever,
\* each time before the grace is over: every hint starts the grace again.
StreamEnds ==
    /\ (engine.closing_requested \/ engine.stray_deadline \/ socket # "open")
          ~> loop.pc = "done"
    /\ <>[](engine.arming = {}) =>
          ((engine.close_deadline \/ engine.arming # {}) ~> loop.pc = "done")

----------------------------------------------------------------------------
(* Statements of comments in the code and in its tests that the code does  *)
(* not keep (README 5)                                                     *)

\* streaming_media.py:472 - "Fail open rather than leave the line silently
\* paused": a paused sender is one whose soft pause is undecided, or whose
\* interruption the pump is about to carry out.
NotLeftMuted ==
    (sender.paused /\ sender.alive) =>
        pause.active \/ pump = "clear" \/ \E m \in ToSet(outbound) : m.type = "interrupt"

\* streaming_media.py:252 - "An agent that said goodbye and hung up is a
\* completed call."
GoodbyeIsCompleted ==
    (loop.pc = "done" /\ promise.by = "agent") => loop.status # "ai_disconnected"

\* tests/test_fallback_closing.py:70 - "audio queued before the close signal
\* is played; audio queued after it is never reached": once the agent has closed
\* the call, nothing it generates is handed to the carrier.
NothingAfterGoodbye ==
    promise.by = "agent" => \A f \in ToSet(line) : f <= promise.upto
=============================================================================
