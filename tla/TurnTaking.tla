----------------------------- MODULE TurnTaking -----------------------------
(***************************************************************************)
(* How a media stream decides from the caller's frames whether a voice is  *)
(* an interruption, and whether anybody is there: soft pause, voiced       *)
(* duration, echo, and the idle watcher (StreamingMediaAdapter,            *)
(* VoicedDurationTracker, IdleWatcher), up to the drain in which nobody    *)
(* decides any more.                                                       *)
(*                                                                         *)
(* Frames are counted, time is counted in ticks, and the two are           *)
(* independent: frames may arrive bunched or late.  A frame is what its    *)
(* energy makes of it.  StreamingCall follows the audio through the        *)
(* buffers; here only how much there is matters, and that a mark returns   *)
(* for each frame of it.                                                   *)
(***************************************************************************)
EXTENDS Integers, Sequences, FiniteSets, SequencesExt, FiniteSetsExt

CONSTANTS
    ConfirmFrames,   \* BARGE_IN_CONFIRM_MS, in frames
    HangoverFrames,  \* BARGE_IN_HANGOVER_FRAMES
    MaxPause,        \* BARGE_IN_MAX_PAUSE_MS, in ticks
    IdleTicks,       \* IDLE_NUDGE_SECONDS
    MaxNudges,       \* IDLE_NUDGE_LIMIT
    StallTicks,      \* AGENT_PLAYBACK_STALL_SECONDS
    DrainTicks,      \* AGENT_PLAYBACK_DRAIN_SECONDS
    FrameKinds,      \* what the line carries: with "echo", a speakerphone
    MaxAudio,        \* bound: agent audio queued at a time
    MaxPauses        \* bound: UserStartedSpeaking events

Kinds == {"voice",    \* at or over the threshold, and over the echo margin
          "echo",     \* at or over the threshold, under the echo margin
          "quiet"}    \* under the threshold

ASSUME TurnAssumption ==
    /\ {ConfirmFrames, HangoverFrames, MaxPause, IdleTicks, DrainTicks, MaxAudio}
         \subseteq Nat \ {0}
    /\ {MaxNudges, StallTicks, MaxPauses} \subseteq Nat
    /\ FrameKinds \subseteq Kinds

VARIABLES
    queue,     \* AudioBridge.outbound_queue, its messages other than audio
    pump,      \* the outbound pump: at the queue, or awaiting clear_playback
    sender,    \* PacedSender: frames buffered, paused
    marks,     \* frames the carrier has not acknowledged
    pause,     \* the soft pause: its age in ticks and in frames
    vad,       \* VoicedDurationTracker
    idle,      \* IdleWatcher
    loop,      \* the receive loop, the frame it holds, _close_after_playback
    beat,      \* frames delivered, modulo two: every frame is a step
    drain,     \* _drain_playback: ticks left to its bounds, lowest level seen
    engine,    \* ConversationEngine: open, promised to close, or closing
    pauses,    \* UserStartedSpeaking events so far
    heard,     \* history: for each frame since the pause began, was it voice?
    nudged     \* history: nudges since the caller was last heard

vars == <<queue, pump, sender, marks, pause, vad, idle, loop, beat, drain, engine, pauses,
          heard, nudged>>

----------------------------------------------------------------------------
(* Values                                                                  *)

NoPause == [on |-> FALSE, age |-> 0, frames |-> 0]
FreshVad == [voiced |-> 0, silent |-> 0]

\* _quiet_since: how long ago, or NotQuiet for None.
NotQuiet == -1

TypeOK ==
    /\ queue \in Seq({"pause", "interrupt", "control"}) /\ pump \in {"run", "clear"}
    /\ sender \in [buffer : 0..MaxAudio, paused : BOOLEAN]
    /\ marks \in 0..MaxAudio
    /\ pause \in [on : BOOLEAN, age : 0..MaxPause, frames : 0..HangoverFrames]
    /\ vad \in [voiced : 0..ConfirmFrames, silent : 0..HangoverFrames]
    /\ idle \in [quiet : NotQuiet..IdleTicks, nudges : 0..MaxNudges, gave_up : BOOLEAN]
    /\ loop \in [pc : {"receive", "inject", "handoff", "drain", "closed"},
                 frame : Kinds, close_after_playback : BOOLEAN]
    /\ beat \in BOOLEAN
    /\ drain \in [cap : 0..DrainTicks, stall : 0..(MaxAudio + StallTicks), least : 0..MaxAudio]
    /\ engine \in {"open", "promised", "closing"}
    /\ pauses \in 0..MaxPauses
    /\ heard \in Seq(BOOLEAN)
    /\ nudged \in 0..(MaxNudges + 1)

Init ==
    /\ queue = <<>> /\ pump = "run"
    /\ sender = [buffer |-> 0, paused |-> FALSE] /\ marks = 0
    /\ pause = NoPause /\ vad = FreshVad
    /\ idle = [quiet |-> NotQuiet, nudges |-> 0, gave_up |-> FALSE]
    /\ loop = [pc |-> "receive", frame |-> "quiet", close_after_playback |-> FALSE]
    /\ beat = FALSE
    /\ drain = [cap |-> 0, stall |-> 0, least |-> 0]
    /\ engine = "open" /\ pauses = 0
    /\ heard = <<>> /\ nudged = 0

\* audio_currently_playing
Playing == marks > 0 \/ sender.buffer > 0

----------------------------------------------------------------------------
(* The provider, the outbound pump, the paced sender and the carrier       *)

decideVars == <<pause, vad, idle, heard, nudged>>

AgentSpeaks ==
    /\ engine # "closing" /\ sender.buffer < MaxAudio
    /\ sender' = [sender EXCEPT !.buffer = @ + 1]
    /\ UNCHANGED <<queue, pump, marks, decideVars, loop, beat, drain, engine, pauses>>

UserStartedSpeaking ==
    /\ pauses < MaxPauses
    /\ pauses' = pauses + 1
    /\ queue' = Append(queue, "pause")
    /\ UNCHANGED <<pump, sender, marks, decideVars, loop, beat, drain, engine>>

\* The agent said goodbye, or the deadline armed by close_for_silence passed.
EngineCloses ==
    /\ engine # "closing"
    /\ engine' = "closing"
    /\ queue' = Append(queue, "control")
    /\ UNCHANGED <<pump, sender, marks, decideVars, loop, beat, drain, pauses>>

NextOutput(message) ==
    /\ pump = "run" /\ queue # <<>> /\ Head(queue) = message
    /\ queue' = Tail(queue)
    /\ UNCHANGED <<marks, idle, beat, drain, engine, pauses, nudged>>

BeginSoftPause ==
    /\ NextOutput("pause")
    /\ sender' = [sender EXCEPT !.paused = TRUE]
    /\ pause' = [on |-> TRUE, age |-> 0, frames |-> 0]
    /\ vad' = FreshVad /\ heard' = <<>>
    /\ UNCHANGED <<pump, loop>>

EndSoftPause == pause' = NoPause /\ vad' = FreshVad /\ heard' = <<>>

BeginInterrupt ==
    /\ NextOutput("interrupt")
    /\ sender' = [sender EXCEPT !.buffer = 0]
    /\ EndSoftPause
    /\ pump' = "clear"
    /\ UNCHANGED loop

ClearPlayback ==
    /\ pump = "clear"
    /\ pump' = "run" /\ marks' = 0
    /\ UNCHANGED <<queue, sender, decideVars, loop, beat, drain, engine, pauses>>

CloseSignal ==
    /\ NextOutput("control")
    /\ loop' = [loop EXCEPT !.close_after_playback = TRUE]
    /\ UNCHANGED <<pump, sender, pause, vad, heard>>

SendFrame ==
    /\ ~sender.paused /\ sender.buffer > 0 /\ marks < MaxAudio
    /\ sender' = [sender EXCEPT !.buffer = @ - 1]
    /\ marks' = marks + 1
    /\ UNCHANGED <<queue, pump, decideVars, loop, beat, drain, engine, pauses>>

\* Read by whoever reads the socket.
MarkEchoed ==
    /\ loop.pc \in {"receive", "drain"} /\ marks > 0
    /\ marks' = marks - 1
    /\ UNCHANGED <<queue, pump, sender, decideVars, loop, beat, drain, engine, pauses>>

----------------------------------------------------------------------------
(* The receive loop: is it an interruption?                                *)

\* VoicedDurationTracker.observe, observe_unvoiced and _advance_silence, with
\* the silent run counted up to the hangover and the voice up to the confirmation.
Voiced(v) == [voiced |-> Min({v.voiced + 1, ConfirmFrames}), silent |-> 0]
Unvoiced(v) ==
    LET run == Min({v.silent + 1, HangoverFrames}) IN
    [voiced |-> IF run = HangoverFrames THEN 0 ELSE v.voiced, silent |-> run]

\* _is_probable_echo, consulted only while agent audio is playing.
ProbableEcho(f) == f = "echo" /\ Playing

\* What the tracker hears: what is not rejected as echo and is over the threshold.
Heard(f) == f # "quiet" /\ ~ProbableEcho(f)

Observed(f) == IF Heard(f) THEN Voiced(vad) ELSE Unvoiced(vad)
FramesNow == Min({pause.frames + 1, HangoverFrames})

\* Variant that is wrong: a first silent frame is taken for the end of the voice.
ResumeAtOnce(f) == Observed(f).voiced = 0

\* The voice confirmed, ended (a backchannel, a cough, noise), or ambiguous too long.
Confirmed(f) == Observed(f).voiced >= ConfirmFrames
RunEnded(f) == Observed(f).voiced = 0 /\ FramesNow >= HangoverFrames
TimedOut == pause.age >= MaxPause

\* commit_interruption: of the queue only close signals stay, behind the interrupt.
Commit(f) ==
    /\ Confirmed(f)
    /\ EndSoftPause
    /\ queue' = <<"interrupt">> \o SelectSeq(queue, LAMBDA m : m = "control")
    /\ UNCHANGED sender

Resume(f) ==
    /\ ~Confirmed(f) /\ (RunEnded(f) \/ TimedOut)
    /\ EndSoftPause
    /\ sender' = [sender EXCEPT !.paused = FALSE]
    /\ UNCHANGED queue

Wait(f) ==
    /\ ~Confirmed(f) /\ ~RunEnded(f) /\ ~TimedOut
    /\ pause' = [pause EXCEPT !.frames = FramesNow]
    /\ vad' = Observed(f)
    /\ heard' = Append(heard, Heard(f))
    /\ UNCHANGED <<queue, sender>>

\* Variant that is wrong: a silent frame is not looked at.
SkipsSilence(f) ==
    IF pause.on /\ f # "quiet" THEN Commit(f) \/ Resume(f) \/ Wait(f)
    ELSE UNCHANGED <<queue, sender, pause, vad, heard>>

\* _process_barge_in_signal
ProcessBargeIn(f) ==
    IF pause.on THEN Commit(f) \/ Resume(f) \/ Wait(f)
    ELSE UNCHANGED <<queue, sender, pause, vad, heard>>

\* The rest of an iteration of start(): the engine refuses the frame when it is
\* closing, and the loop leaves for _close_after_goodbye.
HandleFrame(f) ==
    /\ ProcessBargeIn(f)
    /\ loop' = [loop EXCEPT !.frame = f,
                            !.pc = IF engine = "closing" \/ loop.close_after_playback
                                   THEN "handoff" ELSE "receive"]

----------------------------------------------------------------------------
(* The receive loop: is anybody there?                                     *)

\* _observe_idle is suspended once a close is under way.
Watching == ~loop.close_after_playback /\ ~idle.gave_up

\* The energy alone decides: echo counts as the caller's voice here.
CallerVoiced(f) == f # "quiet"

Idle(f) == Watching /\ ~CallerVoiced(f) /\ ~Playing

NextNudged(f) == IF f = "voice" THEN 0 ELSE nudged

\* IdleWatcher.observe answers NOTHING, and the frame is handled.
ReceiveFrame(f) ==
    /\ loop.pc = "receive"
    /\ \/ /\ ~Watching
          /\ UNCHANGED idle
       \/ /\ Watching /\ CallerVoiced(f)
          /\ idle' = [idle EXCEPT !.quiet = NotQuiet, !.nudges = 0]
       \/ /\ Watching /\ ~CallerVoiced(f) /\ Playing
          /\ idle' = [idle EXCEPT !.quiet = NotQuiet]
       \/ /\ Idle(f) /\ idle.quiet < IdleTicks
          /\ idle' = [idle EXCEPT !.quiet = IF @ = NotQuiet THEN 0 ELSE @]
    /\ nudged' = NextNudged(f)
    /\ HandleFrame(f)
    /\ UNCHANGED <<pump, marks, drain, engine, pauses>>

NudgesLeft == idle.nudges < MaxNudges

\* NUDGE: the injection is awaited with the frame in hand.
Nudge(f) ==
    /\ loop.pc = "receive" /\ Idle(f) /\ idle.quiet = IdleTicks
    /\ NudgesLeft
    /\ idle' = [idle EXCEPT !.quiet = 0, !.nudges = @ + 1]
    /\ nudged' = Min({nudged + 1, MaxNudges + 1})
    /\ loop' = [loop EXCEPT !.pc = "inject", !.frame = f]
    /\ UNCHANGED <<queue, pump, sender, marks, pause, vad, drain, engine, pauses, heard>>

\* Variant that is wrong: a silent line is told goodbye and no deadline is armed.
NotArmed == engine

\* The close that close_for_silence promises.
Promised == IF engine = "open" THEN "promised" ELSE engine

\* GIVE_UP: close_for_silence promises to close, then awaits its injection.
GiveUp(f) ==
    /\ loop.pc = "receive" /\ Idle(f) /\ idle.quiet = IdleTicks
    /\ ~NudgesLeft
    /\ idle' = [idle EXCEPT !.quiet = 0, !.gave_up = TRUE]
    /\ engine' = Promised
    /\ loop' = [loop EXCEPT !.pc = "inject", !.frame = f]
    /\ UNCHANGED <<queue, pump, sender, marks, pause, vad, drain, pauses, heard, nudged>>

\* The injection was sent or refused; what the agent makes of it is AgentSpeaks.
Injected ==
    /\ loop.pc = "inject"
    /\ HandleFrame(loop.frame)
    /\ UNCHANGED <<pump, marks, idle, beat, drain, engine, pauses, nudged>>

----------------------------------------------------------------------------
(* _close_after_goodbye: frames are read for their marks only              *)

CloseStep(pc) ==
    /\ loop' = [loop EXCEPT !.pc = pc]
    /\ UNCHANGED <<queue, pump, decideVars, beat, engine, pauses>>

AwaitCloseSignal ==
    /\ loop.pc = "handoff" /\ loop.close_after_playback
    /\ drain' = [cap |-> DrainTicks, stall |-> sender.buffer + StallTicks, least |-> sender.buffer]
    /\ CloseStep("drain")
    /\ UNCHANGED <<sender, marks>>

DrainFinishes ==
    /\ loop.pc = "drain" /\ ~Playing
    /\ CloseStep("closed")
    /\ UNCHANGED <<sender, marks, drain>>

Progress == sender.buffer < drain.least

DrainProgresses ==
    /\ loop.pc = "drain" /\ Playing /\ drain.cap > 0 /\ Progress
    /\ drain' = [drain EXCEPT !.stall = sender.buffer + StallTicks, !.least = sender.buffer]
    /\ CloseStep("drain")
    /\ UNCHANGED <<sender, marks>>

\* Variant that is wrong: the drain waits until everything is played.
WaitsForPlayback == FALSE

\* The cap, and the stall bound.
OutOfTime == drain.cap = 0 \/ (drain.stall = 0 /\ ~Progress)

DrainGivesUp ==
    /\ loop.pc = "drain" /\ Playing /\ OutOfTime
    /\ CloseStep("closed")
    /\ UNCHANGED <<sender, marks, drain>>

\* "stop": while draining, nobody is left to hear the rest.
CallerLeaves ==
    /\ loop.pc \in {"receive", "drain"}
    /\ CloseStep("closed")
    /\ IF loop.pc = "drain" /\ Playing
       THEN sender' = [sender EXCEPT !.buffer = 0] /\ marks' = 0
       ELSE UNCHANGED <<sender, marks>>
    /\ UNCHANGED drain

----------------------------------------------------------------------------
Less(ticks) == Max({ticks - 1, 0})

Tick ==
    /\ pause' = IF pause.on THEN [pause EXCEPT !.age = Min({@ + 1, MaxPause})] ELSE pause
    /\ idle' = IF idle.quiet = NotQuiet THEN idle
               ELSE [idle EXCEPT !.quiet = Min({@ + 1, IdleTicks})]
    /\ drain' = [drain EXCEPT !.cap = Less(@), !.stall = Less(@)]
    /\ UNCHANGED <<queue, pump, sender, marks, vad, loop, beat, engine, pauses, heard, nudged>>

PumpStep == BeginSoftPause \/ BeginInterrupt \/ ClearPlayback \/ CloseSignal

\* Echo is of what is being played, and outlasts it a little.
FrameStep ==
    /\ beat' = ~beat
    /\ \E f \in FrameKinds :
        /\ f = "echo" => Playing \/ loop.frame = "echo"
        /\ ReceiveFrame(f) \/ Nudge(f) \/ GiveUp(f)

LoopStep == Injected \/ AwaitCloseSignal \/ DrainFinishes \/ DrainProgresses \/ DrainGivesUp

Next ==
    /\ loop.pc # "closed"
    /\ \/ AgentSpeaks \/ UserStartedSpeaking \/ EngineCloses
       \/ PumpStep \/ SendFrame \/ MarkEchoed
       \/ FrameStep \/ LoopStep \/ CallerLeaves \/ Tick

Spec == Init /\ [][Next]_vars

\* The pump and the receive loop go on, the carrier delivers a frame every 20 ms,
\* time passes, and a close that was promised comes (its deadline is armed).
\* Nothing is assumed of the agent, the sender or the marks.
FairSpec ==
    /\ Spec
    /\ WF_vars(PumpStep) /\ WF_vars(LoopStep) /\ WF_vars(FrameStep)
    /\ WF_vars(Tick /\ loop.pc # "closed")
    /\ WF_vars(engine = "promised" /\ EngineCloses)

----------------------------------------------------------------------------
(* Properties                                                              *)

\* The last utterance in a list of frames: how many frames of voice follow the
\* last gap of a whole hangover.
GapEnds(frames) ==
    {i \in HangoverFrames..Len(frames) : \A j \in (i - HangoverFrames + 1)..i : ~frames[j]}
Utterance(frames) ==
    LET start == Max(GapEnds(frames) \cup {0}) IN
    Cardinality({i \in (start + 1)..Len(frames) : frames[i]})

SilentTail(frames) == Len(frames) \in GapEnds(frames)

\* _process_barge_in_signal decides on the evidence since the pause began and on
\* nothing else: it discards the agent's audio only for one utterance of the
\* caller's own voice as long as the confirmation asks, and goes on over the
\* caller only after a whole hangover of silence or when the pause is at its limit.
FrameDecides == pause.on /\ ~pause'.on /\ UNCHANGED pump /\ loop.pc \in {"receive", "inject"}
Evidence == Append(heard, Heard(loop'.frame))

DecidedOnEvidence ==
    [][FrameDecides =>
         IF sender'.paused THEN Utterance(Evidence) >= ConfirmFrames
         ELSE /\ Utterance(Evidence) < ConfirmFrames
              /\ SilentTail(Evidence) \/ pause.age = MaxPause]_vars

\* "Fail open rather than leave the line silently paused": a soft pause ends,
\* whatever mixture of voice, gaps and echo the frames carry, or the call does.
PauseEnds == pause.on ~> (~pause.on \/ loop.pc = "closed")

\* A line on which nobody speaks and nothing is played is closed in the end,
\* not held until the maximum-call deadline.
Deserted == ~Playing /\ loop.frame = "quiet"
SilentLineIsClosed == <>[]Deserted => <>(loop.pc = "closed")

\* A close that was begun ends, even though nobody decides the soft pause that
\* was open when the drain took over the socket.
DrainEnds == engine = "closing" ~> loop.pc = "closed"

\* streaming_media.py:429-433, of barge-ins: the agent's own voice "must never count
\* as voice".  Were that so for the idle watcher too, a caller who is never heard
\* would be nudged as often as configured, and no more.
EchoIsNotTheCaller == nudged <= MaxNudges
=============================================================================
