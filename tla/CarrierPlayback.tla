--------------------------- MODULE CarrierPlayback ---------------------------
(***************************************************************************)
(* How agent audio reaches the caller through each carrier, and when the   *)
(* adapter believes that it was heard: PacedSender.run and the send_audio, *)
(* _flush_outbound, marks, modelled playout and clear_playback of the      *)
(* Twilio, Exotel and Teler adapters, up to the end of the drain.          *)
(*                                                                         *)
(* Twilio takes 20 ms frames and acknowledges a mark every few of them.    *)
(* Exotel takes chunks, each with its mark.  Teler takes chunks and        *)
(* acknowledges nothing: the adapter keeps a deadline of its own.          *)
(*                                                                         *)
(* Frames are numbered as they are generated.  What is written to the      *)
(* socket is the carrier's in the order of the writes; the write is then   *)
(* awaited.  A tick is the time of a frame: the carrier plays one in it,   *)
(* or it is late, as with a jitter buffer or a congested socket, and the   *)
(* adapter's clock does not know.  Who interrupts and why is TurnTaking's, *)
(* the failures of the socket are StreamingCall's.                         *)
(***************************************************************************)
EXTENDS Integers, Sequences, FiniteSets, SequencesExt, FiniteSetsExt

CONSTANTS
    Carriers,       \* the carriers looked at
    ChunkFrames,    \* _send_chunk_bytes, in frames
    MarkEvery,      \* MARK_EVERY_N_FRAMES
    MaxFrames,      \* bound: frames of agent audio
    MaxInterrupts,  \* bound: confirmed barge-ins
    MaxLate         \* bound: how late the carrier gets, in frames

ASSUME PlaybackAssumption ==
    /\ Carriers \subseteq {"twilio", "exotel", "teler"}
    /\ {ChunkFrames, MarkEvery} \subseteq Nat \ {0}
    /\ {MaxFrames, MaxInterrupts, MaxLate} \subseteq Nat

VARIABLES
    carrier,     \* the adapter
    made,        \* frames generated so far
    buffer,      \* PacedSender._buffer
    paused,      \* PacedSender._resumed is cleared
    chunk,       \* _outbound_pcm
    sending,     \* what the sender task awaits: a write of frames, or of a mark
    since_mark,  \* _frames_since_mark
    marks,       \* _pending_marks: the frame each follows
    playout,     \* _playout_until: how long from now
    pump,        \* the outbound pump: at the queue, or awaiting clear_playback
    interrupts,  \* confirmed barge-ins so far
    loop,        \* the call goes on, drains, is in its tail, is over
    line,        \* what the carrier holds
    late,        \* for how long it has held audio and played none, since it last held none
    played,      \* history: what the caller has heard
    cut          \* history: what a confirmed barge-in discarded

senderVars == <<buffer, paused, chunk, sending, since_mark>>
ackVars == <<marks, playout>>
lineVars == <<line, late, played, cut>>
vars == <<carrier, made, senderVars, ackVars, pump, interrupts, loop, lineVars>>

Frame == 1..MaxFrames
AtRest == [stage |-> "none", frames |-> <<>>]

TypeOK ==
    /\ carrier \in Carriers
    /\ made \in 0..MaxFrames
    /\ buffer \in Seq(Frame) /\ paused \in BOOLEAN
    /\ chunk \in Seq(Frame) /\ Len(chunk) < ChunkFrames
    /\ sending \in [stage : {"none", "media", "mark"}, frames : Seq(Frame)]
    /\ since_mark \in 0..(MarkEvery - 1)
    /\ marks \subseteq Frame /\ playout \in 0..MaxFrames
    /\ pump \in {"run", "clear"} /\ interrupts \in 0..MaxInterrupts
    /\ loop \in {"open", "drain", "tail", "closed"}
    /\ line \in Seq(Frame) /\ late \in 0..MaxLate
    /\ played \subseteq Frame /\ cut \subseteq Frame

Init ==
    /\ carrier \in Carriers
    /\ made = 0
    /\ buffer = <<>> /\ paused = FALSE /\ chunk = <<>>
    /\ sending = AtRest /\ since_mark = 0
    /\ marks = {} /\ playout = 0
    /\ pump = "run" /\ interrupts = 0 /\ loop = "open"
    /\ line = <<>> /\ late = 0 /\ played = {} /\ cut = {}

\* audio_currently_playing: _outbound_pcm is not looked at.
Playing == marks # {} \/ buffer # <<>> \/ playout > 0

----------------------------------------------------------------------------
(* The outbound pump and the receive loop, as far as they touch the audio  *)

Feed ==
    /\ pump = "run" /\ loop = "open" /\ made < MaxFrames
    /\ made' = made + 1
    /\ buffer' = Append(buffer, made + 1)
    /\ UNCHANGED <<carrier, paused, chunk, sending, since_mark, ackVars, pump, interrupts, loop,
                   lineVars>>

\* A soft pause begins, or ends without a barge-in.
Pause(on) ==
    /\ pump = "run" /\ paused = ~on /\ (on => loop = "open")
    /\ paused' = on
    /\ UNCHANGED <<carrier, made, buffer, chunk, sending, since_mark, ackVars, pump, interrupts,
                   loop, lineVars>>

\* Variant that is wrong: clear_playback leaves _outbound_pcm alone.
KeepsChunk == chunk

\* What clear_playback leaves of it.
ChunkCleared == <<>>

\* A confirmed barge-in: discard, then clear_playback up to its await.
Interrupt ==
    /\ pump = "run" /\ loop # "closed" /\ interrupts < MaxInterrupts
    /\ interrupts' = interrupts + 1
    /\ cut' = cut \cup ToSet(buffer) \cup ToSet(chunk) \cup ToSet(line)
    /\ buffer' = <<>> /\ chunk' = ChunkCleared /\ line' = <<>>
    /\ playout' = 0 /\ late' = 0
    /\ pump' = "clear"
    /\ UNCHANGED <<carrier, made, paused, sending, since_mark, marks, loop, played>>

Cleared ==
    /\ pump = "clear"
    /\ pump' = "run" /\ marks' = {}
    /\ UNCHANGED <<carrier, made, senderVars, playout, interrupts, loop, lineVars>>

Goto(from, to) ==
    /\ loop = from /\ loop' = to
    /\ UNCHANGED <<carrier, made, paused, chunk, sending, since_mark, pump, interrupts, lineVars>>

\* The agent said goodbye, and the pump holds all of it.
Goodbye == pump = "run" /\ Goto("open", "drain") /\ UNCHANGED <<buffer, ackVars>>

DrainFinishes == ~Playing /\ Goto("drain", "tail") /\ UNCHANGED <<buffer, ackVars>>

\* Its two bounds are TurnTaking's.
DrainGivesUp == Playing /\ Goto("drain", "closed") /\ UNCHANGED <<buffer, ackVars>>

HangUp == Goto("tail", "closed") /\ UNCHANGED <<buffer, ackVars>>

CallerLeaves ==
    \/ Goto("open", "closed") /\ UNCHANGED <<buffer, ackVars>>
    \/ /\ Playing /\ Goto("drain", "closed")
       /\ buffer' = <<>> /\ marks' = {} /\ UNCHANGED playout

----------------------------------------------------------------------------
(* PacedSender.run and the adapters                                        *)

\* Variant that is wrong: the tail waits for a chunk it can fill.
NoTail(rest) == FALSE

\* _sender_has_more: an empty buffer means that the frame was the last one queued.
SendsTail(rest) == rest = <<>>

\* Is what is batched written now?  Twilio does not batch.
Flushes(batch, rest) ==
    \/ carrier = "twilio"
    \/ Len(batch) = ChunkFrames
    \/ carrier = "teler" /\ SendsTail(rest)

TakeFrame ==
    /\ sending = AtRest /\ ~paused /\ buffer # <<>>
    /\ LET batch == Append(chunk, Head(buffer)) IN
       IF Flushes(batch, Tail(buffer))
       THEN /\ line' = line \o batch
            /\ sending' = [stage |-> "media", frames |-> batch]
            /\ chunk' = <<>>
       ELSE /\ chunk' = batch
            /\ UNCHANGED <<line, sending>>
    /\ buffer' = Tail(buffer)
    /\ UNCHANGED <<carrier, made, paused, since_mark, ackVars, pump, interrupts, loop, late,
                   played, cut>>

MediaSent ==
    /\ sending.stage = "media"
    /\ UNCHANGED <<carrier, made, buffer, paused, chunk, pump, interrupts, loop, lineVars>>

\* Variant that is wrong: each chunk resets the deadline.
FromNow(frames) == Len(frames)

\* _extend_playout: anchored at max(now, deadline).
Extended(frames) == playout + Len(frames)

TelerSent ==
    /\ MediaSent /\ carrier = "teler"
    /\ playout' = Extended(sending.frames)
    /\ sending' = AtRest
    /\ UNCHANGED <<since_mark, marks>>

Mark ==
    /\ marks' = marks \cup {Last(sending.frames)}
    /\ sending' = [stage |-> "mark", frames |-> <<>>]
    /\ UNCHANGED playout

ExotelSent == MediaSent /\ carrier = "exotel" /\ Mark /\ UNCHANGED since_mark

\* _on_frame_sent
TwilioSent ==
    /\ MediaSent /\ carrier = "twilio"
    /\ IF since_mark + 1 = MarkEvery
       THEN Mark /\ since_mark' = 0
       ELSE /\ since_mark' = since_mark + 1
            /\ sending' = AtRest /\ UNCHANGED ackVars

MarkSent ==
    /\ sending.stage = "mark"
    /\ sending' = AtRest
    /\ UNCHANGED <<carrier, made, buffer, paused, chunk, since_mark, ackVars, pump, interrupts,
                   loop, lineVars>>

SenderStep == TakeFrame \/ TelerSent \/ ExotelSent \/ TwilioSent \/ MarkSent

----------------------------------------------------------------------------
(* The carrier                                                             *)

Plays ==
    /\ IF line = <<>> THEN UNCHANGED <<line, played>>
       ELSE line' = Tail(line) /\ played' = played \cup {Head(line)}
    /\ late' = IF line' = <<>> THEN 0 ELSE late

Lags ==
    /\ line # <<>> /\ late < MaxLate
    /\ late' = late + 1
    /\ UNCHANGED <<line, played>>

\* The clock of the adapter runs on in either case.
Tick ==
    /\ line # <<>> \/ playout > 0
    /\ Plays \/ Lags
    /\ playout' = Max({playout - 1, 0})
    /\ UNCHANGED <<carrier, made, senderVars, marks, pump, interrupts, loop, cut>>

\* A mark is echoed once the audio before it has been played, or dropped.
MarkEchoed ==
    /\ loop \in {"open", "drain"}
    /\ \E m \in marks :
        /\ \A f \in ToSet(line) : f > m
        /\ marks' = marks \ {m}
    /\ UNCHANGED <<carrier, made, senderVars, playout, pump, interrupts, loop, lineVars>>

Next ==
    /\ loop # "closed"
    /\ \/ Feed \/ Interrupt \/ Cleared \/ Goodbye \/ HangUp \/ CallerLeaves
       \/ DrainFinishes \/ DrainGivesUp
       \/ \E on \in BOOLEAN : Pause(on)
       \/ SenderStep \/ Tick \/ MarkEchoed

Spec == Init /\ [][Next]_vars

\* The sender task and the carrier go on, and a clear is answered.
FairSpec == Spec /\ WF_vars(loop # "closed" /\ (SenderStep \/ Cleared)) /\ WF_vars(loop # "closed" /\ Tick)

----------------------------------------------------------------------------
(* Properties                                                              *)

\* Batching neither loses, repeats nor reorders: what was heard, what the carrier
\* holds, what is batched and what is queued follow each other, and are together
\* all that was generated except what a confirmed barge-in discarded, of which
\* nothing is left anywhere.
Ahead == line \o chunk \o buffer
LastPlayed == Max(played \cup {0})

NothingLost ==
    LET order == <<LastPlayed>> \o Ahead IN
    /\ \A i \in 1..(Len(order) - 1) : order[i] < order[i + 1]
    /\ loop # "closed" => played \cup ToSet(Ahead) \cup cut = 1..made
    /\ (played \cup ToSet(Ahead)) \cap cut = {}

\* A drain that finished left little unheard: the write it was waiting for, and on
\* Twilio the frames after the last mark, on Exotel a chunk that is not full,
\* however late they play.  On Teler, which acknowledges nothing, the modelled
\* playout is behind by the carrier's own lateness ("not evidence",
\* teler_adapter.py:37-39), and by nothing else.
InFlight == IF sending.stage = "media" THEN Len(sending.frames) ELSE 0

\* What the adapter has no means to see.
Unseen == CASE carrier = "twilio" -> since_mark
            [] carrier = "teler" -> late
            [] OTHER -> 0

LeftUnheard ==
    /\ Len(line) <= InFlight + Unseen
    /\ carrier # "exotel" => chunk = <<>>

DrainHeardIt == [][DrainFinishes => LeftUnheard]_vars

\* "Required for correctness": audio is never stranded.  All of it is played or
\* interrupted in the end, unless the line is paused or closed, except for the
\* remainder that Exotel's chunks leave.
Settled(f) ==
    \/ f \in played \cup cut
    \/ carrier = "exotel" /\ f \in ToSet(chunk)
    \/ loop = "closed" \/ paused

NothingStranded == \A f \in Frame : made >= f ~> Settled(f)
=============================================================================
