-------------------------- MODULE StreamingProofs --------------------------
(***************************************************************************)
(* Proofs about StreamingCall, for every amount of audio, number of        *)
(* interruptions, mark interval and kind of greeting.                      *)
(***************************************************************************)
EXTENDS StreamingCall, SequenceTheorems, FiniteSetTheorems, TLAPS

Loop == [pc : PC, status : Status, closing_requested : BOOLEAN,
         close_after_playback : BOOLEAN, gave_up : BOOLEAN,
         drained : {"no", "finished", "blind", "gave_up", "left"}]

LoopType == loop \in Loop /\ hungUp \in BOOLEAN

\* What the paths to the end owe the carrier: with the caller on the line, the
\* loop is told to stop only by a hangup, and comes to its finally clause with
\* the hangup done or a status that has the clause do it.
Owed ==
    socket = "open" =>
        /\ loop.closing_requested => hungUp
        /\ loop.pc = "finally" => hungUp \/ loop.status \in {"ai_disconnected", "error"}
        /\ loop.pc = "done" => hungUp

ReleaseInv == LoopType /\ Owed

\* Only the loop, the socket and the hangup matter to the invariant.
LEMMA QuietKeepsRelease ==
    ASSUME ReleaseInv, UNCHANGED <<loop, socket, hungUp>>
    PROVE  ReleaseInv'
  BY DEF ReleaseInv, LoopType, Owed

\* Going on to a place inside the loop, whatever status or flags come with it.
LEMMA GoingOnKeepsRelease ==
    ASSUME ReleaseInv, UNCHANGED <<socket, hungUp>>,
           NEW pc \in PC \ {"finally", "done"},
           NEW status \in Status, NEW signal \in BOOLEAN, NEW gave_up \in BOOLEAN,
           NEW drained \in {"no", "finished", "blind", "gave_up", "left"},
           loop' = [loop EXCEPT !.pc = pc, !.status = status, !.close_after_playback = signal,
                                !.gave_up = gave_up, !.drained = drained]
    PROVE  ReleaseInv'
  <1>1. LoopType'
    BY DEF ReleaseInv, LoopType, Loop
  <1>2. loop'.pc = pc /\ loop'.closing_requested = loop.closing_requested
    BY DEF ReleaseInv, LoopType, Loop
  <1> QED BY <1>1, <1>2 DEF ReleaseInv, Owed

LEMMA GotoKeepsRelease ==
    ASSUME ReleaseInv, UNCHANGED <<socket, hungUp>>,
           NEW pc \in PC \ {"finally", "done"}, Goto(pc)
    PROVE  ReleaseInv'
  <1>1. LoopType'
    BY DEF ReleaseInv, LoopType, Loop, Goto
  <1>2. loop'.pc = pc /\ loop'.closing_requested = loop.closing_requested
    BY DEF ReleaseInv, LoopType, Loop, Goto
  <1> QED BY <1>1, <1>2 DEF ReleaseInv, Owed

\* The end of the stream for a status that the finally clause answers with a
\* hangup, or with nobody on the line.
LEMMA EndKeepsRelease ==
    ASSUME ReleaseInv, UNCHANGED <<socket, hungUp>>,
           NEW status \in Status, EndStream(status),
           socket = "open" => status \in {"ai_disconnected", "error"}
    PROVE  ReleaseInv'
  <1>1. LoopType'
    BY DEF ReleaseInv, LoopType, Loop, EndStream, PC
  <1>2. /\ loop'.pc = "finally"
        /\ loop'.status = status
        /\ loop'.closing_requested = loop.closing_requested
    BY DEF ReleaseInv, LoopType, Loop, EndStream
  <1> QED BY <1>1, <1>2 DEF ReleaseInv, Owed

\* Decide leaves the loop only when it was told to stop.
LEMMA DecideKeepsRelease ==
    ASSUME ReleaseInv, UNCHANGED <<socket, hungUp>>,
           NEW accepted \in BOOLEAN, Decide(accepted)
    PROVE  ReleaseInv'
  <1>1. CASE accepted /\ ~loop.close_after_playback /\ ~loop.closing_requested
    <2>1. Goto("receive")
      BY <1>1 DEF Decide
    <2> QED BY <2>1, GotoKeepsRelease DEF PC
  <1>2. CASE accepted /\ ~loop.close_after_playback /\ loop.closing_requested
    <2>1. loop' = [loop EXCEPT !.pc = "finally"]
      BY <1>2 DEF Decide, Goto
    <2>2. LoopType'
      BY <2>1 DEF ReleaseInv, LoopType, Loop, PC
    <2>3. /\ loop'.pc = "finally"
          /\ loop'.closing_requested = loop.closing_requested
      BY <2>1 DEF ReleaseInv, LoopType, Loop
    <2> QED BY <1>2, <2>2, <2>3 DEF ReleaseInv, Owed
  <1>3. CASE ~(accepted /\ ~loop.close_after_playback)
    <2> DEFINE status == IF loop.close_after_playback THEN "completed" ELSE "ai_disconnected"
    <2>1. loop' = [loop EXCEPT !.pc = "handoff", !.status = status]
      BY <1>3 DEF Decide
    <2>2. status \in Status
      BY DEF Status
    <2> HIDE DEF status
    <2>3. LoopType'
      BY <2>1, <2>2 DEF ReleaseInv, LoopType, Loop, PC
    <2>4. /\ loop'.pc = "handoff"
          /\ loop'.closing_requested = loop.closing_requested
      BY <2>1 DEF ReleaseInv, LoopType, Loop
    <2> QED BY <2>3, <2>4 DEF ReleaseInv, Owed
  <1> QED BY <1>1, <1>2, <1>3

\* The pump or the sender stops at a socket that refuses its message.
LEMMA RefusalKeepsRelease ==
    ASSUME ReleaseInv, UNCHANGED <<socket, hungUp>>, socket = "over",
           loop' = [loop EXCEPT !.closing_requested = TRUE]
    PROVE  ReleaseInv'
  BY DEF ReleaseInv, LoopType, Loop, Owed

LEMMA LoopKeepsRelease ==
    ASSUME ReleaseInv, LoopStep
    PROVE  ReleaseInv'
  <1> USE DEF providerVars, engineVars, playVars, carrierVars
  <1>1. CASE ReceiveFrame
    <2>1. Goto(IF Started THEN "send" ELSE "start") /\ UNCHANGED <<socket, hungUp>>
      BY <1>1 DEF ReceiveFrame, HandleFrame
    <2>2. (IF Started THEN "send" ELSE "start") \in PC \ {"finally", "done"}
      BY DEF PC
    <2> QED BY <2>1, <2>2, GotoKeepsRelease
  <1>2. CASE Injected
    <2>1. Goto(IF Started THEN "send" ELSE "start") /\ UNCHANGED <<socket, hungUp>>
      BY <1>2 DEF Injected, HandleFrame
    <2>2. (IF Started THEN "send" ELSE "start") \in PC \ {"finally", "done"}
      BY DEF PC
    <2> QED BY <2>1, <2>2, GotoKeepsRelease
  <1>3. CASE StartEngine
    <2>1. UNCHANGED <<socket, hungUp>> /\ (Goto("send") \/ EndStream("error"))
      BY <1>3 DEF StartEngine
    <2>2. "send" \in PC \ {"finally", "done"} /\ "error" \in Status
      BY DEF PC, Status
    <2> QED BY <2>1, <2>2, GotoKeepsRelease, EndKeepsRelease
  <1>4. CASE SendAudio
    <2>1. UNCHANGED <<socket, hungUp>> /\ (Goto("sent") \/ Decide(FALSE))
      BY <1>4 DEF SendAudio
    <2>2. "sent" \in PC \ {"finally", "done"}
      BY DEF PC
    <2> QED BY <2>1, <2>2, GotoKeepsRelease, DecideKeepsRelease
  <1>5. CASE AudioSent
    <2>1. UNCHANGED <<socket, hungUp>> /\ (Decide(TRUE) \/ Decide(FALSE))
      BY <1>5 DEF AudioSent
    <2> QED BY <2>1, DecideKeepsRelease
  <1>6. CASE SocketEnds
    <2>1. PICK status \in {"completed", "client_disconnected"} : EndStream(status)
      BY <1>6 DEF SocketEnds
    <2>2. UNCHANGED <<socket, hungUp>> /\ socket # "open" /\ status \in Status
      BY <1>6 DEF SocketEnds, Status
    <2> QED BY <2>1, <2>2, EndKeepsRelease
  <1>7. CASE AwaitCloseSignal
    <2>1. UNCHANGED <<socket, hungUp>> /\ Goto("drain") /\ "drain" \in PC \ {"finally", "done"}
      BY <1>7 DEF AwaitCloseSignal, PC
    <2> QED BY <2>1, GotoKeepsRelease
  <1>8. CASE DrainFinishes \/ DrainGivesUp \/ CallerGone
    <2>1. PICK how \in {"finished", "blind", "gave_up", "left"} : Drained(how)
      BY <1>8 DEF DrainFinishes, DrainGivesUp, CallerGone
    <2>2. UNCHANGED <<socket, hungUp>>
      BY <1>8 DEF DrainFinishes, DrainGivesUp, CallerGone
    <2>3. LoopType'
      BY <2>1, <2>2 DEF Drained, ReleaseInv, LoopType, Loop, PC
    <2>4. loop'.pc = "tail" /\ loop'.closing_requested = loop.closing_requested
      BY <2>1 DEF Drained, ReleaseInv, LoopType, Loop
    <2> QED BY <2>2, <2>3, <2>4 DEF ReleaseInv, Owed
  <1>9. CASE HangUp
    BY <1>9 DEF HangUp, ReleaseInv, LoopType, Loop, PC, Owed
  <1>10. CASE Finally
    <2>1. CompleteAtLast /\ Goto("done") /\ UNCHANGED socket /\ loop.pc = "finally"
      BY <1>10 DEF Finally
    <2>2. LoopType'
      BY <2>1 DEF CompleteAtLast, Goto, ReleaseInv, LoopType, Loop, PC
    <2>3. loop'.pc = "done" /\ loop'.closing_requested = loop.closing_requested
      BY <2>1 DEF Goto, ReleaseInv, LoopType, Loop
    <2>4. socket = "open" => hungUp'
      BY <2>1 DEF CompleteAtLast, ReleaseInv, Owed
    <2> QED BY <2>1, <2>2, <2>3, <2>4 DEF ReleaseInv, Owed
  <1> QED
    BY <1>1, <1>2, <1>3, <1>4, <1>5, <1>6, <1>7, <1>8, <1>9, <1>10 DEF LoopStep

LEMMA PlaybackKeepsRelease ==
    ASSUME ReleaseInv, PumpStep \/ SenderStep
    PROVE  ReleaseInv'
  <1> USE DEF providerVars, engineVars, playVars, carrierVars
  <1>1. CASE Feed \/ BeginSoftPause \/ BeginInterrupt \/ ClearPlayback \/ FrameSent
    <2>1. UNCHANGED <<loop, socket, hungUp>>
      BY <1>1 DEF NextOutput, Feed, BeginSoftPause, BeginInterrupt, ClearPlayback, FrameSent
    <2> QED BY <2>1, QuietKeepsRelease
  <1>2. CASE CloseSignal
    BY <1>2 DEF CloseSignal, NextOutput, ReleaseInv, LoopType, Loop, Owed
  <1>3. CASE ClearFails
    BY <1>3, RefusalKeepsRelease DEF ClearFails
  <1>4. CASE SendFrame
    <2>1. /\ UNCHANGED <<socket, hungUp>>
          /\ \/ UNCHANGED loop
             \/ socket = "over" /\ loop' = [loop EXCEPT !.closing_requested = TRUE]
      BY <1>4 DEF SendFrame
    <2> QED BY <2>1, QuietKeepsRelease, RefusalKeepsRelease
  <1> QED BY <1>1, <1>2, <1>3, <1>4 DEF PumpStep, SenderStep

LEMMA OthersKeepRelease ==
    ASSUME ReleaseInv,
           \/ \E s \in Session : ListenerStep(s)
           \/ KeepaliveFails \/ CloseAfterGrace \/ GiveUp
           \/ CarrierPlays \/ MarkEchoed \/ CallerLeaves
    PROVE  ReleaseInv'
  <1> USE DEF providerVars, engineVars, playVars, carrierVars
  <1>1. CASE \E s \in Session : ListenerStep(s)
    <2>1. UNCHANGED <<loop, socket, hungUp>>
      BY <1>1 DEF ListenerStep, TerminalText, AgentAudio, AgentAudioDone, UserStartedSpeaking,
         ClosingHint, StartDeadline, OnClose, OnError
    <2> QED BY <2>1, QuietKeepsRelease
  <1>2. CASE KeepaliveFails \/ CloseAfterGrace \/ CarrierPlays \/ MarkEchoed
    <2>1. UNCHANGED <<loop, socket, hungUp>>
      BY <1>2 DEF KeepaliveFails, CloseAfterGrace, CarrierPlays, MarkEchoed
    <2> QED BY <2>1, QuietKeepsRelease
  <1>3. CASE GiveUp
    BY <1>3 DEF GiveUp, ReleaseInv, LoopType, Loop, PC, Owed
  <1>4. CASE CallerLeaves
    BY <1>4 DEF CallerLeaves, ReleaseInv, LoopType, Owed
  <1> QED BY <1>1, <1>2, <1>3, <1>4

\* No stream ends with the caller still on the line and the carrier not asked
\* to hang up: start, _close_after_goodbye and the finally clause of start
\* leave no path on which the leg is forgotten.
THEOREM StreamReleasesLine == Spec => []LineIsReleased
  <1>1. Init => ReleaseInv
    <2> SUFFICES ASSUME Init PROVE ReleaseInv
      OBVIOUS
    <2>1. /\ loop = [pc |-> "receive", status |-> "completed", closing_requested |-> FALSE,
                     close_after_playback |-> FALSE, gave_up |-> FALSE, drained |-> "no"]
          /\ hungUp = FALSE
      BY Zenon DEF Init
    <2>2. "receive" \in PC /\ "completed" \in Status
      BY DEF PC, Status
    <2>3. LoopType
      BY <2>1, <2>2 DEF LoopType, Loop
    <2>4. Owed
      BY <2>1 DEF Owed
    <2> QED BY <2>3, <2>4 DEF ReleaseInv
  <1>2. ReleaseInv /\ [Next]_vars => ReleaseInv'
    <2> SUFFICES ASSUME ReleaseInv, [Next]_vars PROVE ReleaseInv'
      OBVIOUS
    <2>1. CASE UNCHANGED vars
      BY <2>1, QuietKeepsRelease DEF vars, carrierVars
    <2> QED
      BY <2>1, LoopKeepsRelease, PlaybackKeepsRelease, OthersKeepRelease DEF Next
  <1>3. ReleaseInv => LineIsReleased
    BY DEF ReleaseInv, Owed, LineIsReleased
  <1> QED BY <1>1, <1>2, <1>3, PTL DEF Spec

----------------------------------------------------------------------------
(* Types                                                                   *)

Engine == [closing_requested : BOOLEAN, close_after_audio_done : BOOLEAN,
           terminal_closing_spoken : BOOLEAN, close_deadline : BOOLEAN,
           stray_deadline : BOOLEAN, arming : SUBSET Session]
Sender == [buffer : Seq(Frame), paused : BOOLEAN, sending : 0..MaxAudio,
           since_mark : 0..(MarkEvery - 1), alive : BOOLEAN]
PauseState == [active : BOOLEAN, upto : 0..MaxAudio]
Promise == [by : {"nobody", "agent", "provider"}, upto : 0..MaxAudio]

\* TypeOK, without what LoopType says already.
PlayType ==
    /\ turn \in [Session -> {"none", "idle", "speaking", "over"}]
    /\ generated \in 0..MaxAudio /\ bargeIns \in 0..MaxBargeIns
    /\ engine \in Engine
    /\ outbound \in Seq(Message)
    /\ pump \in {"run", "clear", "dead"}
    /\ sender \in Sender
    /\ pending \subseteq Frame
    /\ pause \in PauseState
    /\ line \in Seq(Frame) /\ socket \in {"open", "over"}
    /\ cut \in 0..MaxAudio
    /\ promise \in Promise

----------------------------------------------------------------------------
(* The invariant                                                           *)

IsAudio(m) == m.type = "audio"

\* All the audio on the queue was generated after f.
Later(f) == \A i \in 1..Len(outbound) : IsAudio(outbound[i]) => f < outbound[i].frame

\* All the audio in a buffer was.
Above(buffer, f) == \A i \in 1..Len(buffer) : f < buffer[i]

\* The audio behind a message was generated after it, or after the engine
\* closed when the message is the close signal.
Barrier(m) == IF m.type = "control" THEN promise.upto ELSE m.frame

QueueInv ==
    /\ \A i, j \in 1..Len(outbound) :
         i < j /\ IsAudio(outbound[j]) => Barrier(outbound[i]) < outbound[j].frame
    /\ \A i \in 1..Len(outbound) : outbound[i].frame <= generated
    /\ pause.upto <= generated /\ cut <= generated /\ promise.upto <= generated

\* A pause that is undecided, or whose interruption is being carried out,
\* stands before everything that is on the queue; the sender has nothing to
\* send while the carrier clears.
PauseInv ==
    /\ pause.active \/ pump = "clear" => Later(pause.upto)
    /\ pump = "clear" => ~pause.active /\ sender.buffer = <<>>

CutInv == Later(cut) /\ Above(sender.buffer, cut) /\ Above(line, cut)

\* The close signal is posted once, by whoever closes the engine.
CloseInv ==
    /\ promise.by # "nobody" => engine.closing_requested
    /\ loop.close_after_playback => promise.by # "nobody" /\ Later(promise.upto)
    /\ \A i \in 1..Len(outbound) : outbound[i].type = "control" => promise.by # "nobody"

\* Frames sent since the last mark.
Unmarked == sender.since_mark + (IF sender.sending = 0 THEN 0 ELSE 1)

\* What the carrier holds, but for these, is followed by a mark not yet echoed.
MarkInv ==
    socket = "open" =>
        /\ \A k \in 1..Len(line) :
             k + Unmarked <= Len(line) => \E l \in k..Len(line) : line[l] \in pending
        /\ sender.sending # 0 /\ line # <<>> => line[Len(line)] = sender.sending

\* A drain that came to its end left no more than these.
DrainInv ==
    loop.drained = "finished" =>
        /\ loop.close_after_playback
        /\ socket = "open" =>
             /\ Above(sender.buffer, promise.upto)
             /\ Cardinality({f \in ToSet(line) : f <= promise.upto}) <= MarkEvery

SoundInv == QueueInv /\ PauseInv /\ CutInv /\ CloseInv /\ MarkInv /\ DrainInv

----------------------------------------------------------------------------
(* Numbers, messages and queues                                            *)

LEMMA Numbers ==
    /\ MaxAudio \in Nat /\ MaxAudio >= 1 /\ MaxBargeIns \in Nat
    /\ MarkEvery \in Nat /\ MarkEvery >= 1
    /\ Frame \subseteq 0..MaxAudio
  BY StreamAssumption DEF Frame

LEMMA Messages ==
    /\ \A f \in 0..MaxAudio : Audio(f) \in Message /\ Interrupt(f) \in Message
    /\ Control \in Message
    /\ generated \in 0..MaxAudio => Pause \in Message
  BY Numbers DEF Audio, Interrupt, Control, Pause, Message

\* What the prover needs to know of a queue.
LEMMA Queues ==
    ASSUME NEW S, NEW q \in Seq(S)
    PROVE  /\ Len(q) \in Nat /\ \A i \in 1..Len(q) : q[i] \in S
           /\ q = <<>> <=> Len(q) = 0
           /\ q # <<>> =>
                /\ Head(q) \in S /\ Head(q) = q[1]
                /\ Tail(q) \in Seq(S) /\ Len(Tail(q)) = Len(q) - 1
                /\ \A i \in 1..Len(q) - 1 : Tail(q)[i] = q[i + 1]
           /\ \A m \in S :
                /\ Append(q, m) \in Seq(S) /\ Len(Append(q, m)) = Len(q) + 1
                /\ \A i \in 1..Len(q) : Append(q, m)[i] = q[i]
                /\ Append(q, m)[Len(q) + 1] = m
  BY HeadTailProperties, ElementOfSeq, EmptySeq, LenProperties

\* Joining queues.
LEMMA Joins ==
    ASSUME NEW S, NEW q \in Seq(S), NEW r \in Seq(S)
    PROVE  /\ q \o r \in Seq(S) /\ Len(q \o r) = Len(q) + Len(r)
           /\ \A i \in 1..Len(q) : (q \o r)[i] = q[i]
           /\ \A i \in Len(q) + 1..Len(q) + Len(r) : (q \o r)[i] = r[i - Len(q)]
  BY ConcatProperties, LenProperties

\* The queue a barge-in leaves: the interruption, close signals if there was
\* one among the first n messages, and the messages behind these.
LEMMA DiscardLeaves ==
    ASSUME outbound \in Seq(Message), pause.upto \in 0..MaxAudio,
           NEW n \in 0..Len(outbound), DiscardAndClear(n)
    PROVE  \E k \in Nat :
              /\ outbound' \in Seq(Message)
              /\ Len(outbound') = 1 + k + Len(outbound) - n
              /\ outbound'[1] = Interrupt(pause.upto)
              /\ \A i \in 2..1 + k : outbound'[i] = Control
              /\ \A i \in 2 + k..Len(outbound') :
                    i - 1 - k + n \in n + 1..Len(outbound) /\ outbound'[i] = outbound[i - 1 - k + n]
              /\ k > 0 => \E j \in 1..n : outbound[j].type = "control"
  <1> DEFINE found == {j \in 1..n : outbound[j].type = "control"}
             k == Cardinality(found)
             first == <<Interrupt(pause.upto)>>
             rest == SubSeq(outbound, n + 1, Len(outbound))
  <1>1. n \in Nat /\ Len(outbound) \in Nat /\ n <= Len(outbound)
    BY Queues
  <1>2. IsFiniteSet(found)
    <2>1. 1 \in Int /\ n \in Int
      BY <1>1
    <2>2. IsFiniteSet(1..n)
      BY <2>1, FS_Interval
    <2>3. found \in SUBSET (1..n)
      OBVIOUS
    <2> QED BY <2>2, <2>3, FS_Subset
  <1>3. k \in Nat /\ (k > 0 => \E j \in 1..n : outbound[j].type = "control")
    <2>1. k \in Nat
      BY <1>2, FS_CardinalityType
    <2>2. k = 0 <=> found = {}
      BY <1>2, FS_EmptySet
    <2> QED BY <2>1, <2>2
  <1>4. Signals(n) = [i \in 1..k |-> Control]
    BY DEF Signals
  <1> HIDE DEF k, found
  <1>5. /\ Signals(n) \in Seq(Message) /\ Len(Signals(n)) = k
        /\ \A i \in 1..k : Signals(n)[i] = Control
    BY <1>3, <1>4, Messages, SeqDef
  <1>6. /\ rest \in Seq(Message) /\ Len(rest) = Len(outbound) - n
        /\ \A i \in 1..Len(outbound) - n : rest[i] = outbound[n + i]
    <2>1. \A i \in n + 1..Len(outbound) : outbound[i] \in Message
      BY <1>1, Queues
    <2>2. n + 1 \in Int /\ Len(outbound) \in Int
      BY <1>1
    <2>3. /\ rest \in Seq(Message)
          /\ Len(rest) = IF n + 1 <= Len(outbound) THEN Len(outbound) - (n + 1) + 1 ELSE 0
          /\ \A i \in 1..Len(outbound) - (n + 1) + 1 : rest[i] = outbound[n + 1 + i - 1]
      BY <2>1, <2>2, SubSeqProperties
    <2> QED BY <1>1, <2>3
  <1>7. first \in Seq(Message) /\ Len(first) = 1 /\ first[1] = Interrupt(pause.upto)
    BY Messages
  <1>8. outbound' = (first \o Signals(n)) \o rest
    BY DEF DiscardAndClear
  <1> HIDE DEF first, rest
  <1> DEFINE front == first \o Signals(n)
  <1>9. /\ front \in Seq(Message) /\ Len(front) = 1 + k
        /\ front[1] = Interrupt(pause.upto)
        /\ \A i \in 2..1 + k : front[i] = Control
    <2>1. /\ front \in Seq(Message) /\ Len(front) = Len(first) + Len(Signals(n))
          /\ \A i \in 1..Len(first) : front[i] = first[i]
          /\ \A i \in Len(first) + 1..Len(first) + Len(Signals(n)) :
                front[i] = Signals(n)[i - Len(first)]
      BY <1>5, <1>7, Joins, ZenonT(40)
    <2> HIDE DEF front
    <2>2. /\ front[1] = first[1] /\ Len(front) = 1 + k
          /\ \A i \in 2..1 + k : front[i] = Signals(n)[i - 1] /\ i - 1 \in 1..k
      BY <1>3, <1>5, <1>7, <2>1
    <2> QED BY <1>5, <1>7, <2>1, <2>2
  <1>10. outbound' = front \o rest
    BY <1>8
  <1> HIDE DEF front
  <1>11. /\ outbound' \in Seq(Message)
         /\ Len(outbound') = Len(front) + Len(rest)
         /\ \A i \in 1..Len(front) : outbound'[i] = front[i]
         /\ \A i \in Len(front) + 1..Len(front) + Len(rest) : outbound'[i] = rest[i - Len(front)]
    BY <1>6, <1>9, <1>10, Joins, ZenonT(40)
  <1>12. ASSUME NEW i \in 2 + k..Len(outbound')
         PROVE  /\ i - 1 - k + n \in n + 1..Len(outbound)
                /\ outbound'[i] = outbound[i - 1 - k + n]
    <2>1. i - (1 + k) \in 1..Len(outbound) - n /\ n + (i - (1 + k)) = i - 1 - k + n
      BY <1>1, <1>3, <1>6, <1>9, <1>11
    <2>2. outbound'[i] = rest[i - (1 + k)]
      <3>1. Len(front) + 1 = 2 + k /\ Len(front) + Len(rest) = Len(outbound') /\ i - Len(front) = i - (1 + k)
        BY <1>3, <1>9, <1>11
      <3>2. i \in Len(front) + 1..Len(front) + Len(rest)
        BY <1>3, <3>1, <1>9
      <3> QED BY <1>11, <3>1, <3>2
    <2>3. rest[i - (1 + k)] = outbound[n + (i - (1 + k))]
      BY <1>6, <2>1
    <2> QED BY <1>1, <1>3, <2>1, <2>2, <2>3, SMTT(30)
  <1>13. Len(outbound') = 1 + k + Len(outbound) - n
    BY <1>1, <1>3, <1>6, <1>9, <1>11
  <1>14. outbound'[1] = Interrupt(pause.upto) /\ \A i \in 2..1 + k : outbound'[i] = Control
    BY <1>3, <1>9, <1>11
  <1> QED BY <1>3, <1>11, <1>12, <1>13, <1>14

----------------------------------------------------------------------------
(* The types are kept                                                      *)

LEMMA FinishTypes ==
    ASSUME PlayType, generated' \in 0..MaxAudio, NEW by \in {"agent", "provider"},
           NEW last \in Seq(Message), Finish(by, last)
    PROVE  engine' \in Engine /\ promise' \in Promise /\ outbound' \in Seq(Message)
  <1> DEFINE closing == IF engine.closing_requested THEN <<>> ELSE <<Control>>
             made == [by |-> by, upto |-> generated']
  <1>1. engine' \in Engine
    BY DEF Finish, PlayType, Engine
  <1>2. made \in Promise
    BY DEF Promise
  <1>3. promise' \in {made, promise}
    BY DEF Finish
  <1>4. closing \in Seq(Message)
    BY Messages
  <1>5. outbound' = (outbound \o last) \o closing
    BY DEF Finish
  <1> HIDE DEF closing, made
  <1>6. outbound' \in Seq(Message)
    BY <1>4, <1>5, Joins DEF PlayType
  <1> QED BY <1>1, <1>2, <1>3, <1>6 DEF PlayType

LEMMA ListenerTypes ==
    ASSUME PlayType, NEW s \in Session, ListenerStep(s)
    PROVE  PlayType'
  <1> USE DEF playVars, carrierVars
  <1>1. CASE TerminalText(s)
    <2>1. engine' \in Engine
      BY <1>1 DEF TerminalText, PlayType, Engine
    <2> QED BY <1>1, <2>1 DEF TerminalText, PlayType, providerVars
  <1>2. CASE AgentAudio(s)
    <2>1. generated' \in 0..MaxAudio /\ turn' \in [Session -> {"none", "idle", "speaking", "over"}]
      BY <1>2, Numbers DEF AgentAudio, PlayType
    <2>2. outbound' \in Seq(Message)
      BY <1>2, <2>1, Messages, Queues DEF AgentAudio, PlayType
    <2> QED BY <1>2, <2>1, <2>2 DEF AgentAudio, PlayType, engineVars
  <1>3. CASE AgentAudioDone(s)
    <2>1. /\ turn' \in [Session -> {"none", "idle", "speaking", "over"}]
          /\ generated' \in 0..MaxAudio /\ <<>> \in Seq(Message)
      BY <1>3 DEF AgentAudioDone, PlayType
    <2>2. engine' \in Engine /\ promise' \in Promise /\ outbound' \in Seq(Message)
      BY <1>3, <2>1, FinishTypes DEF AgentAudioDone, engineVars, PlayType
    <2> QED BY <1>3, <2>1, <2>2 DEF AgentAudioDone, PlayType
  <1>4. CASE UserStartedSpeaking(s)
    <2>1. /\ turn' \in [Session -> {"none", "idle", "speaking", "over"}]
          /\ bargeIns' \in 0..MaxBargeIns
      BY <1>4, Numbers DEF UserStartedSpeaking, PlayType
    <2>2. outbound' \in Seq(Message)
      BY <1>4, Messages, Queues DEF UserStartedSpeaking, PlayType
    <2> QED BY <1>4, <2>1, <2>2 DEF UserStartedSpeaking, PlayType, engineVars
  <1>5. CASE ClosingHint(s) \/ StartDeadline(s)
    <2>1. /\ engine \in Engine
          /\ engine.arming \cup {s} \in SUBSET Session /\ engine.arming \ {s} \in SUBSET Session
      BY DEF PlayType, Engine
    <2>2. ClosingHint(s) => engine' \in Engine
      BY <2>1 DEF ClosingHint, Engine
    <2>3. StartDeadline(s) => engine' \in Engine
      <3>1. Armed \in Engine /\ (engine.stray_deadline \/ engine.close_deadline) \in BOOLEAN
        BY <2>1 DEF Armed, Engine
      <3>2. Armed.stray_deadline = engine.stray_deadline /\ Armed.arming = engine.arming
        BY <2>1 DEF Armed, Engine
      <3> QED BY <2>1, <3>1, <3>2 DEF StartDeadline, Engine
    <2> QED BY <1>5, <2>2, <2>3 DEF ClosingHint, StartDeadline, PlayType, providerVars
  <1>6. CASE OnClose(s) \/ OnError(s)
    <2>1. /\ turn' \in [Session -> {"none", "idle", "speaking", "over"}]
          /\ generated' \in 0..MaxAudio /\ <<>> \in Seq(Message)
      BY <1>6 DEF OnClose, OnError, PlayType
    <2>2. engine' \in Engine /\ promise' \in Promise /\ outbound' \in Seq(Message)
      BY <1>6, <2>1, FinishTypes DEF OnClose, OnError, engineVars, PlayType
    <2> QED BY <1>6, <2>1, <2>2 DEF OnClose, OnError, PlayType
  <1> QED BY <1>1, <1>2, <1>3, <1>4, <1>5, <1>6 DEF ListenerStep

LEMMA TimerTypes ==
    ASSUME PlayType, KeepaliveFails \/ CloseAfterGrace \/ GiveUp
    PROVE  PlayType'
  <1> USE DEF playVars, carrierVars
  <1>1. CASE KeepaliveFails
    <2>1. generated' \in 0..MaxAudio /\ <<>> \in Seq(Message)
      BY <1>1 DEF KeepaliveFails, providerVars, PlayType
    <2>2. engine' \in Engine /\ promise' \in Promise /\ outbound' \in Seq(Message)
      BY <1>1, <2>1, FinishTypes DEF KeepaliveFails
    <2> QED BY <1>1, <2>2 DEF KeepaliveFails, PlayType, providerVars
  <1>2. CASE CloseAfterGrace
    <2>1. generated' \in 0..MaxAudio
      BY <1>2, Numbers DEF CloseAfterGrace, PlayType
    <2>2. PICK last \in {<<>>, <<Audio(generated')>>} : Finish("agent", last)
      BY <1>2 DEF CloseAfterGrace
    <2>3. last \in Seq(Message)
      <3>1. <<>> \in Seq(Message) /\ Audio(generated') \in Message
        BY <2>1, Messages
      <3>2. <<Audio(generated')>> \in Seq(Message)
        BY <3>1
      <3> QED BY <3>1, <3>2
    <2>4. engine' \in Engine /\ promise' \in Promise /\ outbound' \in Seq(Message)
      BY <2>1, <2>2, <2>3, FinishTypes
    <2> QED BY <1>2, <2>1, <2>4 DEF CloseAfterGrace, PlayType
  <1>3. CASE GiveUp
    <2>1. engine' \in Engine
      BY <1>3 DEF GiveUp, PlayType, Engine
    <2> QED BY <1>3, <2>1 DEF GiveUp, PlayType, providerVars
  <1> QED BY <1>1, <1>2, <1>3

LEMMA SenderChanges ==
    ASSUME sender \in Sender
    PROVE  /\ [sender EXCEPT !.paused = TRUE] \in Sender
           /\ [sender EXCEPT !.buffer = <<>>] \in Sender
  <1>1. <<>> \in Seq(Frame)
    OBVIOUS
  <1> QED BY <1>1 DEF Sender

LEMMA PumpTypes ==
    ASSUME PlayType, CutInv, PumpStep
    PROVE  PlayType'
  <1> USE DEF providerVars, engineVars, carrierVars
  <1>1. ASSUME NEW type \in {"audio", "pause", "interrupt", "control"}, NextOutput(type)
        PROVE  /\ Head(outbound) \in Message /\ outbound' \in Seq(Message)
               /\ type = "audio" => Head(outbound).frame \in Frame
               /\ Head(outbound).frame \in 0..MaxAudio
    <2>1. /\ outbound # <<>> /\ outbound' = Tail(outbound) /\ Head(outbound) \in Message
          /\ outbound' \in Seq(Message) /\ Head(outbound) = outbound[1] /\ 1 \in 1..Len(outbound)
          /\ Head(outbound).type = type
      BY <1>1, Queues DEF NextOutput, PlayType
    <2>2. Head(outbound).frame \in 0..MaxAudio
      BY <2>1 DEF Message
    <2>3. type = "audio" => Head(outbound).frame \in Frame
      BY <2>1, <2>2, Numbers DEF CutInv, Later, IsAudio, PlayType, Frame
    <2> QED BY <2>1, <2>2, <2>3
  <1>2. CASE Feed
    <2>1. NextOutput("audio")
      BY <1>2 DEF Feed
    <2>2. Head(outbound).frame \in Frame /\ outbound' \in Seq(Message)
      BY <1>1, <2>1
    <2>3. Append(sender.buffer, Head(outbound).frame) \in Seq(Frame)
      BY <2>2, Queues DEF PlayType, Sender
    <2>4. sender' \in Sender
      BY <1>2, <2>3 DEF Feed, PlayType, Sender
    <2> QED BY <1>2, <2>1, <2>2, <2>4 DEF Feed, NextOutput, PlayType
  <1>3. CASE BeginSoftPause \/ BeginInterrupt \/ CloseSignal
    <2>1. PICK type \in {"pause", "interrupt", "control"} : NextOutput(type)
      BY <1>3 DEF BeginSoftPause, BeginInterrupt, CloseSignal
    <2>2. Head(outbound).frame \in 0..MaxAudio /\ outbound' \in Seq(Message)
      BY <1>1, <2>1
    <2>3. /\ pause' \in PauseState
          /\ sender' \in {sender, [sender EXCEPT !.paused = TRUE], [sender EXCEPT !.buffer = <<>>]}
          /\ pump' \in {pump, "clear"}
      <3>1. CASE BeginSoftPause
        BY <2>2, <3>1 DEF BeginSoftPause, PauseState
      <3>2. CASE BeginInterrupt
        BY <2>2, <3>2 DEF BeginInterrupt, PauseState
      <3>3. CASE CloseSignal
        BY <3>3 DEF CloseSignal, PlayType
      <3> QED BY <1>3, <3>1, <3>2, <3>3
    <2>4. sender' \in Sender /\ pump' \in {"run", "clear", "dead"}
      BY <2>3, SenderChanges DEF PlayType
    <2> QED BY <1>3, <2>1, <2>2, <2>3, <2>4 DEF NextOutput, PlayType
  <1>4. CASE ClearPlayback
    BY <1>4 DEF ClearPlayback, PlayType, PauseState
  <1>5. CASE ClearFails
    <2>1. sender' \in Sender
      BY <1>5 DEF ClearFails, PlayType, Sender
    <2> QED BY <1>5, <2>1 DEF ClearFails, PlayType
  <1> QED BY <1>2, <1>3, <1>4, <1>5 DEF PumpStep

LEMMA SenderTypes ==
    ASSUME PlayType, SenderStep
    PROVE  PlayType'
  <1> USE DEF providerVars, engineVars, carrierVars
  <1>1. sender \in Sender
    BY DEF PlayType
  <1>2. CASE SendFrame
    <2> DEFINE f == Head(sender.buffer)
               rest == [sender EXCEPT !.buffer = Tail(sender.buffer)]
    <2>1. sender.buffer \in Seq(Frame) /\ sender.buffer # <<>>
      BY <1>1, <1>2 DEF SendFrame, Sender
    <2>2. f \in Frame /\ Tail(sender.buffer) \in Seq(Frame)
      BY <2>1, Queues
    <2>3. rest \in Sender
      BY <1>1, <2>2 DEF Sender
    <2>4. line' \in {Append(line, f), <<>>, line}
          /\ sender' \in {[rest EXCEPT !.sending = f], [rest EXCEPT !.alive = FALSE]}
      BY <1>2 DEF SendFrame
    <2>5. f \in 0..MaxAudio
      BY <2>2, Numbers
    <2> HIDE DEF f, rest
    <2>6. line' \in Seq(Frame)
      <3>1. line \in Seq(Frame) /\ <<>> \in Seq(Frame)
        BY DEF PlayType
      <3>2. Append(line, f) \in Seq(Frame)
        BY <2>2, <3>1, Queues
      <3> QED BY <2>4, <3>1, <3>2
    <2>7. sender' \in Sender
      BY <2>3, <2>4, <2>5 DEF Sender
    <2> QED BY <1>2, <2>6, <2>7 DEF SendFrame, PlayType
  <1>3. CASE FrameSent
    <2> DEFINE count == IF sender.since_mark + 1 = MarkEvery THEN 0 ELSE sender.since_mark + 1
    <2>1. count \in 0..(MarkEvery - 1) /\ (sender.sending # 0 => sender.sending \in Frame)
      BY <1>1, Numbers DEF Sender, Frame
    <2>2. sender' = [sender EXCEPT !.sending = 0, !.since_mark = count]
      BY <1>3 DEF FrameSent
    <2>3. pending' \subseteq Frame
      BY <1>3, <2>1 DEF FrameSent, PlayType
    <2> HIDE DEF count
    <2>4. sender' \in Sender
      <3>1. 0 \in 0..MaxAudio
        BY Numbers
      <3> QED BY <1>1, <2>1, <2>2, <3>1 DEF Sender
    <2> QED BY <1>3, <2>3, <2>4 DEF FrameSent, PlayType
  <1> QED BY <1>2, <1>3 DEF SenderStep

LEMMA BargeInTypes ==
    ASSUME PlayType, BargeIn
    PROVE  outbound' \in Seq(Message) /\ sender' \in Sender /\ pause' \in PauseState
  <1>1. NoPause \in PauseState
    BY Numbers DEF NoPause, PauseState
  <1>2. outbound' \in Seq(Message)
    BY DiscardLeaves DEF BargeIn, PlayType, PauseState
  <1>3. sender' \in Sender
    BY DEF BargeIn, PlayType, Sender
  <1> QED BY <1>1, <1>2, <1>3 DEF BargeIn, PlayType

LEMMA LoopTypes ==
    ASSUME PlayType, LoopStep
    PROVE  PlayType'
  <1> USE DEF playVars, carrierVars
  <1>1. CASE ReceiveFrame
    BY <1>1, BargeInTypes DEF ReceiveFrame, HandleFrame, PlayType, providerVars, engineVars
  <1>2. CASE Injected
    <2>1. engine' \in Engine
      BY <1>2 DEF Injected, Armed, PlayType, Engine
    <2> QED BY <1>2, <2>1, BargeInTypes DEF Injected, HandleFrame, PlayType, providerVars
  <1>3. CASE StartEngine
    <2>1. turn' \in [Session -> {"none", "idle", "speaking", "over"}]
      BY <1>3 DEF StartEngine, PlayType
    <2> QED BY <1>3, <2>1 DEF StartEngine, PlayType, engineVars
  <1>4. CASE AudioSent
    <2>1. generated' \in 0..MaxAudio /\ <<>> \in Seq(Message)
      BY <1>4 DEF AudioSent, providerVars, PlayType
    <2>2. engine' \in Engine /\ promise' \in Promise /\ outbound' \in Seq(Message)
      BY <1>4, <2>1, FinishTypes DEF AudioSent, engineVars, PlayType
    <2> QED BY <1>4, <2>2 DEF AudioSent, PlayType, providerVars
  <1>5. CASE CallerGone
    <2>1. sender' \in Sender
      BY <1>5, SenderChanges DEF CallerGone, PlayType
    <2> QED BY <1>5, <2>1 DEF CallerGone, PlayType, providerVars, engineVars
  <1>6. CASE Finally
    <2>1. sender' \in Sender /\ engine' \in Engine
      BY <1>6 DEF Finally, PlayType, Sender, Engine
    <2> QED BY <1>6, <2>1 DEF Finally, PlayType, providerVars
  <1>7. CASE SendAudio \/ SocketEnds \/ AwaitCloseSignal \/ DrainFinishes \/ DrainGivesUp \/ HangUp
    BY <1>7 DEF SendAudio, SocketEnds, AwaitCloseSignal, DrainFinishes, DrainGivesUp, HangUp,
       PlayType, providerVars, engineVars
  <1> QED BY <1>1, <1>2, <1>3, <1>4, <1>5, <1>6, <1>7 DEF LoopStep

LEMMA CarrierTypes ==
    ASSUME PlayType, CarrierPlays \/ MarkEchoed \/ CallerLeaves
    PROVE  PlayType'
  <1> USE DEF playVars, carrierVars, providerVars, engineVars
  <1>1. CASE CarrierPlays
    BY <1>1, Queues DEF CarrierPlays, PlayType
  <1>2. CASE MarkEchoed
    BY <1>2 DEF MarkEchoed, PlayType
  <1>3. CASE CallerLeaves
    BY <1>3 DEF CallerLeaves, PlayType
  <1> QED BY <1>1, <1>2, <1>3

LEMMA NextTypes ==
    ASSUME PlayType, CutInv, [Next]_vars
    PROVE  PlayType'
  <1>1. CASE UNCHANGED vars
    BY <1>1 DEF vars, providerVars, engineVars, playVars, carrierVars, PlayType
  <1> QED
    BY <1>1, ListenerTypes, TimerTypes, PumpTypes, SenderTypes, LoopTypes, CarrierTypes DEF Next

----------------------------------------------------------------------------
(* Steps that neither play, post nor take anything                         *)

\* The flags the invariant speaks of.
FlagsKept ==
    /\ loop'.close_after_playback = loop.close_after_playback
    /\ loop'.drained = "finished" => loop.drained = "finished"
    /\ engine.closing_requested => engine'.closing_requested

SenderKept ==
    /\ sender'.buffer = sender.buffer
    /\ sender'.sending = sender.sending /\ sender'.since_mark = sender.since_mark

LEMMA QuietSound ==
    ASSUME SoundInv, FlagsKept, SenderKept, pump' \in {pump, "dead"},
           UNCHANGED <<outbound, generated, pause, cut, promise, pending, line, socket>>
    PROVE  SoundInv'
  <1>1. QueueInv' /\ CutInv'
    BY DEF SoundInv, QueueInv, CutInv, Barrier, Later, Above, SenderKept
  <1>2. PauseInv' /\ CloseInv'
    BY DEF SoundInv, PauseInv, CloseInv, Later, SenderKept, FlagsKept
  <1>3. MarkInv'
    BY DEF SoundInv, MarkInv, Unmarked, SenderKept
  <1>4. DrainInv'
    BY DEF SoundInv, DrainInv, Above, SenderKept, FlagsKept
  <1> QED BY <1>1, <1>2, <1>3, <1>4 DEF SoundInv

----------------------------------------------------------------------------
(* Posting on the queue                                                    *)

\* New audio comes first of what is posted, and was generated just now; a pause
\* stands behind everything generated; a close signal is posted for a promise.
Posted ==
    /\ Len(outbound') >= Len(outbound)
    /\ \A i \in 1..Len(outbound) : outbound'[i] = outbound[i]
    /\ \A i \in Len(outbound) + 1..Len(outbound') :
         \/ /\ i = Len(outbound) + 1 /\ IsAudio(outbound'[i])
            /\ generated' > generated /\ outbound'[i].frame = generated'
         \/ outbound'[i].type = "pause" /\ outbound'[i].frame = generated'
         \/ outbound'[i] = Control /\ promise'.by # "nobody"

\* A promise is made once, about what was generated by then.
Promised ==
    /\ promise' = promise \/ (promise.by = "nobody" /\ promise'.upto = generated')
    /\ promise'.by # "nobody" => engine'.closing_requested

LEMMA PostSound ==
    ASSUME SoundInv, PlayType, PlayType', FlagsKept, Posted, Promised, generated' >= generated,
           UNCHANGED <<pump, sender, pause, cut, pending, line, socket>>
    PROVE  SoundInv'
  <1> DEFINE n == Len(outbound)
             m == Len(outbound')
  <1>1. /\ n \in Nat /\ m \in Nat /\ m >= n
        /\ \A i \in 1..n : outbound[i] \in Message /\ outbound'[i] = outbound[i]
        /\ \A i \in 1..m : outbound'[i] \in Message
    BY Queues DEF PlayType, Posted
  <1>2. /\ generated \in Nat /\ generated' \in Nat
        /\ pause.upto \in Nat /\ cut \in Nat /\ promise.upto \in Nat /\ promise'.upto \in Nat
    BY Numbers DEF PlayType, PauseState, Promise
  <1>3. \A i \in 1..m : outbound'[i].frame \in Nat
    BY <1>1, Numbers DEF Message
  <1>4. \A i \in 1..n : outbound[i].type = "control" => promise' = promise
    BY DEF SoundInv, CloseInv, Promised
  <1>5. promise'.upto <= generated'
    BY <1>2 DEF Promised, SoundInv, QueueInv
  <1>6. ASSUME NEW j \in 1..m, IsAudio(outbound'[j])
        PROVE  \/ j \in 1..n /\ outbound'[j] = outbound[j]
               \/ j = n + 1 /\ outbound'[j].frame = generated' /\ generated' > generated
    BY <1>1, <1>6 DEF Posted, IsAudio, Control
  <1>7. ASSUME NEW f \in Nat, f <= generated, Later(f)
        PROVE  \A j \in 1..m : IsAudio(outbound'[j]) => f < outbound'[j].frame
    BY <1>2, <1>6, <1>7 DEF Later
  <1>8. QueueInv'
    <2>1. ASSUME NEW j \in 1..m, NEW i \in 1..m, i < j, IsAudio(outbound'[j])
          PROVE  (IF outbound'[i].type = "control" THEN promise'.upto ELSE outbound'[i].frame)
                    < outbound'[j].frame
      <3>1. i \in 1..n /\ outbound'[i] = outbound[i]
        BY <1>1, <1>6, <2>1
      <3>2. CASE j \in 1..n /\ outbound'[j] = outbound[j]
        BY <1>4, <2>1, <3>1, <3>2 DEF SoundInv, QueueInv, Barrier
      <3>3. CASE outbound'[j].frame = generated' /\ generated' > generated
        <4>1. outbound[i].frame <= generated /\ outbound[i].frame \in Nat
          BY <1>3, <3>1 DEF SoundInv, QueueInv
        <4>2. outbound[i].type = "control" => promise'.upto <= generated
          BY <1>4, <3>1 DEF SoundInv, QueueInv
        <4> QED BY <1>2, <3>1, <3>3, <4>1, <4>2 DEF Barrier
      <3> QED BY <1>6, <2>1, <3>2, <3>3
    <2>2. ASSUME NEW i \in 1..m PROVE outbound'[i].frame <= generated'
      <3>1. CASE i \in 1..n
        <4>1. outbound'[i] = outbound[i] /\ outbound[i].frame <= generated
          BY <1>1, <3>1 DEF SoundInv, QueueInv
        <4>2. outbound'[i].frame \in Nat
          BY <1>3
        <4> QED BY <1>2, <4>1, <4>2
      <3>2. CASE i \in n + 1..m
        BY <1>2, <3>2, SMTT(30) DEF Posted, Control
      <3> QED BY <1>1, <3>1, <3>2
    <2> QED BY <1>2, <1>5, <2>1, <2>2 DEF SoundInv, QueueInv, Barrier
  <1>9. PauseInv' /\ CutInv'
    <2>1. Later(cut)'
      BY <1>2, <1>7 DEF SoundInv, QueueInv, CutInv, Later
    <2>2. (pause.active \/ pump = "clear") => Later(pause.upto)'
      BY <1>2, <1>7 DEF SoundInv, QueueInv, PauseInv, Later
    <2> QED BY <2>1, <2>2 DEF SoundInv, PauseInv, CutInv, Above
  <1>10. CloseInv'
    <2>1. loop'.close_after_playback => promise' = promise /\ Later(promise.upto)
      BY DEF SoundInv, CloseInv, FlagsKept, Promised
    <2>2. loop'.close_after_playback => promise'.by # "nobody"
      BY <2>1 DEF SoundInv, CloseInv, FlagsKept
    <2>3. loop'.close_after_playback => Later(promise.upto)'
      BY <1>2, <1>7, <2>1 DEF SoundInv, QueueInv, Later
    <2>4. \A i \in 1..m : outbound'[i].type = "control" => promise'.by # "nobody"
      BY <1>1, <1>4 DEF Posted, IsAudio, SoundInv, CloseInv
    <2> QED BY <2>2, <2>3, <2>4 DEF CloseInv, Promised, Later
  <1>11. MarkInv'
    BY DEF SoundInv, MarkInv, Unmarked
  <1>12. DrainInv'
    BY DEF SoundInv, DrainInv, CloseInv, Above, FlagsKept, Promised
  <1> QED BY <1>8, <1>9, <1>10, <1>11, <1>12 DEF SoundInv

\* The engine closes, with or without a goodbye from the cache.
LEMMA FinishSound ==
    ASSUME SoundInv, PlayType, PlayType',
           NEW by \in {"agent", "provider"}, NEW last, Finish(by, last),
           \/ last = <<>> /\ generated' = generated
           \/ last = <<Audio(generated')>> /\ generated' = generated + 1,
           loop'.close_after_playback = loop.close_after_playback,
           loop'.drained = "finished" => loop.drained = "finished",
           UNCHANGED <<pump, sender, pause, cut, pending, line, socket>>
    PROVE  SoundInv'
  <1> DEFINE closing == IF engine.closing_requested THEN <<>> ELSE <<Control>>
             first == outbound \o last
             n == Len(outbound)
  <1>1. last \in Seq(Message) /\ closing \in Seq(Message)
    <2>1. generated' \in 0..MaxAudio
      BY DEF PlayType
    <2>2. <<>> \in Seq(Message) /\ <<Audio(generated')>> \in Seq(Message)
          /\ <<Control>> \in Seq(Message)
      BY <2>1, Messages
    <2> QED BY <2>2
  <1>2. /\ Len(last) \in {0, 1} /\ Len(closing) \in {0, 1}
        /\ Len(last) = 1 => last[1] = Audio(generated') /\ generated' = generated + 1
        /\ Len(closing) = 1 => closing[1] = Control
    OBVIOUS
  <1>3. outbound' = first \o closing
    BY DEF Finish
  <1>4. engine'.closing_requested /\ generated' >= generated
    BY DEF Finish, PlayType, Engine
  <1>5. Promised /\ promise'.by # "nobody"
    BY <1>4 DEF Finish, Promised
  <1> HIDE DEF closing
  <1>6. /\ first \in Seq(Message) /\ Len(first) = n + Len(last)
        /\ \A i \in 1..n : first[i] = outbound[i]
        /\ \A i \in n + 1..n + Len(last) : first[i] = last[i - n]
    BY <1>1, Joins DEF PlayType
  <1> HIDE DEF first
  <1>7. /\ Len(outbound') = Len(first) + Len(closing)
        /\ \A i \in 1..Len(first) : outbound'[i] = first[i]
        /\ \A i \in Len(first) + 1..Len(first) + Len(closing) :
              outbound'[i] = closing[i - Len(first)]
    <2> HIDE DEF n
    <2>1. first \in Seq(Message) /\ closing \in Seq(Message)
      BY <1>1, <1>6
    <2> QED BY <1>3, <2>1, Joins
  <1>8. n \in Nat
    BY Queues DEF PlayType
  <1>9. Posted
    <2>1. \A i \in 1..n : outbound'[i] = outbound[i]
      BY <1>2, <1>6, <1>7, <1>8
    <2>2. ASSUME NEW i \in n + 1..Len(outbound')
          PROVE  \/ i = n + 1 /\ outbound'[i] = Audio(generated') /\ generated' = generated + 1
                 \/ outbound'[i] = Control
      <3>1. CASE i <= Len(first)
        BY <1>2, <1>6, <1>7, <1>8, <2>2, <3>1
      <3>2. CASE i > Len(first)
        <4>1. Len(first) \in Nat /\ i \in Nat
          BY <1>2, <1>6, <1>8, <2>2
        <4>2. i \in Len(first) + 1..Len(first) + Len(closing) /\ Len(closing) = 1
          BY <1>2, <1>7, <2>2, <3>2, <4>1
        <4>3. i - Len(first) = 1
          BY <4>1, <4>2
        <4> QED BY <1>2, <1>7, <4>2, <4>3
      <3> QED BY <1>2, <1>6, <1>8, <2>2, <3>1, <3>2
    <2>3. Len(outbound') >= n
      BY <1>2, <1>6, <1>7, <1>8
    <2>4. generated \in Nat
      BY Numbers DEF PlayType
    <2> QED BY <1>5, <2>1, <2>2, <2>3, <2>4 DEF Posted, Audio, IsAudio
  <1> QED BY <1>4, <1>5, <1>9, PostSound DEF FlagsKept

----------------------------------------------------------------------------
(* The pump takes from the queue                                           *)

\* The queue without its first message.
Taken ==
    /\ outbound # <<>> /\ outbound' = Tail(outbound)
    /\ UNCHANGED <<generated, cut, promise, engine, pending, line, socket>>

\* What the first message leaves behind it.
LEMMA TakenQueue ==
    ASSUME SoundInv, PlayType, Taken, pause'.upto <= generated
    PROVE  /\ QueueInv'
           /\ \A f \in Nat : Later(f) =>
                \A j \in 1..Len(outbound') : IsAudio(outbound'[j]) => f < outbound'[j].frame
           /\ \A j \in 1..Len(outbound') :
                IsAudio(outbound'[j]) => Barrier(Head(outbound)) < outbound'[j].frame
           /\ \A i \in 1..Len(outbound') : outbound'[i].type = "control" => promise.by # "nobody"
           /\ IsAudio(Head(outbound)) => /\ cut < Head(outbound).frame
                                         /\ Later(promise.upto) => promise.upto < Head(outbound).frame
           /\ Head(outbound).frame <= generated
           /\ Head(outbound).type = "control" => promise.by # "nobody"
  <1>1. /\ Len(outbound) \in Nat /\ Len(outbound) >= 1 /\ Len(outbound') = Len(outbound) - 1
        /\ Head(outbound) = outbound[1]
        /\ \A i \in 1..Len(outbound') : outbound'[i] = outbound[i + 1] /\ i + 1 \in 1..Len(outbound)
    BY Queues DEF Taken, PlayType
  <1>2. ASSUME NEW i \in 1..Len(outbound'), NEW j \in 1..Len(outbound'),
               i < j, IsAudio(outbound'[j])
        PROVE  Barrier(outbound[i + 1]) < outbound'[j].frame
    <2>1. i + 1 \in 1..Len(outbound) /\ j + 1 \in 1..Len(outbound) /\ i + 1 < j + 1
      BY <1>1, <1>2
    <2> QED BY <1>1, <1>2, <2>1 DEF SoundInv, QueueInv
  <1>3. QueueInv'
    BY <1>1, <1>2 DEF SoundInv, QueueInv, Barrier, Taken
  <1>4. ASSUME NEW j \in 1..Len(outbound'), IsAudio(outbound'[j])
        PROVE  Barrier(Head(outbound)) < outbound'[j].frame
    <2>1. 1 \in 1..Len(outbound) /\ j + 1 \in 1..Len(outbound) /\ 1 < j + 1
      BY <1>1
    <2> QED BY <1>1, <1>4, <2>1 DEF SoundInv, QueueInv
  <1>5. \A f \in Nat : Later(f) =>
            \A j \in 1..Len(outbound') : IsAudio(outbound'[j]) => f < outbound'[j].frame
    BY <1>1 DEF Later
  <1>6. 1 \in 1..Len(outbound)
    BY <1>1
  <1>7. /\ \A i \in 1..Len(outbound') : outbound'[i].type = "control" => promise.by # "nobody"
        /\ Head(outbound).type = "control" => promise.by # "nobody"
    BY <1>1, <1>6 DEF SoundInv, CloseInv
  <1>8. Head(outbound).frame <= generated
    BY <1>1, <1>6 DEF SoundInv, QueueInv
  <1>9. IsAudio(Head(outbound)) =>
            cut < Head(outbound).frame /\ (Later(promise.upto) => promise.upto < Head(outbound).frame)
    BY <1>1, <1>6 DEF SoundInv, CutInv, Later
  <1> QED BY <1>3, <1>4, <1>5, <1>7, <1>8, <1>9

\* What the pump does with it.
LEMMA TakeSound ==
    ASSUME SoundInv, PlayType, PlayType', LoopType,
           Feed \/ BeginSoftPause \/ BeginInterrupt \/ CloseSignal
    PROVE  SoundInv'
  <1> DEFINE m == Head(outbound)
  <1>1. Taken /\ pump = "run"
    BY DEF Feed, BeginSoftPause, BeginInterrupt, CloseSignal, NextOutput, Taken, providerVars,
       engineVars, carrierVars
  <1>2. /\ generated \in Nat /\ pause.upto \in Nat /\ cut \in Nat /\ promise.upto \in Nat
        /\ sender \in Sender /\ sender.buffer \in Seq(Frame)
    BY Numbers DEF PlayType, PauseState, Promise, Sender
  <1>3. m \in Message /\ m.frame \in Nat
    <2>1. m \in Message
      BY <1>1, Queues DEF Taken, PlayType
    <2>2. m.frame \in 0..MaxAudio
      BY <2>1 DEF Message
    <2> QED BY <2>1, <2>2, Numbers
  <1>4. pause' = pause \/ pause'.upto = m.frame
    BY DEF Feed, BeginSoftPause, BeginInterrupt, CloseSignal
  <1>5. m.frame <= generated
    BY <1>1, Queues DEF SoundInv, QueueInv, Taken, PlayType
  <1>6. pause'.upto <= generated
    BY <1>4, <1>5 DEF SoundInv, QueueInv
  <1> DEFINE LaterNow(f) ==
                \A j \in 1..Len(outbound') : IsAudio(outbound'[j]) => f < outbound'[j].frame
  <1>7. /\ QueueInv'
        /\ \A f \in Nat : Later(f) => LaterNow(f)
        /\ LaterNow(Barrier(m))
        /\ \A i \in 1..Len(outbound') : outbound'[i].type = "control" => promise.by # "nobody"
        /\ IsAudio(m) => cut < m.frame /\ (Later(promise.upto) => promise.upto < m.frame)
        /\ m.type = "control" => promise.by # "nobody"
    BY <1>1, <1>6, TakenQueue
  <1>8. LaterNow(cut)
    BY <1>2, <1>7 DEF SoundInv, CutInv
  <1>9. UNCHANGED <<generated, cut, promise, engine, pending, line, socket>>
    BY <1>1 DEF Taken
  <1> HIDE DEF m
  <1>10. CASE Feed
    <2>1. /\ m.type = "audio" /\ UNCHANGED <<pump, pause, loop>>
          /\ sender' = [sender EXCEPT !.buffer = Append(sender.buffer, m.frame)]
      BY <1>10 DEF Feed, NextOutput, m
    <2>2. m.frame \in Frame
      BY <1>2, <1>3, <1>7, <2>1 DEF IsAudio, Message, Frame
    <2>3. /\ sender'.buffer = Append(sender.buffer, m.frame)
          /\ sender'.sending = sender.sending /\ sender'.since_mark = sender.since_mark
      BY <1>2, <2>1 DEF Sender
    <2>4. \A f \in Nat : Above(sender.buffer, f) /\ f < m.frame => Above(sender'.buffer, f)
      BY <1>2, <2>2, <2>3, Queues DEF Above
    <2>5. PauseInv'
      BY <1>1, <1>2, <1>7, <2>1 DEF SoundInv, PauseInv, Later
    <2>6. CutInv'
      BY <1>2, <1>7, <1>8, <1>9, <2>1, <2>4 DEF SoundInv, CutInv, Later, Above, IsAudio
    <2>7. CloseInv'
      BY <1>2, <1>7, <1>9, <2>1 DEF SoundInv, CloseInv, Later
    <2>8. MarkInv'
      BY <1>9, <2>3 DEF SoundInv, MarkInv, Unmarked
    <2>9. DrainInv'
      BY <1>2, <1>7, <1>9, <2>1, <2>4 DEF SoundInv, DrainInv, CloseInv, IsAudio
    <2> QED BY <1>7, <2>5, <2>6, <2>7, <2>8, <2>9 DEF SoundInv
  <1>11. CASE BeginSoftPause
    <2>1. /\ m.type = "pause" /\ UNCHANGED <<pump, loop>>
          /\ sender' = [sender EXCEPT !.paused = TRUE]
          /\ pause' = [active |-> TRUE, upto |-> m.frame]
      BY <1>11 DEF BeginSoftPause, NextOutput, m
    <2>2. SenderKept
      BY <1>2, <2>1 DEF Sender, SenderKept
    <2>3. LaterNow(pause'.upto)
      BY <1>7, <2>1 DEF Barrier
    <2>4. PauseInv'
      BY <1>1, <2>1, <2>3 DEF PauseInv, Later
    <2>5. CutInv' /\ CloseInv' /\ MarkInv' /\ DrainInv'
      BY <1>2, <1>7, <1>8, <1>9, <2>1, <2>2
         DEF SoundInv, CutInv, CloseInv, MarkInv, DrainInv, Later, Above, Unmarked, SenderKept
    <2> QED BY <1>7, <2>4, <2>5 DEF SoundInv
  <1>12. CASE BeginInterrupt
    <2>1. /\ m.type = "interrupt" /\ UNCHANGED loop /\ pump' = "clear"
          /\ sender' = [sender EXCEPT !.buffer = <<>>]
          /\ pause' = [active |-> FALSE, upto |-> m.frame]
      BY <1>12 DEF BeginInterrupt, NextOutput, m
    <2>2. /\ sender'.buffer = <<>>
          /\ sender'.sending = sender.sending /\ sender'.since_mark = sender.since_mark
      BY <1>2, <2>1 DEF Sender
    <2>3. LaterNow(pause'.upto)
      BY <1>7, <2>1 DEF Barrier
    <2>4. PauseInv'
      BY <2>1, <2>2, <2>3 DEF PauseInv, Later
    <2>5. Above(sender'.buffer, cut) /\ Above(sender'.buffer, promise.upto)
      BY <2>2 DEF Above
    <2>6. CutInv' /\ CloseInv' /\ MarkInv' /\ DrainInv'
      BY <1>2, <1>7, <1>8, <1>9, <2>1, <2>2, <2>5
         DEF SoundInv, CutInv, CloseInv, MarkInv, DrainInv, Later, Above, Unmarked
    <2> QED BY <1>7, <2>4, <2>6 DEF SoundInv
  <1>13. CASE CloseSignal
    <2>1. /\ m.type = "control" /\ UNCHANGED <<pump, sender, pause>>
          /\ loop' = [loop EXCEPT !.close_after_playback = TRUE]
      BY <1>13 DEF CloseSignal, NextOutput, m
    <2>2. loop'.close_after_playback /\ loop'.drained = loop.drained
      BY <2>1 DEF LoopType, Loop
    <2>3. LaterNow(promise.upto) /\ promise.by # "nobody"
      BY <1>7, <2>1 DEF Barrier
    <2>4. PauseInv' /\ CutInv' /\ CloseInv' /\ MarkInv' /\ DrainInv'
      BY <1>1, <1>2, <1>7, <1>8, <1>9, <2>1, <2>2, <2>3
         DEF SoundInv, PauseInv, CutInv, CloseInv, MarkInv, DrainInv, Later, Above, Unmarked
    <2> QED BY <1>7, <2>4 DEF SoundInv
  <1> QED BY <1>10, <1>11, <1>12, <1>13

----------------------------------------------------------------------------
(* The listener threads, the timers and the keepalive                      *)

LEMMA ListenerSound ==
    ASSUME SoundInv, PlayType, PlayType', NEW s \in Session, ListenerStep(s)
    PROVE  SoundInv'
  <1> USE DEF playVars, carrierVars
  <1>1. CASE TerminalText(s) \/ ClosingHint(s) \/ StartDeadline(s)
    <2>1. engine.closing_requested => engine'.closing_requested
      BY <1>1 DEF TerminalText, ClosingHint, StartDeadline, Armed, PlayType, Engine
    <2>2. UNCHANGED <<generated, outbound, pump, sender, pause, cut, promise, pending, line,
                      socket, loop>>
      BY <1>1 DEF TerminalText, ClosingHint, StartDeadline, providerVars
    <2> QED BY <2>1, <2>2, QuietSound DEF FlagsKept, SenderKept
  <1>2. CASE AgentAudio(s) \/ UserStartedSpeaking(s)
    <2>1. PICK m \in Message :
            /\ outbound' = Append(outbound, m)
            /\ \/ IsAudio(m) /\ m.frame = generated' /\ generated' = generated + 1
               \/ m.type = "pause" /\ m.frame = generated' /\ generated' = generated
      <3>1. CASE AgentAudio(s)
        <4>1. generated' \in 0..MaxAudio /\ generated' = generated + 1
          BY <3>1 DEF AgentAudio, PlayType
        <4>2. Audio(generated') \in Message /\ outbound' = Append(outbound, Audio(generated'))
          BY <3>1, <4>1, Messages DEF AgentAudio
        <4> QED BY <4>1, <4>2 DEF Audio, IsAudio
      <3>2. CASE UserStartedSpeaking(s)
        <4>1. generated' = generated /\ generated \in 0..MaxAudio
          BY <3>2 DEF UserStartedSpeaking, PlayType
        <4>2. Pause \in Message /\ outbound' = Append(outbound, Pause)
          BY <3>2, <4>1, Messages DEF UserStartedSpeaking
        <4> QED BY <4>1, <4>2 DEF Pause
      <3> QED BY <1>2, <3>1, <3>2
    <2>2. UNCHANGED <<engine, pump, sender, pause, cut, promise, pending, line, socket, loop>>
      BY <1>2 DEF AgentAudio, UserStartedSpeaking, engineVars
    <2>3. generated \in Nat
      BY Numbers DEF PlayType
    <2>4. Posted
      <3>1. /\ Len(outbound) \in Nat /\ Len(outbound') = Len(outbound) + 1
            /\ \A i \in 1..Len(outbound) : outbound'[i] = outbound[i]
            /\ outbound'[Len(outbound) + 1] = m
        BY <2>1, Queues DEF PlayType
      <3>2. \A i \in Len(outbound) + 1..Len(outbound') : i = Len(outbound) + 1
        BY <3>1
      <3> QED BY <2>1, <2>3, <3>1, <3>2 DEF Posted
    <2>5. Promised /\ FlagsKept
      BY <2>2 DEF Promised, FlagsKept, SoundInv, CloseInv
    <2>6. generated' >= generated
      BY <2>1, <2>3
    <2> QED BY <2>2, <2>4, <2>5, <2>6, PostSound
  <1>3. CASE AgentAudioDone(s) \/ OnClose(s) \/ OnError(s)
    <2>1. UNCHANGED <<generated, pump, sender, pause, cut, pending, line, socket, loop>>
      BY <1>3 DEF AgentAudioDone, OnClose, OnError
    <2>2. \/ UNCHANGED <<engine, promise, outbound>>
          \/ \E by \in {"agent", "provider"} : Finish(by, <<>>)
      BY <1>3 DEF AgentAudioDone, OnClose, OnError, engineVars
    <2>3. CASE UNCHANGED <<engine, promise, outbound>>
      BY <2>1, <2>3, QuietSound DEF FlagsKept, SenderKept
    <2>4. CASE \E by \in {"agent", "provider"} : Finish(by, <<>>)
      BY <2>1, <2>4, FinishSound
    <2> QED BY <2>2, <2>3, <2>4
  <1> QED BY <1>1, <1>2, <1>3 DEF ListenerStep

LEMMA TimerSound ==
    ASSUME SoundInv, PlayType, PlayType', LoopType, KeepaliveFails \/ CloseAfterGrace \/ GiveUp
    PROVE  SoundInv'
  <1> USE DEF playVars, carrierVars
  <1>1. CASE KeepaliveFails \/ CloseAfterGrace
    <2>1. UNCHANGED <<pump, sender, pause, cut, pending, line, socket, loop>>
      BY <1>1 DEF KeepaliveFails, CloseAfterGrace
    <2>2. PICK by \in {"agent", "provider"}, last \in {<<>>, <<Audio(generated')>>} :
            /\ Finish(by, last)
            /\ \/ last = <<>> /\ generated' = generated
               \/ last = <<Audio(generated')>> /\ generated' = generated + 1
      BY <1>1 DEF KeepaliveFails, CloseAfterGrace, providerVars
    <2> QED BY <2>1, <2>2, FinishSound
  <1>2. CASE GiveUp
    <2>1. /\ engine.closing_requested => engine'.closing_requested
          /\ loop'.close_after_playback = loop.close_after_playback
          /\ loop'.drained = loop.drained
      BY <1>2 DEF GiveUp, PlayType, Engine, LoopType, Loop
    <2>2. UNCHANGED <<generated, outbound, pump, sender, pause, cut, promise, pending, line, socket>>
      BY <1>2 DEF GiveUp, providerVars
    <2> QED BY <2>1, <2>2, QuietSound DEF FlagsKept, SenderKept
  <1> QED BY <1>1, <1>2

----------------------------------------------------------------------------
(* The carrier is told to clear                                            *)

LEMMA ClearSound ==
    ASSUME SoundInv, PlayType, PlayType', LoopType, ClearPlayback \/ ClearFails
    PROVE  SoundInv'
  <1>1. CASE ClearPlayback
    <2>1. /\ pump = "clear" /\ pump' = "run" /\ line' = <<>> /\ cut' = pause.upto
          /\ UNCHANGED <<generated, engine, promise, outbound, sender, pause, socket, loop>>
      BY <1>1 DEF ClearPlayback, providerVars, engineVars
    <2>2. Later(pause.upto) /\ sender.buffer = <<>> /\ ~pause.active
      BY <2>1 DEF SoundInv, PauseInv
    <2>3. \A f : Above(<<>>, f)
      BY DEF Above
    <2>4. QueueInv' /\ PauseInv' /\ CutInv' /\ CloseInv'
      BY <2>1, <2>2, <2>3
         DEF SoundInv, QueueInv, PauseInv, CutInv, CloseInv, Barrier, Later, Above
    <2>5. MarkInv'
      BY <2>1 DEF MarkInv
    <2>6. DrainInv'
      <3>1. {f \in ToSet(line') : f <= promise.upto} = {}
        BY <2>1 DEF ToSet
      <3>2. Cardinality({f \in ToSet(line') : f <= promise.upto}) <= MarkEvery
        BY <3>1, FS_EmptySet, Numbers
      <3> QED BY <2>1, <3>2 DEF SoundInv, DrainInv, Above
    <2> QED BY <2>4, <2>5, <2>6 DEF SoundInv
  <1>2. CASE ClearFails
    <2>1. /\ pump' = "dead" /\ sender' = [sender EXCEPT !.alive = FALSE]
          /\ loop' = [loop EXCEPT !.closing_requested = TRUE]
          /\ UNCHANGED <<generated, engine, promise, outbound, pending, pause, cut, line, socket>>
      BY <1>2 DEF ClearFails, providerVars, engineVars, carrierVars
    <2>2. SenderKept
      BY <2>1 DEF SenderKept, PlayType, Sender
    <2>3. FlagsKept
      BY <2>1 DEF FlagsKept, LoopType, Loop
    <2> QED BY <2>1, <2>2, <2>3, QuietSound
  <1> QED BY <1>1, <1>2

----------------------------------------------------------------------------
(* The sender plays                                                        *)

\* What a sequence holds, and how much of it.
LEMMA Members ==
    ASSUME NEW S, NEW q \in Seq(S)
    PROVE  /\ \A m : m \in ToSet(q) <=> \E i \in 1..Len(q) : m = q[i]
           /\ IsFiniteSet(ToSet(q)) /\ Cardinality(ToSet(q)) <= Len(q)
  <1>1. Len(q) \in Nat /\ DOMAIN q = 1..Len(q) /\ q \in [1..Len(q) -> S]
    BY LenProperties
  <1>2. \A m : m \in ToSet(q) <=> \E i \in 1..Len(q) : m = q[i]
    BY <1>1 DEF ToSet
  <1>3. q \in Surjection(1..Len(q), ToSet(q))
    BY <1>1, <1>2 DEF Surjection
  <1>4. IsFiniteSet(1..Len(q)) /\ Cardinality(1..Len(q)) = Len(q)
    BY <1>1, FS_Interval, SMTT(30)
  <1>5. IsFiniteSet(ToSet(q)) /\ Cardinality(ToSet(q)) <= Cardinality(1..Len(q))
    BY <1>3, <1>4, FS_Surjection
  <1> QED BY <1>2, <1>4, <1>5

\* The carrier holds no more than it did of what came before u.
LEMMA NoMoreHeld ==
    ASSUME line \in Seq(Frame), NEW u, NEW q,
           \A f \in ToSet(q) : f <= u => f \in ToSet(line),
           Cardinality({f \in ToSet(line) : f <= u}) <= MarkEvery
    PROVE  Cardinality({f \in ToSet(q) : f <= u}) <= MarkEvery
  <1> DEFINE held == {f \in ToSet(line) : f <= u}
             now == {f \in ToSet(q) : f <= u}
  <1>1. now \subseteq held
    OBVIOUS
  <1>2. IsFiniteSet(held)
    <2>1. IsFiniteSet(ToSet(line)) /\ held \in SUBSET ToSet(line)
      BY Members
    <2> QED BY <2>1, FS_Subset
  <1> HIDE DEF held, now
  <1>3. Cardinality(now) <= Cardinality(held) /\ IsFiniteSet(now)
    BY <1>1, <1>2, FS_Subset
  <1>4. Cardinality(now) \in Nat /\ Cardinality(held) \in Nat
    BY <1>2, <1>3, FS_CardinalityType
  <1>5. Cardinality(held) <= MarkEvery
    BY DEF held
  <1>6. Cardinality(now) <= MarkEvery
    BY <1>3, <1>4, <1>5, Numbers
  <1> QED BY <1>6 DEF now

LEMMA SendSound ==
    ASSUME SoundInv, PlayType, PlayType', LoopType, SendFrame
    PROVE  SoundInv'
  <1> DEFINE f == Head(sender.buffer)
             rest == [sender EXCEPT !.buffer = Tail(sender.buffer)]
  <1>1. /\ sender \in Sender /\ sender.buffer \in Seq(Frame) /\ sender.buffer # <<>>
        /\ sender.sending = 0 /\ sender.since_mark \in Nat /\ line \in Seq(Frame)
    BY Numbers DEF SendFrame, PlayType, Sender
  <1>2. /\ f \in Frame /\ f = sender.buffer[1] /\ 1 \in 1..Len(sender.buffer)
        /\ Tail(sender.buffer) \in Seq(Frame)
        /\ Len(Tail(sender.buffer)) = Len(sender.buffer) - 1 /\ Len(sender.buffer) \in Nat
        /\ \A i \in 1..Len(sender.buffer) - 1 : Tail(sender.buffer)[i] = sender.buffer[i + 1]
    BY <1>1, Queues
  <1>3. f \in Nat /\ f # 0
    BY <1>2, Numbers DEF Frame
  <1>4. \A u : Above(sender.buffer, u) => u < f /\ Above(Tail(sender.buffer), u)
    BY <1>2 DEF Above
  <1>5. rest.buffer = Tail(sender.buffer) /\ rest.since_mark = sender.since_mark /\ rest.sending = 0
        /\ rest \in Sender
    BY <1>1, <1>2 DEF Sender
  <1>6. /\ UNCHANGED <<generated, promise, engine, outbound, pump, pending, pause, cut, socket>>
        /\ pump # "clear"
    BY <1>1 DEF SendFrame, providerVars, engineVars, SoundInv, PauseInv
  <1>7. \/ /\ sender' = [rest EXCEPT !.sending = f]
           /\ line' = (IF socket = "open" THEN Append(line, f) ELSE <<>>)
           /\ UNCHANGED loop
        \/ /\ socket = "over" /\ sender' = [rest EXCEPT !.alive = FALSE]
           /\ loop' = [loop EXCEPT !.closing_requested = TRUE] /\ UNCHANGED line
    BY DEF SendFrame
  <1> HIDE DEF f, rest
  <1>8. /\ sender'.buffer = Tail(sender.buffer) /\ sender'.since_mark = sender.since_mark
        /\ loop'.close_after_playback = loop.close_after_playback /\ loop'.drained = loop.drained
        /\ socket = "open" => sender'.sending = f
    BY <1>5, <1>7 DEF Sender, LoopType, Loop
  <1>9. socket = "open" =>
            /\ line' \in Seq(Frame) /\ Len(line') = Len(line) + 1
            /\ \A i \in 1..Len(line) : line'[i] = line[i]
            /\ line'[Len(line) + 1] = f
    BY <1>1, <1>2, <1>7, Queues
  <1>10. Len(line) \in Nat
    BY <1>1, Queues
  <1>11. QueueInv' /\ PauseInv' /\ CloseInv'
    BY <1>6, <1>8 DEF SoundInv, QueueInv, PauseInv, CloseInv, Barrier, Later
  <1>12. CutInv'
    <2>1. Above(line', cut)
      <3>1. cut < f /\ Above(line, cut)
        BY <1>4 DEF SoundInv, CutInv
      <3>2. CASE socket = "open"
        BY <1>9, <1>10, <3>1, <3>2 DEF Above
      <3>3. CASE socket # "open"
        BY <1>7, <3>1, <3>3 DEF Above
      <3> QED BY <3>2, <3>3
    <2> QED BY <1>4, <1>6, <1>8, <2>1 DEF SoundInv, CutInv, Later, Above
  <1>13. MarkInv'
    <2> SUFFICES ASSUME socket = "open" PROVE MarkInv'
      BY <1>6 DEF MarkInv
    <2>1. Unmarked = sender.since_mark /\ Unmarked' = sender.since_mark + 1
      BY <1>1, <1>3, <1>8 DEF Unmarked
    <2>2. ASSUME NEW k \in 1..Len(line'), k + (sender.since_mark + 1) <= Len(line')
          PROVE  \E l \in k..Len(line') : line'[l] \in pending
      <3>1. k \in 1..Len(line) /\ k + sender.since_mark <= Len(line)
        BY <1>1, <1>9, <1>10, <2>2
      <3>2. PICK l \in k..Len(line) : line[l] \in pending
        BY <2>1, <3>1 DEF SoundInv, MarkInv
      <3> QED BY <1>9, <1>10, <3>1, <3>2
    <2>3. line'[Len(line')] = sender'.sending
      BY <1>8, <1>9
    <2> QED BY <1>6, <2>1, <2>2, <2>3 DEF MarkInv
  <1>14. DrainInv'
    <2> SUFFICES ASSUME socket = "open", loop.drained = "finished" PROVE DrainInv'
      BY <1>6, <1>8 DEF SoundInv, DrainInv
    <2>1. /\ promise.upto < f /\ Above(Tail(sender.buffer), promise.upto)
          /\ Cardinality({g \in ToSet(line) : g <= promise.upto}) <= MarkEvery
      BY <1>4 DEF SoundInv, DrainInv
    <2>2. \A g \in ToSet(line') : g <= promise.upto => g \in ToSet(line)
      <3>1. \A g : g \in ToSet(line) <=> \E i \in 1..Len(line) : g = line[i]
        BY <1>1, Members
      <3>2. \A g : g \in ToSet(line') <=> \E i \in 1..Len(line') : g = line'[i]
        BY <1>9, Members
      <3>3. promise.upto \in Nat
        BY Numbers DEF PlayType, Promise
      <3>4. ASSUME NEW i \in 1..Len(line'), line'[i] <= promise.upto
            PROVE  i \in 1..Len(line) /\ line'[i] = line[i]
        BY <1>3, <1>9, <1>10, <2>1, <3>3, <3>4
      <3> QED BY <3>1, <3>2, <3>4
    <2>3. Cardinality({g \in ToSet(line') : g <= promise.upto}) <= MarkEvery
      BY <1>1, <2>1, <2>2, NoMoreHeld
    <2> QED BY <1>6, <1>8, <2>1, <2>3 DEF SoundInv, DrainInv, Above
  <1> QED BY <1>11, <1>12, <1>13, <1>14 DEF SoundInv

LEMMA MarkSound ==
    ASSUME SoundInv, PlayType, PlayType', FrameSent
    PROVE  SoundInv'
  <1> DEFINE mark == sender.since_mark + 1 = MarkEvery
             count == IF mark THEN 0 ELSE sender.since_mark + 1
  <1>1. sender \in Sender /\ sender.sending # 0 /\ sender.since_mark \in Nat /\ line \in Seq(Frame)
    BY Numbers DEF FrameSent, PlayType, Sender
  <1>2. /\ sender' = [sender EXCEPT !.sending = 0, !.since_mark = count]
        /\ socket = "open" => pending' = IF mark THEN pending \cup {sender.sending} ELSE pending
        /\ UNCHANGED <<generated, promise, engine, outbound, pump, pause, cut, line, socket, loop>>
    BY DEF FrameSent, providerVars, engineVars, carrierVars
  <1> HIDE DEF count
  <1>3. sender'.buffer = sender.buffer /\ sender'.sending = 0 /\ sender'.since_mark = count
    BY <1>1, <1>2 DEF Sender
  <1>4. QueueInv' /\ PauseInv' /\ CutInv' /\ CloseInv' /\ DrainInv'
    BY <1>2, <1>3
       DEF SoundInv, QueueInv, PauseInv, CutInv, CloseInv, DrainInv, Barrier, Later, Above
  <1>5. MarkInv'
    <2> SUFFICES ASSUME socket = "open" PROVE MarkInv'
      BY <1>2 DEF MarkInv
    <2>1. Len(line) \in Nat
      BY <1>1, Queues
    <2>2. Unmarked = sender.since_mark + 1 /\ Unmarked' = count
      <3>1. count \in Nat
        BY <1>1 DEF count
      <3> QED BY <1>1, <1>3, <3>1 DEF Unmarked
    <2>3. CASE mark
      <3>1. count = 0 /\ pending' = pending \cup {sender.sending}
        BY <1>2, <2>3 DEF count
      <3>2. \A k \in 1..Len(line) : Len(line) \in k..Len(line) /\ line[Len(line)] \in pending'
        <4>1. Len(line) >= 1 => line[Len(line)] = sender.sending
          BY <1>1, <2>1, Queues DEF SoundInv, MarkInv
        <4> QED BY <2>1, <3>1, <4>1
      <3> QED BY <1>2, <1>3, <3>2 DEF MarkInv
    <2>4. CASE ~mark
      BY <1>2, <1>3, <2>2, <2>4 DEF SoundInv, MarkInv, count
    <2> QED BY <2>3, <2>4
  <1> QED BY <1>4, <1>5 DEF SoundInv

----------------------------------------------------------------------------
(* The carrier plays, echoes a mark, or is left                            *)

LEMMA CarrierSound ==
    ASSUME SoundInv, PlayType, PlayType', CarrierPlays \/ MarkEchoed \/ CallerLeaves
    PROVE  SoundInv'
  <1> USE DEF providerVars, engineVars, playVars, carrierVars
  <1>1. UNCHANGED <<generated, promise, engine, outbound, pump, sender, pause, cut, loop>>
    BY DEF CarrierPlays, MarkEchoed, CallerLeaves
  <1>2. QueueInv' /\ PauseInv' /\ CloseInv'
    BY <1>1 DEF SoundInv, QueueInv, PauseInv, CloseInv, Barrier, Later
  <1>3. line \in Seq(Frame) /\ Len(line) \in Nat
    BY Queues DEF PlayType
  <1>4. Unmarked' = Unmarked
    BY <1>1 DEF Unmarked
  <1>5. Unmarked \in Nat
    BY Numbers, SMTT(30) DEF Unmarked, PlayType, Sender
  <1>6. CASE CarrierPlays
    <2>1. line # <<>> /\ line' = Tail(line) /\ UNCHANGED <<socket, pending>> /\ socket = "open"
      BY <1>6 DEF CarrierPlays
    <2>2. /\ line' \in Seq(Frame) /\ Len(line') = Len(line) - 1
          /\ \A i \in 1..Len(line') : line'[i] = line[i + 1]
      BY <1>3, <2>1, Queues
    <2>3. CutInv'
      BY <1>1, <1>3, <2>2 DEF SoundInv, CutInv, Later, Above
    <2>4. ASSUME NEW k \in 1..Len(line'), k + Unmarked <= Len(line')
          PROVE  \E l \in k..Len(line') : line'[l] \in pending
      <3>1. k + 1 \in 1..Len(line) /\ (k + 1) + Unmarked <= Len(line)
        BY <1>3, <1>5, <2>2, <2>4
      <3>2. PICK l \in k + 1..Len(line) : line[l] \in pending
        BY <2>1, <3>1 DEF SoundInv, MarkInv
      <3>3. l - 1 \in k..Len(line') /\ line'[l - 1] = line[l]
        BY <1>3, <2>2, <3>2
      <3> QED BY <3>2, <3>3
    <2>5. ASSUME sender.sending # 0, line' # <<>> PROVE line'[Len(line')] = sender.sending
      <3>1. Len(line') \in 1..Len(line') /\ Len(line') + 1 = Len(line)
        BY <1>3, <2>2, <2>5, Queues
      <3> QED BY <2>1, <2>2, <2>5, <3>1 DEF SoundInv, MarkInv
    <2>6. MarkInv'
      BY <1>1, <1>4, <2>1, <2>4, <2>5 DEF MarkInv
    <2>7. DrainInv'
      <3>1. \A f \in ToSet(line') : f <= promise.upto => f \in ToSet(line)
        <4>1. \A g : g \in ToSet(line) <=> \E i \in 1..Len(line) : g = line[i]
          BY <1>3, Members
        <4>2. \A g : g \in ToSet(line') <=> \E i \in 1..Len(line') : g = line'[i]
          BY <2>2, Members
        <4>3. \A i \in 1..Len(line') : i + 1 \in 1..Len(line) /\ line'[i] = line[i + 1]
          BY <1>3, <2>2
        <4> QED BY <4>1, <4>2, <4>3
      <3>2. Cardinality({f \in ToSet(line) : f <= promise.upto}) <= MarkEvery =>
                Cardinality({f \in ToSet(line') : f <= promise.upto}) <= MarkEvery
        BY <1>3, <3>1, NoMoreHeld
      <3> QED BY <1>1, <2>1, <3>2 DEF SoundInv, DrainInv, Above
    <2> QED BY <1>2, <2>3, <2>6, <2>7 DEF SoundInv
  <1>7. CASE MarkEchoed
    <2>1. PICK f \in pending : f \notin ToSet(line) /\ pending' = pending \ {f}
      BY <1>7 DEF MarkEchoed
    <2>2. UNCHANGED <<line, socket>>
      BY <1>7 DEF MarkEchoed
    <2>3. \A i \in 1..Len(line) : line[i] # f
      BY <1>3, <2>1, Members
    <2>4. MarkInv'
      <3> SUFFICES ASSUME socket = "open" PROVE MarkInv'
        BY <2>2 DEF MarkInv
      <3>1. ASSUME NEW k \in 1..Len(line), k + Unmarked <= Len(line)
            PROVE  \E l \in k..Len(line) : line[l] \in pending'
        <4>1. PICK l \in k..Len(line) : line[l] \in pending
          BY <3>1 DEF SoundInv, MarkInv
        <4>2. l \in 1..Len(line)
          BY <1>3, <4>1
        <4> QED BY <2>1, <2>3, <4>1, <4>2
      <3> QED BY <1>1, <1>4, <2>2, <3>1 DEF SoundInv, MarkInv
    <2>5. CutInv' /\ DrainInv'
      BY <1>1, <2>2 DEF SoundInv, CutInv, DrainInv, Later, Above
    <2> QED BY <1>2, <2>4, <2>5 DEF SoundInv
  <1>8. CASE CallerLeaves
    <2>1. socket' = "over" /\ line' = <<>>
      BY <1>8 DEF CallerLeaves
    <2>2. CutInv' /\ MarkInv' /\ DrainInv'
      BY <1>1, <2>1 DEF SoundInv, CutInv, MarkInv, DrainInv, Later, Above
    <2> QED BY <1>2, <2>2 DEF SoundInv
  <1> QED BY <1>6, <1>7, <1>8

----------------------------------------------------------------------------
(* A frame of the caller's, and the barge-in it may decide                 *)

\* The interruption is put before everything: what it names came before all the
\* audio that is left, and so did the promise if a close signal goes with it.
LEMMA DiscardSound ==
    ASSUME SoundInv, PlayType, PlayType', FlagsKept, SenderKept,
           pause.active, pause' = NoPause, NEW n \in 0..Len(outbound), DiscardAndClear(n),
           UNCHANGED <<generated, cut, promise, pump, pending, line, socket>>
    PROVE  SoundInv'
  <1>1. outbound \in Seq(Message) /\ pause.upto \in 0..MaxAudio
    BY DEF PlayType, PauseState
  <1>2. PICK k \in Nat :
          /\ Len(outbound') = 1 + k + Len(outbound) - n
          /\ outbound'[1] = Interrupt(pause.upto)
          /\ \A i \in 2..1 + k : outbound'[i] = Control
          /\ \A i \in 2 + k..Len(outbound') :
                i - 1 - k + n \in n + 1..Len(outbound) /\ outbound'[i] = outbound[i - 1 - k + n]
          /\ k > 0 => \E j \in 1..n : outbound[j].type = "control"
    BY <1>1, DiscardLeaves
  <1>3. /\ Len(outbound) \in Nat /\ n \in Nat /\ Len(outbound') \in Nat
        /\ generated \in Nat /\ pause.upto \in Nat /\ cut \in Nat /\ promise.upto \in Nat
    BY <1>1, Queues, Numbers DEF PlayType, PauseState, Promise
  <1>4. pause'.upto = 0 /\ ~pause'.active
    BY DEF NoPause
  <1>5. pump # "clear" /\ Later(pause.upto)
    BY DEF SoundInv, PauseInv
  <1>6. ASSUME NEW j \in 1..Len(outbound'), IsAudio(outbound'[j])
        PROVE  /\ j \in 2 + k..Len(outbound') /\ outbound'[j] = outbound[j - 1 - k + n]
               /\ j - 1 - k + n \in n + 1..Len(outbound)
               /\ j - 1 - k + n \in 1..Len(outbound)
    <2>1. j # 1
      BY <1>2, <1>6 DEF Interrupt, IsAudio
    <2>2. j \notin 2..1 + k
      BY <1>2, <1>6 DEF Control, IsAudio
    <2>3. j \in 2 + k..Len(outbound')
      BY <1>2, <1>3, <2>1, <2>2
    <2>4. \A i \in n + 1..Len(outbound) : i \in 1..Len(outbound)
      BY <1>3
    <2>5. j - 1 - k + n \in n + 1..Len(outbound) /\ outbound'[j] = outbound[j - 1 - k + n]
      BY <1>2, <2>3
    <2> QED BY <2>3, <2>4, <2>5
  <1>7. ASSUME NEW f \in Nat, Later(f)
        PROVE  \A j \in 1..Len(outbound') : IsAudio(outbound'[j]) => f < outbound'[j].frame
    <2> SUFFICES ASSUME NEW j \in 1..Len(outbound'), IsAudio(outbound'[j])
                 PROVE  f < outbound'[j].frame
      OBVIOUS
    <2>1. /\ j - 1 - k + n \in 1..Len(outbound)
          /\ outbound'[j] = outbound[j - 1 - k + n]
          /\ IsAudio(outbound[j - 1 - k + n])
      BY <1>6
    <2> QED BY <1>7, <2>1 DEF Later
  <1>8. k > 0 => \A j \in 1..Len(outbound') :
                    IsAudio(outbound'[j]) => promise.upto < outbound'[j].frame
    <2> SUFFICES ASSUME k > 0, NEW j \in 1..Len(outbound'), IsAudio(outbound'[j])
                 PROVE  promise.upto < outbound'[j].frame
      OBVIOUS
    <2>1. PICK c \in 1..n : outbound[c].type = "control"
      BY <1>2
    <2>2. /\ c \in 1..Len(outbound) /\ j - 1 - k + n \in 1..Len(outbound)
          /\ c < j - 1 - k + n /\ outbound'[j] = outbound[j - 1 - k + n]
      BY <1>3, <1>6
    <2> QED BY <2>1, <2>2 DEF SoundInv, QueueInv, Barrier
  <1>9. QueueInv'
    <2>1. ASSUME NEW i \in 1..Len(outbound'), NEW j \in 1..Len(outbound'),
                 i < j, IsAudio(outbound'[j])
          PROVE  Barrier(outbound'[i]) < outbound'[j].frame
      <3>1. CASE i = 1
        BY <1>2, <1>3, <1>5, <1>7, <2>1, <3>1 DEF Barrier, Interrupt
      <3>2. CASE i \in 2..1 + k
        <4>1. k > 0 /\ outbound'[i] = Control
          BY <1>2, <3>2
        <4> QED BY <1>8, <2>1, <4>1 DEF Barrier, Control
      <3>3. CASE i \in 2 + k..Len(outbound')
        <4>1. /\ outbound'[i] = outbound[i - 1 - k + n] /\ outbound'[j] = outbound[j - 1 - k + n]
              /\ i - 1 - k + n \in 1..Len(outbound) /\ j - 1 - k + n \in 1..Len(outbound)
              /\ i - 1 - k + n < j - 1 - k + n
          BY <1>2, <1>3, <1>6, <2>1, <3>3
        <4> QED BY <2>1, <4>1 DEF SoundInv, QueueInv
      <3> QED BY <1>2, <1>3, <3>1, <3>2, <3>3
    <2>2. ASSUME NEW i \in 1..Len(outbound') PROVE outbound'[i].frame <= generated
      <3>1. CASE i = 1
        BY <1>2, <3>1 DEF Interrupt, SoundInv, QueueInv
      <3>2. CASE i \in 2..1 + k
        BY <1>2, <1>3, <3>2 DEF Control
      <3>3. CASE i \in 2 + k..Len(outbound')
        <4>1. i - 1 - k + n \in 1..Len(outbound) /\ outbound'[i] = outbound[i - 1 - k + n]
          BY <1>2, <1>3, <3>3, SMTT(30)
        <4> QED BY <4>1 DEF SoundInv, QueueInv
      <3> QED BY <1>2, <1>3, <3>1, <3>2, <3>3
    <2> QED BY <1>3, <1>4, <2>1, <2>2 DEF SoundInv, QueueInv, Barrier
  <1>10. PauseInv'
    BY <1>4, <1>5 DEF PauseInv
  <1>11. CutInv'
    BY <1>3, <1>7 DEF SoundInv, CutInv, Later, Above, SenderKept
  <1>12. CloseInv'
    <2>1. ASSUME NEW i \in 1..Len(outbound'), outbound'[i].type = "control"
          PROVE  promise.by # "nobody"
      <3>1. i # 1
        BY <1>2, <2>1 DEF Interrupt
      <3>2. CASE i \in 2..1 + k
        <4>1. PICK c \in 1..n : outbound[c].type = "control"
          BY <1>2, <3>2
        <4>2. c \in 1..Len(outbound)
          BY <1>3
        <4> QED BY <4>1, <4>2 DEF SoundInv, CloseInv
      <3>3. CASE i \in 2 + k..Len(outbound')
        <4>1. i - 1 - k + n \in 1..Len(outbound) /\ outbound'[i] = outbound[i - 1 - k + n]
          BY <1>2, <1>3, <3>3, SMTT(30)
        <4> QED BY <2>1, <4>1 DEF SoundInv, CloseInv
      <3> QED BY <1>2, <1>3, <3>1, <3>2, <3>3
    <2> QED BY <1>3, <1>7, <2>1 DEF SoundInv, CloseInv, Later, FlagsKept
  <1>13. MarkInv' /\ DrainInv'
    BY DEF SoundInv, MarkInv, DrainInv, Unmarked, Above, SenderKept, FlagsKept
  <1> QED BY <1>9, <1>10, <1>11, <1>12, <1>13 DEF SoundInv

LEMMA BargeInSound ==
    ASSUME SoundInv, PlayType, PlayType', FlagsKept, BargeIn,
           UNCHANGED <<generated, cut, promise, pump, pending, line, socket>>
    PROVE  SoundInv'
  <1>1. SenderKept
    BY DEF BargeIn, SenderKept, PlayType, Sender
  <1>2. CASE UNCHANGED <<outbound, sender, pause>>
    BY <1>1, <1>2, QuietSound
  <1>3. CASE pause.active /\ pause' = NoPause /\ \E n \in 0..Len(outbound) : DiscardAndClear(n)
    BY <1>1, <1>3, DiscardSound
  <1>4. CASE pause.active /\ pause' = NoPause /\ UNCHANGED outbound
    <2>1. pause'.upto = 0 /\ ~pause'.active /\ pump # "clear"
      BY <1>4 DEF NoPause, SoundInv, PauseInv
    <2>2. generated \in Nat
      BY Numbers DEF PlayType
    <2>3. QueueInv' /\ PauseInv' /\ CutInv'
      BY <1>1, <1>4, <2>1, <2>2
         DEF SoundInv, QueueInv, PauseInv, CutInv, Barrier, Later, Above, SenderKept
    <2>4. CloseInv' /\ MarkInv' /\ DrainInv'
      BY <1>1, <1>4
         DEF SoundInv, CloseInv, MarkInv, DrainInv, Later, Above, Unmarked, SenderKept, FlagsKept
    <2> QED BY <2>3, <2>4 DEF SoundInv
  <1> QED BY <1>2, <1>3, <1>4 DEF BargeIn

----------------------------------------------------------------------------
(* The receive loop                                                        *)

\* Where the loop goes does not matter, but for a drain that comes to its end.
LEMMA LoopFlags ==
    ASSUME LoopType
    PROVE  /\ \A pc : Goto(pc) => /\ loop'.close_after_playback = loop.close_after_playback
                                  /\ loop'.drained = loop.drained
           /\ \A status : EndStream(status) =>
                 /\ loop'.close_after_playback = loop.close_after_playback
                 /\ loop'.drained = loop.drained
           /\ \A accepted : Decide(accepted) =>
                 /\ loop'.close_after_playback = loop.close_after_playback
                 /\ loop'.drained = loop.drained
           /\ \A how : Drained(how) => /\ loop'.close_after_playback = loop.close_after_playback
                                       /\ loop'.drained = how
  <1>1. /\ \A pc : Goto(pc) => /\ loop'.close_after_playback = loop.close_after_playback
                               /\ loop'.drained = loop.drained
        /\ \A status : EndStream(status) =>
              /\ loop'.close_after_playback = loop.close_after_playback
              /\ loop'.drained = loop.drained
        /\ \A how : Drained(how) => /\ loop'.close_after_playback = loop.close_after_playback
                                    /\ loop'.drained = how
    BY DEF LoopType, Loop, Goto, EndStream, Drained
  <1>2. ASSUME NEW accepted, Decide(accepted)
        PROVE  /\ loop'.close_after_playback = loop.close_after_playback
               /\ loop'.drained = loop.drained
    <2>1. CASE accepted /\ ~loop.close_after_playback
      BY <1>1, <1>2, <2>1 DEF Decide
    <2>2. CASE ~(accepted /\ ~loop.close_after_playback)
      BY <1>2, <2>2 DEF Decide, LoopType, Loop
    <2> QED BY <2>1, <2>2
  <1> QED BY <1>1, <1>2

\* Nothing is playing: what the carrier still holds has no mark, and is no more
\* than is sent between two marks.
LEMMA DrainSound ==
    ASSUME SoundInv, PlayType, PlayType', LoopType, DrainFinishes
    PROVE  SoundInv'
  <1>1. /\ pending = {} /\ sender.buffer = <<>> /\ line \in Seq(Frame) /\ sender \in Sender
        /\ UNCHANGED <<generated, engine, outbound, pump, sender, pending, pause, cut, promise,
                       line, socket>>
        /\ loop'.close_after_playback = loop.close_after_playback
        /\ loop'.drained = "finished" => loop.close_after_playback
    BY LoopFlags DEF DrainFinishes, Playing, PlayType, providerVars, engineVars, playVars, carrierVars
  <1>2. QueueInv' /\ PauseInv' /\ CutInv' /\ CloseInv' /\ MarkInv'
    BY <1>1 DEF SoundInv, QueueInv, PauseInv, CutInv, CloseInv, MarkInv, Barrier, Later, Above,
       Unmarked
  <1>3. socket = "open" => Len(line) <= MarkEvery
    <2> SUFFICES ASSUME socket = "open" PROVE Len(line) <= MarkEvery
      OBVIOUS
    <2>1. Len(line) \in Nat
      BY <1>1, Queues
    <2>2. Unmarked \in Nat /\ Unmarked <= MarkEvery
      BY <1>1, Numbers DEF Unmarked, Sender
    <2>3. ~(Len(line) > Unmarked)
      <3> SUFFICES ASSUME Len(line) > Unmarked PROVE FALSE
        OBVIOUS
      <3>1. Len(line) - Unmarked \in 1..Len(line) /\ (Len(line) - Unmarked) + Unmarked <= Len(line)
        BY <2>1, <2>2
      <3> QED BY <1>1, <3>1 DEF SoundInv, MarkInv
    <2> QED BY <2>1, <2>2, <2>3, Numbers
  <1>4. socket = "open" => Cardinality({f \in ToSet(line) : f <= promise.upto}) <= MarkEvery
    <2> SUFFICES ASSUME socket = "open"
                 PROVE  Cardinality({f \in ToSet(line) : f <= promise.upto}) <= MarkEvery
      OBVIOUS
    <2> DEFINE old == {f \in ToSet(line) : f <= promise.upto}
    <2>1. IsFiniteSet(ToSet(line)) /\ Cardinality(ToSet(line)) <= Len(line) /\ Len(line) \in Nat
      BY <1>1, Members, Queues
    <2>2. old \in SUBSET ToSet(line)
      OBVIOUS
    <2> HIDE DEF old
    <2>3. IsFiniteSet(old) /\ Cardinality(old) <= Cardinality(ToSet(line))
      BY <2>1, <2>2, FS_Subset
    <2>4. Cardinality(old) \in Nat /\ Cardinality(ToSet(line)) \in Nat
      BY <2>1, <2>3, FS_CardinalityType
    <2>5. Cardinality(old) <= MarkEvery
      BY <1>3, <2>1, <2>3, <2>4, Numbers
    <2> QED BY <2>5 DEF old
  <1>5. DrainInv'
    BY <1>1, <1>4 DEF DrainInv, Above
  <1> QED BY <1>2, <1>5 DEF SoundInv

LEMMA LoopSound ==
    ASSUME SoundInv, PlayType, PlayType', LoopType, LoopStep
    PROVE  SoundInv'
  <1> USE DEF providerVars, playVars, carrierVars
  <1>1. CASE ReceiveFrame \/ Injected
    <2>1. /\ BargeIn /\ \E pc : Goto(pc)
          /\ UNCHANGED <<generated, cut, promise, pump, pending, line, socket>>
      BY <1>1 DEF ReceiveFrame, Injected, HandleFrame, engineVars
    <2>2. engine.closing_requested => engine'.closing_requested
      BY <1>1 DEF ReceiveFrame, Injected, Armed, engineVars, PlayType, Engine
    <2>3. FlagsKept
      BY <2>1, <2>2, LoopFlags DEF FlagsKept
    <2> QED BY <2>1, <2>3, BargeInSound
  <1>2. CASE StartEngine \/ SendAudio \/ SocketEnds \/ AwaitCloseSignal
    <2>1. UNCHANGED <<outbound, generated, engine, pump, sender, pause, cut, promise, pending,
                      line, socket>>
      BY <1>2 DEF StartEngine, SendAudio, SocketEnds, AwaitCloseSignal, engineVars
    <2>2. /\ loop'.close_after_playback = loop.close_after_playback
          /\ loop'.drained = loop.drained
      BY <1>2, LoopFlags DEF StartEngine, SendAudio, SocketEnds, AwaitCloseSignal
    <2> QED BY <2>1, <2>2, QuietSound DEF FlagsKept, SenderKept
  <1>3. CASE AudioSent
    <2>1. UNCHANGED <<generated, pump, sender, pause, cut, pending, line, socket>>
      BY <1>3 DEF AudioSent
    <2>2. UNCHANGED <<engine, promise, outbound>> \/ Finish("provider", <<>>)
      BY <1>3 DEF AudioSent, engineVars
    <2>3. /\ loop'.close_after_playback = loop.close_after_playback
          /\ loop'.drained = loop.drained
      BY <1>3, LoopFlags DEF AudioSent
    <2>4. CASE UNCHANGED <<engine, promise, outbound>>
      BY <2>1, <2>3, <2>4, QuietSound DEF FlagsKept, SenderKept
    <2>5. CASE Finish("provider", <<>>)
      BY <2>1, <2>3, <2>5, FinishSound
    <2> QED BY <2>2, <2>4, <2>5
  <1>4. CASE DrainFinishes
    BY <1>4, DrainSound
  <1>5. CASE DrainGivesUp
    <2>1. UNCHANGED <<outbound, generated, engine, pump, sender, pause, cut, promise, pending,
                      line, socket>>
      BY <1>5 DEF DrainGivesUp, engineVars
    <2>2. /\ loop'.close_after_playback = loop.close_after_playback
          /\ loop'.drained # "finished"
      BY <1>5, LoopFlags DEF DrainGivesUp
    <2> QED BY <2>1, <2>2, QuietSound DEF FlagsKept, SenderKept
  <1>6. CASE CallerGone
    <2>1. /\ socket # "open"
          /\ UNCHANGED <<outbound, generated, engine, pump, pause, cut, promise, line, socket>>
      BY <1>6 DEF CallerGone, engineVars
    <2>2. sender'.buffer = <<>>
      BY <1>6 DEF CallerGone, PlayType, Sender
    <2>3. /\ loop'.close_after_playback = loop.close_after_playback
          /\ loop'.drained # "finished"
      BY <1>6, LoopFlags DEF CallerGone
    <2>4. QueueInv' /\ PauseInv' /\ CutInv' /\ CloseInv' /\ MarkInv' /\ DrainInv'
      BY <2>1, <2>2, <2>3 DEF SoundInv, QueueInv, PauseInv, CutInv, CloseInv, MarkInv, DrainInv,
         Barrier, Later, Above
    <2> QED BY <2>4 DEF SoundInv
  <1>7. CASE HangUp
    <2>1. UNCHANGED <<outbound, generated, engine, pump, sender, pause, cut, promise, pending,
                      line, socket>>
      BY <1>7 DEF HangUp, engineVars
    <2>2. /\ loop'.close_after_playback = loop.close_after_playback
          /\ loop'.drained = loop.drained
      BY <1>7 DEF HangUp, LoopType, Loop
    <2> QED BY <2>1, <2>2, QuietSound DEF FlagsKept, SenderKept
  <1>8. CASE Finally
    <2>1. /\ pump' = "dead"
          /\ UNCHANGED <<outbound, generated, pause, cut, promise, pending, line, socket>>
      BY <1>8 DEF Finally
    <2>2. SenderKept /\ engine'.closing_requested
      BY <1>8 DEF Finally, SenderKept, PlayType, Sender, Engine
    <2>3. FlagsKept
      BY <1>8, <2>2, LoopFlags DEF Finally, FlagsKept
    <2> QED BY <2>1, <2>2, <2>3, QuietSound
  <1> QED BY <1>1, <1>2, <1>3, <1>4, <1>5, <1>6, <1>7, <1>8 DEF LoopStep

----------------------------------------------------------------------------
(* The theorems                                                            *)

StreamInv == PlayType /\ ReleaseInv /\ SoundInv

LEMMA StreamStarts ==
    ASSUME Init
    PROVE  StreamInv
  <1>1. Greeting \in Seq(Frame) /\ Len(Greeting) \in 0..MaxAudio
        /\ \A i \in 1..Len(Greeting) : Greeting[i] = 1
    <2>1. 1 \in Frame /\ 1 \in 0..MaxAudio /\ 0 \in 0..MaxAudio
      BY Numbers DEF Frame
    <2>2. CASE CachedGreeting
      <3>1. Greeting = <<1>>
        BY <2>2 DEF Greeting
      <3> QED BY <2>1, <3>1
    <2>3. CASE ~CachedGreeting
      <3>1. Greeting = <<>>
        BY <2>3 DEF Greeting
      <3> QED BY <2>1, <3>1
    <2> QED BY <2>2, <2>3
  <1>2. /\ turn = [s \in Session |-> "none"] /\ generated = Len(Greeting) /\ bargeIns = 0
        /\ engine = [closing_requested |-> FALSE, close_after_audio_done |-> FALSE,
                     terminal_closing_spoken |-> FALSE, close_deadline |-> FALSE,
                     stray_deadline |-> FALSE, arming |-> {}]
        /\ outbound = <<>> /\ pump = "run"
        /\ sender = [buffer |-> Greeting, paused |-> FALSE, sending |-> 0,
                     since_mark |-> 0, alive |-> TRUE]
        /\ pending = {} /\ pause = NoPause /\ line = <<>> /\ socket = "open"
        /\ loop = [pc |-> "receive", status |-> "completed", closing_requested |-> FALSE,
                   close_after_playback |-> FALSE, gave_up |-> FALSE, drained |-> "no"]
        /\ hungUp = FALSE /\ cut = 0 /\ promise = [by |-> "nobody", upto |-> 0]
    BY Zenon DEF Init
  <1>3. PlayType
    <2>1. 0 \in 0..MaxAudio /\ 0 \in 0..MaxBargeIns /\ 0 \in 0..(MarkEvery - 1)
      BY Numbers
    <2>2. sender \in Sender /\ pause \in PauseState /\ promise \in Promise /\ engine \in Engine
      BY <1>1, <1>2, <2>1 DEF Sender, PauseState, NoPause, Promise, Engine
    <2>3. outbound \in Seq(Message) /\ line \in Seq(Frame)
      BY <1>2
    <2> QED BY <1>1, <1>2, <2>1, <2>2, <2>3 DEF PlayType
  <1>4. ReleaseInv
    <2>1. "receive" \in PC /\ "completed" \in Status
      BY DEF PC, Status
    <2>2. LoopType
      BY <1>2, <2>1 DEF LoopType, Loop
    <2> QED BY <1>2, <2>2 DEF ReleaseInv, Owed
  <1>5. SoundInv
    <2>1. Len(outbound) = 0 /\ Len(line) = 0
      BY <1>2
    <2>2. QueueInv /\ PauseInv /\ CloseInv
      BY <1>1, <1>2, <2>1 DEF QueueInv, PauseInv, CloseInv, Later, NoPause
    <2>3. CutInv
      BY <1>1, <1>2, <2>1 DEF CutInv, Later, Above
    <2>4. MarkInv /\ DrainInv
      BY <1>2, <2>1 DEF MarkInv, DrainInv
    <2> QED BY <2>2, <2>3, <2>4 DEF SoundInv
  <1> QED BY <1>3, <1>4, <1>5 DEF StreamInv

LEMMA StreamSteps ==
    ASSUME StreamInv, [Next]_vars
    PROVE  StreamInv'
  <1>1. PlayType /\ ReleaseInv /\ SoundInv /\ LoopType /\ CutInv
    BY DEF StreamInv, ReleaseInv, SoundInv
  <1>2. PlayType'
    BY <1>1, NextTypes
  <1>3. ReleaseInv'
    <2>1. CASE UNCHANGED vars
      BY <1>1, <2>1, QuietKeepsRelease DEF vars, carrierVars
    <2> QED
      BY <1>1, <2>1, LoopKeepsRelease, PlaybackKeepsRelease, OthersKeepRelease DEF Next
  <1>4. SoundInv'
    <2>1. CASE UNCHANGED vars
      BY <1>1, <2>1, QuietSound
         DEF vars, providerVars, engineVars, playVars, carrierVars, FlagsKept, SenderKept
    <2>2. CASE \E s \in Session : ListenerStep(s)
      BY <1>1, <1>2, <2>2, ListenerSound
    <2>3. CASE KeepaliveFails \/ CloseAfterGrace \/ GiveUp
      BY <1>1, <1>2, <2>3, TimerSound
    <2>4. CASE PumpStep
      BY <1>1, <1>2, <2>4, TakeSound, ClearSound DEF PumpStep
    <2>5. CASE SenderStep
      BY <1>1, <1>2, <2>5, SendSound, MarkSound DEF SenderStep
    <2>6. CASE LoopStep
      BY <1>1, <1>2, <2>6, LoopSound
    <2>7. CASE CarrierPlays \/ MarkEchoed \/ CallerLeaves
      BY <1>1, <1>2, <2>7, CarrierSound
    <2> QED BY <2>1, <2>2, <2>3, <2>4, <2>5, <2>6, <2>7 DEF Next
  <1> QED BY <1>2, <1>3, <1>4 DEF StreamInv

\* The strengthened invariant, from which the properties follow.
THEOREM StreamIsSound == Spec => []StreamInv
  <1>1. Init => StreamInv
    BY StreamStarts
  <1>2. StreamInv /\ [Next]_vars => StreamInv'
    BY StreamSteps
  <1> QED BY <1>1, <1>2, PTL DEF Spec

\* Every variable of a stream keeps to its type, whatever the queue, the buffer
\* and the carrier hold: no stretch of audio but the agent's reaches the sender.
THEOREM StreamTypes == Spec => []TypeOK
  <1>1. StreamInv => TypeOK
    BY DEF StreamInv, PlayType, ReleaseInv, LoopType, Loop, Engine, Sender, PauseState, Promise, TypeOK
  <1> QED BY <1>1, StreamIsSound, PTL

\* What the queue holds of audio.
LEMMA QueuedFrames ==
    ASSUME outbound \in Seq(Message), NEW u, Later(u)
    PROVE  \A f \in FramesOf(outbound) : u < f
  <1>1. \A m : m \in ToSet(outbound) <=> \E i \in 1..Len(outbound) : m = outbound[i]
    BY Members
  <1> QED BY <1>1 DEF FramesOf, Later, IsAudio

LEMMA BufferedFrames ==
    ASSUME NEW q \in Seq(Frame), NEW u, Above(q, u)
    PROVE  \A f \in ToSet(q) : u < f
  BY Members DEF Above

\* _await_close_signal may trust the queue's order: once the close signal has
\* come through, what was generated before the engine closed has come through,
\* whichever thread closed it and however many barge-ins rebuilt the queue.
THEOREM SignalFollowsAudio == Spec => []HandedOver
  <1>1. ASSUME StreamInv PROVE HandedOver
    <2> SUFFICES ASSUME loop.close_after_playback PROVE \A f \in FramesOf(outbound) : f > promise.upto
      BY DEF HandedOver
    <2>1. Later(promise.upto) /\ outbound \in Seq(Message)
      BY <1>1 DEF StreamInv, SoundInv, CloseInv, PlayType
    <2> QED BY <2>1, QueuedFrames
  <1> QED BY <1>1, StreamIsSound, PTL

\* A committed barge-in reaches all the buffers: the queue, the sender's and the
\* carrier's hold nothing that was generated before the caller spoke.
THEOREM InterruptionIsComplete == Spec => []InterruptedAudioIsGone
  <1>1. ASSUME StreamInv PROVE InterruptedAudioIsGone
    <2>1. /\ CutInv /\ outbound \in Seq(Message) /\ line \in Seq(Frame)
          /\ sender.buffer \in Seq(Frame)
      BY <1>1 DEF StreamInv, SoundInv, PlayType, Sender
    <2>2. /\ \A f \in FramesOf(outbound) : cut < f
          /\ \A f \in ToSet(sender.buffer) : cut < f
          /\ \A f \in ToSet(line) : cut < f
      BY <2>1, QueuedFrames, BufferedFrames DEF CutInv
    <2> QED BY <2>2 DEF InterruptedAudioIsGone, Unplayed
  <1> QED BY <1>1, StreamIsSound, PTL

\* A close that waited for its signal and drained to the end hangs up with at
\* most MarkEvery stretches of the goodbye unplayed: the tail bounds it.
THEOREM GoodbyeIsPlayed == Spec => []PlayedOut
  <1>1. ASSUME StreamInv PROVE PlayedOut
    <2> SUFFICES ASSUME loop.drained = "finished", socket = "open"
                 PROVE  Cardinality({f \in Unplayed : f <= promise.upto}) <= MarkEvery
      BY DEF PlayedOut
    <2>1. /\ loop.close_after_playback /\ Above(sender.buffer, promise.upto)
          /\ Cardinality({f \in ToSet(line) : f <= promise.upto}) <= MarkEvery
          /\ Later(promise.upto) /\ outbound \in Seq(Message) /\ line \in Seq(Frame)
          /\ sender.buffer \in Seq(Frame) /\ promise.upto \in Nat
      BY <1>1, Numbers DEF StreamInv, SoundInv, DrainInv, CloseInv, PlayType, Sender, Promise
    <2>2. /\ \A f \in FramesOf(outbound) : promise.upto < f /\ f \in Nat
          /\ \A f \in ToSet(sender.buffer) : promise.upto < f /\ f \in Nat
      <3>1. \A m : m \in ToSet(outbound) => m \in Message
        BY <2>1, Members, Queues
      <3>2. \A f \in FramesOf(outbound) : f \in 0..MaxAudio
        BY <3>1 DEF FramesOf, Message
      <3>3. \A f \in ToSet(sender.buffer) : f \in Frame
        BY <2>1, Members, Queues
      <3>4. \A f \in FramesOf(outbound) : promise.upto < f
        BY <2>1, QueuedFrames
      <3>5. \A f \in ToSet(sender.buffer) : promise.upto < f
        BY <2>1, BufferedFrames
      <3>6. \A f \in 0..MaxAudio : f \in Nat
        BY Numbers
      <3> QED BY <3>2, <3>3, <3>4, <3>5, <3>6, Numbers
    <2>3. {f \in Unplayed : f <= promise.upto} = {f \in ToSet(line) : f <= promise.upto}
      BY <2>1, <2>2 DEF Unplayed
    <2> QED BY <2>1, <2>3
  <1> QED BY <1>1, StreamIsSound, PTL
=============================================================================
