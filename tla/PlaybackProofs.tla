---------------------------- MODULE PlaybackProofs ----------------------------
(***************************************************************************)
(* Proofs about CarrierPlayback, for all three carriers, every chunk size, *)
(* mark interval, number of frames and of barge-ins, and however late the  *)
(* carrier plays.                                                          *)
(***************************************************************************)
EXTENDS CarrierPlayback, SequenceTheorems, TLAPS

Frames == Seq(Frame)

----------------------------------------------------------------------------
(* The invariant                                                           *)

\* A write that is awaited has frames, and at most all frames are still to be heard.
BacklogInv ==
    /\ sending.stage = "media" => sending.frames # <<>>
    /\ playout + InFlight + Len(chunk) + Len(buffer) <= made

\* The frames are heard in the order in which they were made, each once.
Increasing(s) == \A i, j \in 1..Len(s) : i < j => s[i] < s[j]

OrderInv ==
    /\ Increasing(Ahead)
    /\ \A p \in played, i \in 1..Len(Ahead) : p < Ahead[i]
    /\ played \cup ToSet(Ahead) \cup cut \subseteq 1..made
    /\ (played \cup ToSet(Ahead)) \cap cut = {}
    /\ loop # "closed" => 1..made \subseteq played \cup ToSet(Ahead) \cup cut
    /\ \E m \in played \cup {0} : \A p \in played : p <= m

\* How much of the line a mark or the playout must account for: all but the write
\* that is awaited and, on Twilio, what was written since the last mark.
Since == IF carrier = "twilio" THEN since_mark ELSE 0
Covered == Len(line) - InFlight - Since

CoverInv ==
    /\ pump = "clear" => line = <<>> /\ chunk = <<>> /\ buffer = <<>>
    /\ carrier = "twilio" => chunk = <<>> /\ (sending.stage = "media" => Len(sending.frames) = 1)
    /\ carrier = "teler" /\ loop # "closed" /\ buffer = <<>> => chunk = <<>>
    /\ sending.stage = "media" /\ line # <<>> => Last(sending.frames) = Last(line)
    /\ carrier = "teler" => Len(line) <= playout + InFlight + late
    /\ carrier # "teler" /\ loop # "closed" /\ Covered >= 1 => line[Covered] \in marks

PlaybackInv == TypeOK /\ BacklogInv /\ OrderInv /\ CoverInv

----------------------------------------------------------------------------
(* Sequences of frames                                                     *)

LEMMA Bounds ==
    /\ ChunkFrames \in Nat /\ ChunkFrames >= 1 /\ MarkEvery \in Nat /\ MarkEvery >= 1
    /\ MaxFrames \in Nat /\ MaxInterrupts \in Nat /\ MaxLate \in Nat
    /\ \A f \in Frame : f \in Nat /\ f >= 1
  BY PlaybackAssumption DEF Frame

LEMMA Parts ==
    ASSUME NEW s \in Frames
    PROVE  /\ Len(s) \in Nat /\ DOMAIN s = 1..Len(s)
           /\ \A i \in 1..Len(s) : s[i] \in Frame
           /\ (s = <<>>) <=> (Len(s) = 0)
           /\ ToSet(s) = {s[i] : i \in 1..Len(s)}
  BY LenProperties, ElementOfSeq, EmptySeq DEF Frames, ToSet

LEMMA Contents ==
    ASSUME NEW s \in Frames
    PROVE  ToSet(s) \subseteq Frame
  BY Parts

LEMMA Empty == <<>> \in Frames /\ Len(<<>>) = 0 /\ ToSet(<<>>) = {} /\ Increasing(<<>>)
  <1>1. <<>> \in Frames /\ Len(<<>>) = 0
    BY EmptySeq DEF Frames
  <1>2. ToSet(<<>>) = {}
    BY <1>1, Parts
  <1> QED BY <1>1, <1>2 DEF Increasing

\* Two sequences after each other.
LEMMA Joined ==
    ASSUME NEW s \in Frames, NEW t \in Frames
    PROVE  /\ s \o t \in Frames /\ Len(s \o t) = Len(s) + Len(t)
           /\ \A i \in 1..Len(s) : (s \o t)[i] = s[i]
           /\ \A i \in 1..Len(t) : (s \o t)[Len(s) + i] = t[i]
           /\ ToSet(s \o t) = ToSet(s) \cup ToSet(t)
  <1>1. /\ s \o t \in Frames /\ Len(s \o t) = Len(s) + Len(t)
        /\ Len(s) \in Nat /\ Len(t) \in Nat
        /\ \A i \in 1..(Len(s) + Len(t)) :
             (s \o t)[i] = IF i <= Len(s) THEN s[i] ELSE t[i - Len(s)]
    BY ConcatProperties, LenProperties DEF Frames
  <1>2. \A i \in 1..Len(s) : (s \o t)[i] = s[i]
    BY <1>1
  <1>3. \A i \in 1..Len(t) : (s \o t)[Len(s) + i] = t[i]
    <2> TAKE i \in 1..Len(t)
    <2>1. Len(s) + i \in 1..(Len(s) + Len(t)) /\ ~(Len(s) + i <= Len(s)) /\ (Len(s) + i) - Len(s) = i
      BY <1>1
    <2> QED BY <1>1, <2>1
  <1>4. Range(s \o t) = Range(s) \cup Range(t)
    BY RangeConcatenation DEF Frames
  <1> QED BY <1>1, <1>2, <1>3, <1>4 DEF ToSet, Range

LEMMA Regrouped ==
    ASSUME NEW s \in Frames, NEW t \in Frames, NEW u \in Frames
    PROVE  (s \o t) \o u = s \o (t \o u)
  <1>1. s \in Seq(Frame) /\ t \in Seq(Frame) /\ u \in Seq(Frame)
    BY DEF Frames
  <1> QED BY <1>1, ConcatAssociative

\* What a tick leaves of the playout.
LEMMA Remaining ==
    ASSUME NEW n \in Nat
    PROVE  Max({n - 1, 0}) = IF n = 0 THEN 0 ELSE n - 1
  <1> DEFINE m == IF n = 0 THEN 0 ELSE n - 1
  <1>1. m \in {n - 1, 0} /\ \A y \in {n - 1, 0} : m >= y
    OBVIOUS
  <1>2. \A x \in {n - 1, 0} : (\A y \in {n - 1, 0} : x >= y) => x = m
    OBVIOUS
  <1> HIDE DEF m
  <1>3. /\ Max({n - 1, 0}) \in {n - 1, 0}
        /\ \A y \in {n - 1, 0} : Max({n - 1, 0}) >= y
    BY <1>1 DEF Max
  <1>4. Max({n - 1, 0}) = m
    BY <1>2, <1>3
  <1> QED BY <1>4 DEF m

\* One frame, and one at the end.
LEMMA JustOne ==
    ASSUME NEW x \in Frame
    PROVE  /\ <<x>> \in Frames /\ Len(<<x>>) = 1 /\ <<x>>[1] = x /\ ToSet(<<x>>) = {x}
  <1>1. <<x>> \in Frames /\ Len(<<x>>) = 1 /\ <<x>>[1] = x /\ DOMAIN <<x>> = {1}
    BY DEF Frames
  <1>2. ToSet(<<x>>) = {<<x>>[i] : i \in {1}}
    BY <1>1 DEF ToSet
  <1> QED BY <1>1, <1>2

LEMMA OneMore ==
    ASSUME NEW s \in Frames, NEW x \in Frame
    PROVE  /\ Append(s, x) \in Frames /\ Append(s, x) = s \o <<x>>
           /\ Len(Append(s, x)) = Len(s) + 1
           /\ \A i \in 1..Len(s) : Append(s, x)[i] = s[i]
           /\ Append(s, x)[Len(s) + 1] = x /\ Last(Append(s, x)) = x
           /\ ToSet(Append(s, x)) = ToSet(s) \cup {x}
  <1>1. <<x>> \in Frames
    BY JustOne
  <1>2. ToSet(<<x>>) = {x}
    BY JustOne
  <1>3. /\ Append(s, x) \in Frames /\ Append(s, x) = s \o <<x>>
        /\ Len(Append(s, x)) = Len(s) + 1
        /\ \A i \in 1..Len(s) : Append(s, x)[i] = s[i]
        /\ Append(s, x)[Len(s) + 1] = x
    BY AppendProperties, AppendIsConcat DEF Frames
  <1>4. ToSet(Append(s, x)) = ToSet(s) \cup {x}
    <2>1. ToSet(s \o <<x>>) = ToSet(s) \cup ToSet(<<x>>)
      BY <1>1, Joined
    <2> QED BY <1>2, <1>3, <2>1, Zenon
  <1> QED BY <1>1, <1>2, <1>3, <1>4 DEF Last

\* One frame off the front.
LEMMA OneLess ==
    ASSUME NEW s \in Frames, s # <<>>
    PROVE  /\ Head(s) \in Frame /\ Tail(s) \in Frames /\ Len(Tail(s)) = Len(s) - 1
           /\ \A i \in 1..(Len(s) - 1) : Tail(s)[i] = s[i + 1]
           /\ Head(s) = s[1] /\ s = <<Head(s)>> \o Tail(s)
           /\ ToSet(s) = {Head(s)} \cup ToSet(Tail(s))
  <1>1. /\ Head(s) \in Frame /\ Tail(s) \in Frames /\ Len(Tail(s)) = Len(s) - 1
        /\ \A i \in 1..(Len(s) - 1) : Tail(s)[i] = s[i + 1]
        /\ Len(s) \in Nat \ {0}
    BY HeadTailProperties, EmptySeq DEF Frames
  <1>2. Head(s) = s[1]
    BY DEF Frames
  <1>3. /\ <<Head(s)>> \in Frames /\ Len(<<Head(s)>>) = 1 /\ <<Head(s)>>[1] = Head(s)
        /\ ToSet(<<Head(s)>>) = {Head(s)}
    BY <1>1, JustOne
  <1>4. s = <<Head(s)>> \o Tail(s)
    <2>1. /\ <<Head(s)>> \o Tail(s) \in Frames /\ Len(<<Head(s)>> \o Tail(s)) = Len(s)
          /\ (<<Head(s)>> \o Tail(s))[1] = s[1]
          /\ \A i \in 1..(Len(s) - 1) : (<<Head(s)>> \o Tail(s))[1 + i] = s[i + 1]
      <3> DEFINE u == <<Head(s)>>
                 v == Tail(s)
      <3>1. u \in Frames /\ Len(u) = 1 /\ u[1] = s[1]
        BY <1>2, <1>3
      <3>2. v \in Frames /\ Len(v) = Len(s) - 1 /\ Len(s) \in Nat
            /\ \A i \in 1..(Len(s) - 1) : v[i] = s[i + 1]
        BY <1>1
      <3> HIDE DEF u, v
      <3>3. /\ u \o v \in Frames /\ Len(u \o v) = Len(u) + Len(v)
            /\ \A i \in 1..Len(u) : (u \o v)[i] = u[i]
            /\ \A i \in 1..Len(v) : (u \o v)[Len(u) + i] = v[i]
        BY <3>1, <3>2, Joined
      <3>4. /\ u \o v \in Frames /\ Len(u \o v) = Len(s) /\ (u \o v)[1] = s[1]
            /\ \A i \in 1..(Len(s) - 1) : (u \o v)[1 + i] = s[i + 1]
        BY <3>1, <3>2, <3>3
      <3> QED BY <3>4 DEF u, v
    <2>2. \A i \in 1..Len(s) : (<<Head(s)>> \o Tail(s))[i] = s[i]
      <3> TAKE i \in 1..Len(s)
      <3>1. CASE i = 1
        BY <2>1, <3>1
      <3>2. CASE i # 1
        <4>1. i - 1 \in 1..(Len(s) - 1) /\ 1 + (i - 1) = i /\ (i - 1) + 1 = i
          BY <1>1, <3>2
        <4> QED BY <2>1, <4>1
      <3> QED BY <3>1, <3>2
    <2> QED BY <2>1, <2>2, SeqEqual DEF Frames
  <1>5. ToSet(s) = {Head(s)} \cup ToSet(Tail(s))
    <2>1. ToSet(<<Head(s)>> \o Tail(s)) = ToSet(<<Head(s)>>) \cup ToSet(Tail(s))
      BY <1>1, <1>3, Joined
    <2> QED BY <1>3, <1>4, <2>1, Zenon
  <1> QED BY <1>1, <1>2, <1>4, <1>5

\* What is ahead of the caller, when a frame is taken off its front.
LEMMA TailOfJoined ==
    ASSUME NEW s \in Frames, NEW t \in Frames, s # <<>>
    PROVE  Tail(s) \o t = Tail(s \o t) /\ Head(s \o t) = Head(s) /\ s \o t # <<>>
  <1>1. /\ Tail(s) \in Frames /\ Len(Tail(s)) = Len(s) - 1 /\ Len(s) \in Nat /\ Len(t) \in Nat
        /\ Len(s) >= 1 /\ Head(s) = s[1]
        /\ \A i \in 1..(Len(s) - 1) : Tail(s)[i] = s[i + 1]
    <2>1. Len(s) \in Nat /\ Len(t) \in Nat /\ Len(s) # 0
      BY Parts
    <2>2. /\ Tail(s) \in Frames /\ Len(Tail(s)) = Len(s) - 1 /\ Head(s) = s[1]
          /\ \A i \in 1..(Len(s) - 1) : Tail(s)[i] = s[i + 1]
      BY OneLess
    <2>3. Len(s) >= 1
      BY <2>1
    <2> QED BY <2>1, <2>2, <2>3
  <1>2. /\ s \o t \in Frames /\ Len(s \o t) = Len(s) + Len(t)
        /\ \A i \in 1..Len(s) : (s \o t)[i] = s[i]
        /\ \A i \in 1..Len(t) : (s \o t)[Len(s) + i] = t[i]
    BY Joined
  <1>3. s \o t # <<>> /\ Head(s \o t) = Head(s)
    <2>1. s \o t # <<>>
      BY <1>1, <1>2, Empty
    <2>2. Head(s \o t) = (s \o t)[1]
      BY <1>2, <2>1, OneLess
    <2> QED BY <1>1, <1>2, <2>1, <2>2
  <1>4. /\ Tail(s \o t) \in Frames /\ Len(Tail(s \o t)) = Len(s) + Len(t) - 1
        /\ \A i \in 1..(Len(s) + Len(t) - 1) : Tail(s \o t)[i] = (s \o t)[i + 1]
    <2> DEFINE u == s \o t
    <2>1. u \in Frames /\ u # <<>> /\ Len(u) = Len(s) + Len(t)
      BY <1>2, <1>3
    <2> HIDE DEF u
    <2>2. /\ Tail(u) \in Frames /\ Len(Tail(u)) = Len(u) - 1
          /\ \A i \in 1..(Len(u) - 1) : Tail(u)[i] = u[i + 1]
      BY <2>1, OneLess
    <2> QED BY <2>1, <2>2 DEF u
  <1>5. /\ Tail(s) \o t \in Frames /\ Len(Tail(s) \o t) = Len(s) + Len(t) - 1
        /\ \A i \in 1..(Len(s) - 1) : (Tail(s) \o t)[i] = s[i + 1]
        /\ \A i \in 1..Len(t) : (Tail(s) \o t)[Len(s) - 1 + i] = t[i]
    <2>1. /\ Tail(s) \o t \in Frames /\ Len(Tail(s) \o t) = Len(Tail(s)) + Len(t)
          /\ \A i \in 1..Len(Tail(s)) : (Tail(s) \o t)[i] = Tail(s)[i]
          /\ \A i \in 1..Len(t) : (Tail(s) \o t)[Len(Tail(s)) + i] = t[i]
      BY <1>1, Joined
    <2> QED BY <1>1, <2>1
  <1>6. \A i \in 1..(Len(s) + Len(t) - 1) : (Tail(s) \o t)[i] = Tail(s \o t)[i]
    <2> TAKE i \in 1..(Len(s) + Len(t) - 1)
    <2>1. CASE i <= Len(s) - 1
      <3>1. i \in 1..(Len(s) - 1) /\ i + 1 \in 1..Len(s)
        BY <1>1, <2>1
      <3> QED BY <1>2, <1>4, <1>5, <3>1
    <2>2. CASE ~(i <= Len(s) - 1)
      <3> DEFINE k == i - (Len(s) - 1)
      <3>1. k \in 1..Len(t) /\ Len(s) - 1 + k = i /\ Len(s) + k = i + 1
        BY <1>1, <2>2
      <3> HIDE DEF k
      <3>2. (Tail(s) \o t)[i] = t[k] /\ (s \o t)[i + 1] = t[k]
        BY <1>2, <1>5, <3>1
      <3> QED BY <1>4, <3>2
    <2> QED BY <2>1, <2>2
  <1>7. Tail(s) \o t = Tail(s \o t)
    BY <1>4, <1>5, <1>6, SeqEqual DEF Frames
  <1> QED BY <1>3, <1>7

\* Any two neighbours in order are all in order, and the other way round.
LEMMA IncreasingTail ==
    ASSUME NEW s \in Frames, s # <<>>, Increasing(s)
    PROVE  Increasing(Tail(s)) /\ \A i \in 1..Len(Tail(s)) : Head(s) < Tail(s)[i]
  <1>1. /\ Tail(s) \in Frames /\ Len(Tail(s)) = Len(s) - 1 /\ Len(s) \in Nat /\ Head(s) = s[1]
        /\ \A i \in 1..(Len(s) - 1) : Tail(s)[i] = s[i + 1]
    BY OneLess, Parts
  <1>2. ASSUME NEW i \in 1..(Len(s) - 1), NEW j \in 1..(Len(s) - 1), i < j
        PROVE  Tail(s)[i] < Tail(s)[j]
    <2>1. i + 1 \in 1..Len(s) /\ j + 1 \in 1..Len(s) /\ i + 1 < j + 1
      BY <1>1, <1>2
    <2> QED BY <1>1, <2>1 DEF Increasing
  <1>3. ASSUME NEW i \in 1..(Len(s) - 1)
        PROVE  Head(s) < Tail(s)[i]
    <2>1. 1 \in 1..Len(s) /\ i + 1 \in 1..Len(s) /\ 1 < i + 1
      BY <1>1
    <2> QED BY <1>1, <2>1 DEF Increasing
  <1> QED BY <1>1, <1>2, <1>3 DEF Increasing

LEMMA IncreasingPrefix ==
    ASSUME NEW s \in Frames, NEW t \in Frames, Increasing(s \o t)
    PROVE  Increasing(s)
  <1>1. /\ Len(s \o t) = Len(s) + Len(t) /\ Len(s) \in Nat /\ Len(t) \in Nat
        /\ \A i \in 1..Len(s) : (s \o t)[i] = s[i]
    BY Joined, Parts
  <1> QED BY <1>1 DEF Increasing

LEMMA IncreasingAppend ==
    ASSUME NEW s \in Frames, NEW x \in Frame, Increasing(s), \A i \in 1..Len(s) : s[i] < x
    PROVE  Increasing(Append(s, x))
  <1>1. /\ Len(s) \in Nat /\ Len(Append(s, x)) = Len(s) + 1
        /\ \A i \in 1..Len(s) : Append(s, x)[i] = s[i]
        /\ Append(s, x)[Len(s) + 1] = x
    BY OneMore, Parts
  <1>2. ASSUME NEW i \in 1..(Len(s) + 1), NEW j \in 1..(Len(s) + 1), i < j
        PROVE  Append(s, x)[i] < Append(s, x)[j]
    <2>1. i \in 1..Len(s)
      BY <1>1, <1>2
    <2>2. CASE j = Len(s) + 1
      BY <1>1, <2>1, <2>2
    <2>3. CASE j \in 1..Len(s)
      BY <1>1, <1>2, <2>1, <2>3 DEF Increasing
    <2> QED BY <1>1, <2>2, <2>3
  <1> QED BY <1>1, <1>2 DEF Increasing

----------------------------------------------------------------------------
(* The steps of the sender                                                 *)

LEMMA Typed ==
    ASSUME TypeOK
    PROVE  /\ line \in Frames /\ chunk \in Frames /\ buffer \in Frames /\ sending.frames \in Frames
           /\ Len(line) \in Nat /\ Len(chunk) \in Nat /\ Len(buffer) \in Nat
           /\ Len(sending.frames) \in Nat /\ InFlight \in Nat /\ Since \in Nat
           /\ made \in Nat /\ playout \in Nat /\ since_mark \in Nat /\ late \in Nat
           /\ carrier \in {"twilio", "exotel", "teler"}
  <1>1. line \in Frames /\ chunk \in Frames /\ buffer \in Frames /\ sending.frames \in Frames
    BY DEF TypeOK, Frames
  <1>2. /\ Len(line) \in Nat /\ Len(chunk) \in Nat /\ Len(buffer) \in Nat
        /\ Len(sending.frames) \in Nat
    BY <1>1, Parts
  <1>3. made \in Nat /\ playout \in Nat /\ since_mark \in Nat /\ late \in Nat
    BY Bounds DEF TypeOK
  <1>4. InFlight \in Nat /\ Since \in Nat
    BY <1>2, <1>3 DEF InFlight, Since
  <1>5. carrier \in {"twilio", "exotel", "teler"}
    BY PlaybackAssumption DEF TypeOK
  <1> QED BY <1>1, <1>2, <1>3, <1>4, <1>5

\* What the sender task makes of a frame: a write, or more of a chunk.
LEMMA FrameTaken ==
    ASSUME TypeOK, TakeFrame, NEW batch, batch = Append(chunk, Head(buffer))
    PROVE  /\ batch \in Frames /\ Len(batch) = Len(chunk) + 1 /\ batch # <<>>
           /\ Len(buffer) >= 1 /\ buffer' \in Frames /\ Len(buffer') = Len(buffer) - 1
           /\ batch \o buffer' = chunk \o buffer
           /\ sending = AtRest /\ InFlight = 0
           /\ UNCHANGED <<carrier, made, paused, since_mark, ackVars, pump, interrupts, loop, late,
                         played, cut>>
           /\ \/ /\ Flushes(batch, buffer')
                 /\ line' = line \o batch /\ chunk' = <<>>
                 /\ sending' = [stage |-> "media", frames |-> batch] /\ InFlight' = Len(batch)
              \/ /\ ~Flushes(batch, buffer')
                 /\ line' = line /\ chunk' = batch /\ sending' = sending /\ InFlight' = 0
  <1>1. /\ sending = AtRest /\ buffer # <<>> /\ buffer' = Tail(buffer)
        /\ UNCHANGED <<carrier, made, paused, since_mark, ackVars, pump, interrupts, loop, late,
                         played, cut>>
        /\ \/ /\ Flushes(batch, buffer')
              /\ line' = line \o batch /\ chunk' = <<>>
              /\ sending' = [stage |-> "media", frames |-> batch]
           \/ /\ ~Flushes(batch, buffer')
              /\ line' = line /\ chunk' = batch /\ sending' = sending
    BY DEF TakeFrame
  <1>2. chunk \in Frames /\ buffer \in Frames /\ Len(buffer) \in Nat /\ Len(chunk) \in Nat
    BY Typed
  <1>3. /\ Head(buffer) \in Frame /\ Tail(buffer) \in Frames /\ Len(Tail(buffer)) = Len(buffer) - 1
        /\ buffer = <<Head(buffer)>> \o Tail(buffer)
    BY <1>1, <1>2, OneLess
  <1>4. Len(buffer) >= 1
    <2>1. Len(buffer) # 0
      BY <1>1, <1>2, Parts
    <2> QED BY <1>2, <2>1
  <1>5. /\ batch \in Frames /\ Len(batch) = Len(chunk) + 1 /\ batch = chunk \o <<Head(buffer)>>
    BY <1>2, <1>3, OneMore
  <1>6. batch # <<>>
    <2>1. Len(batch) # 0
      BY <1>2, <1>5
    <2> QED BY <1>5, <2>1, Parts
  <1>7. batch \o buffer' = chunk \o buffer
    <2> DEFINE h == <<Head(buffer)>>
               t == Tail(buffer)
    <2>1. h \in Frames /\ t \in Frames
      BY <1>3, JustOne
    <2>2. batch = chunk \o h /\ buffer = h \o t /\ buffer' = t
      BY <1>1, <1>3, <1>5
    <2> HIDE DEF h, t
    <2>3. (chunk \o h) \o t = chunk \o (h \o t)
      BY <1>2, <2>1, Regrouped, Zenon
    <2> QED BY <2>2, <2>3
  <1>8. InFlight = 0
    BY <1>1 DEF InFlight, AtRest
  <1>9. sending' = [stage |-> "media", frames |-> batch] => InFlight' = Len(batch)
    BY DEF InFlight
  <1>10. sending' = sending => InFlight' = 0
    BY <1>8 DEF InFlight
  <1> QED BY <1>1, <1>3, <1>4, <1>5, <1>6, <1>7, <1>8, <1>9, <1>10

\* What comes after a write: at most a mark.
Sent == TelerSent \/ ExotelSent \/ TwilioSent \/ MarkSent

LEMMA WriteSent ==
    ASSUME Sent
    PROVE  /\ UNCHANGED <<carrier, made, buffer, paused, chunk, pump, interrupts, loop, lineVars>>
           /\ sending'.stage # "media" /\ sending' \in {AtRest, [stage |-> "mark", frames |-> <<>>]}
           /\ InFlight' = 0
  <1>1. /\ UNCHANGED <<carrier, made, buffer, paused, chunk, pump, interrupts, loop, lineVars>>
        /\ sending' \in {AtRest, [stage |-> "mark", frames |-> <<>>]}
    BY DEF Sent, TelerSent, ExotelSent, TwilioSent, MarkSent, MediaSent, Mark
  <1>2. sending'.stage # "media"
    BY <1>1 DEF AtRest
  <1>3. InFlight' = 0
    BY <1>2 DEF InFlight
  <1> QED BY <1>1, <1>2, <1>3

\* The other steps leave what the sender has alone, or discard it.
Idles == Pause(TRUE) \/ Pause(FALSE) \/ Cleared \/ Goodbye \/ HangUp \/ CallerLeaves
         \/ DrainFinishes \/ DrainGivesUp \/ MarkEchoed

LEMMA SenderIdle ==
    ASSUME Idles \/ UNCHANGED vars, TypeOK
    PROVE  /\ UNCHANGED <<carrier, made, chunk, sending, since_mark, playout, interrupts, lineVars>>
           /\ InFlight' = InFlight /\ Since' = Since
           /\ buffer' = buffer \/ (buffer' = <<>> /\ loop' = "closed")
           /\ pump' \in {"run", pump} /\ marks' \subseteq marks
           /\ loop' \in {loop, "drain", "tail", "closed"} /\ paused' \in BOOLEAN
  <1>1. /\ UNCHANGED <<carrier, made, chunk, sending, since_mark, playout, interrupts, lineVars>>
        /\ buffer' = buffer \/ (buffer' = <<>> /\ loop' = "closed")
        /\ pump' \in {"run", pump} /\ marks' \subseteq marks
        /\ loop' \in {loop, "drain", "tail", "closed"} /\ paused' \in BOOLEAN
    BY DEF Idles, Pause, Cleared, Goodbye, HangUp, CallerLeaves, DrainFinishes, DrainGivesUp,
           MarkEchoed, Goto, senderVars, ackVars, lineVars, vars, TypeOK
  <1>2. InFlight' = InFlight /\ Since' = Since
    BY <1>1 DEF InFlight, Since
  <1> QED BY <1>1, <1>2

\* Which step is taken.
LEMMA Moves ==
    ASSUME [Next]_vars
    PROVE  \/ Feed \/ Interrupt \/ TakeFrame \/ Sent \/ Tick
           \/ Idles \/ UNCHANGED vars
  BY DEF Next, SenderStep, Sent, Idles

\* Once the loop is closed nothing moves.
LEMMA OpenMoves ==
    ASSUME [Next]_vars
    PROVE  loop # "closed" \/ UNCHANGED vars
  BY DEF Next

\* In the time of a frame the carrier plays one, or none: it has none, or is late.
LEMMA Ticked ==
    ASSUME TypeOK, Tick
    PROVE  /\ \/ UNCHANGED <<line, played>> /\ late' = IF line = <<>> THEN 0 ELSE late + 1
              \/ /\ line # <<>> /\ line' = Tail(line) /\ played' = played \cup {Head(line)}
                 /\ late' = IF line' = <<>> THEN 0 ELSE late
           /\ late' \in 0..MaxLate
           /\ playout' = IF playout = 0 THEN 0 ELSE playout - 1
           /\ UNCHANGED <<carrier, made, buffer, paused, chunk, sending, since_mark, marks, pump,
                          interrupts, loop, cut>>
  <1>1. playout \in Nat /\ late \in 0..MaxLate /\ MaxLate \in Nat
    BY Typed, Bounds DEF TypeOK
  <1>2. playout' = IF playout = 0 THEN 0 ELSE playout - 1
    BY <1>1, Remaining DEF Tick
  <1>3. UNCHANGED <<carrier, made, buffer, paused, chunk, sending, since_mark, marks, pump,
                    interrupts, loop, cut>>
    BY DEF Tick, senderVars
  <1>4. Plays \/ Lags
    BY DEF Tick
  <1>5. late' \in 0..MaxLate
    BY <1>1, <1>4 DEF Plays, Lags
  <1>6. \/ UNCHANGED <<line, played>> /\ late' = IF line = <<>> THEN 0 ELSE late + 1
        \/ /\ line # <<>> /\ line' = Tail(line) /\ played' = played \cup {Head(line)}
           /\ late' = IF line' = <<>> THEN 0 ELSE late
    BY <1>4 DEF Plays, Lags
  <1> QED BY <1>2, <1>3, <1>5, <1>6

----------------------------------------------------------------------------
(* Types, and how much there is to hear                                    *)

LEMMA BacklogStep ==
    ASSUME TypeOK, BacklogInv, [Next]_vars
    PROVE  TypeOK' /\ BacklogInv'
  <1>1. /\ line \in Frames /\ chunk \in Frames /\ buffer \in Frames /\ sending.frames \in Frames
        /\ Len(line) \in Nat /\ Len(chunk) \in Nat /\ Len(buffer) \in Nat
        /\ InFlight \in Nat /\ made \in Nat /\ playout \in Nat /\ since_mark \in Nat
        /\ made <= MaxFrames /\ MaxFrames \in Nat
    BY Typed, Bounds DEF TypeOK
  <1>2. CASE Feed
    <2>1. /\ made' = made + 1 /\ made < MaxFrames /\ buffer' = Append(buffer, made + 1)
          /\ UNCHANGED <<carrier, paused, chunk, sending, since_mark, ackVars, pump, interrupts, loop,
                         lineVars>>
      BY <1>2 DEF Feed
    <2>2. made + 1 \in Frame /\ made' \in 0..MaxFrames
      BY <1>1, <2>1 DEF Frame
    <2>3. buffer' \in Frames /\ Len(buffer') = Len(buffer) + 1
      BY <1>1, <2>1, <2>2, OneMore
    <2>4. TypeOK'
      BY <2>1, <2>2, <2>3 DEF TypeOK, Frames, ackVars, lineVars
    <2>5. InFlight' = InFlight /\ Len(chunk') = Len(chunk) /\ playout' = playout
      BY <2>1 DEF InFlight, ackVars
    <2>6. playout' + InFlight' + Len(chunk') + Len(buffer') <= made'
      BY <1>1, <2>1, <2>3, <2>5 DEF BacklogInv
    <2> QED BY <2>1, <2>4, <2>6 DEF BacklogInv
  <1>3. CASE Interrupt
    <2>1. /\ buffer' = <<>> /\ chunk' = <<>> /\ line' = <<>> /\ playout' = 0 /\ pump' = "clear"
          /\ late' = 0
          /\ interrupts' = interrupts + 1 /\ interrupts < MaxInterrupts
          /\ cut' = cut \cup ToSet(buffer) \cup ToSet(chunk) \cup ToSet(line)
          /\ UNCHANGED <<carrier, made, paused, sending, since_mark, marks, loop, played>>
      BY <1>3 DEF Interrupt, ChunkCleared
    <2>2. /\ interrupts' \in 0..MaxInterrupts /\ Len(chunk') < ChunkFrames
          /\ playout' \in 0..MaxFrames /\ late' \in 0..MaxLate
      BY <2>1, Bounds, Empty DEF TypeOK
    <2>3. cut' \subseteq Frame
      <3>1. ToSet(buffer) \subseteq Frame /\ ToSet(chunk) \subseteq Frame /\ ToSet(line) \subseteq Frame
        BY <1>1, Contents
      <3> QED BY <2>1, <3>1 DEF TypeOK
    <2>4. TypeOK'
      <3>1. buffer' \in Frames /\ chunk' \in Frames /\ line' \in Frames
        BY <2>1, Empty
      <3> QED BY <2>1, <2>2, <2>3, <3>1 DEF TypeOK, Frames
    <2>5. InFlight' = InFlight /\ Len(chunk') = 0 /\ Len(buffer') = 0
      <3>1. sending' = sending
        BY <2>1
      <3>2. chunk' = <<>> /\ buffer' = <<>>
        BY <2>1
      <3>3. InFlight' = InFlight
        BY <3>1 DEF InFlight
      <3>4. Len(chunk') = 0 /\ Len(buffer') = 0
        BY <3>2, Empty, Zenon
      <3> QED BY <3>3, <3>4
    <2>6. playout' + InFlight' + Len(chunk') + Len(buffer') <= made'
      BY <1>1, <2>1, <2>5 DEF BacklogInv
    <2> QED BY <2>1, <2>4, <2>6 DEF BacklogInv
  <1>4. CASE TakeFrame
    <2> DEFINE batch == Append(chunk, Head(buffer))
    <2>1. /\ batch \in Frames /\ Len(batch) = Len(chunk) + 1 /\ batch # <<>>
          /\ Len(buffer) >= 1 /\ buffer' \in Frames /\ Len(buffer') = Len(buffer) - 1
          /\ InFlight = 0
          /\ UNCHANGED <<carrier, made, paused, since_mark, ackVars, pump, interrupts, loop, late,
                         played, cut>>
      BY <1>4, FrameTaken
    <2>2. \/ /\ Flushes(batch, buffer')
             /\ line' = line \o batch /\ chunk' = <<>>
             /\ sending' = [stage |-> "media", frames |-> batch] /\ InFlight' = Len(batch)
          \/ /\ ~Flushes(batch, buffer')
             /\ line' = line /\ chunk' = batch /\ sending' = sending /\ InFlight' = 0
      BY <1>4, FrameTaken
    <2> HIDE DEF batch
    <2>3. /\ line' \in Frames /\ chunk' \in Frames /\ Len(chunk') < ChunkFrames
          /\ sending' \in [stage : {"none", "media", "mark"}, frames : Frames]
          /\ (sending'.stage = "media" => sending'.frames # <<>>)
          /\ InFlight' + Len(chunk') = Len(chunk) + 1
      <3>1. CASE /\ line' = line \o batch /\ chunk' = <<>>
                 /\ sending' = [stage |-> "media", frames |-> batch] /\ InFlight' = Len(batch)
        <4>1. line' \in Frames
          BY <1>1, <2>1, <3>1, Joined
        <4>2. chunk' \in Frames /\ Len(chunk') = 0
          BY <3>1, Empty, Zenon
        <4>3. Len(chunk') < ChunkFrames /\ InFlight' + Len(chunk') = Len(chunk) + 1
          BY <1>1, <2>1, <3>1, <4>2, Bounds
        <4> QED BY <2>1, <3>1, <4>1, <4>2, <4>3
      <3>2. CASE /\ ~Flushes(batch, buffer')
                 /\ line' = line /\ chunk' = batch /\ sending' = sending /\ InFlight' = 0
        <4>1. Len(batch) # ChunkFrames
          BY <3>2 DEF Flushes
        <4>2. Len(chunk) < ChunkFrames
          BY DEF TypeOK
        <4>3. Len(chunk') < ChunkFrames /\ InFlight' + Len(chunk') = Len(chunk) + 1
          BY <1>1, <2>1, <3>2, <4>1, <4>2, Bounds
        <4> QED BY <1>1, <2>1, <3>2, <4>3 DEF TypeOK, BacklogInv, Frames
      <3> QED BY <2>2, <3>1, <3>2
    <2>4. TypeOK'
      <3>1. UNCHANGED <<carrier, made, paused, since_mark, marks, playout, pump, interrupts, loop,
                      late, played, cut>>
        BY <2>1 DEF ackVars
      <3> QED BY <2>1, <2>3, <3>1 DEF TypeOK, Frames
    <2>5. playout' = playout /\ made' = made
      BY <2>1 DEF ackVars
    <2>6. Len(chunk') \in Nat /\ InFlight' \in Nat
      <3>1. Len(chunk') \in Nat
        BY <2>3, Parts
      <3>2. InFlight' \in Nat
        BY <2>1, <2>2, <1>1
      <3> QED BY <3>1, <3>2
    <2>7. playout' + InFlight' + Len(chunk') + Len(buffer') <= made'
      <3> DEFINE c == Len(chunk) c1 == Len(chunk') b == Len(buffer) b1 == Len(buffer')
                 i == InFlight i1 == InFlight'
      <3>1. playout + i + c + b <= made
        BY DEF BacklogInv
      <3>2. i = 0 /\ i1 + c1 = c + 1 /\ b1 = b - 1
        BY <2>1, <2>3
      <3>3. /\ c \in Nat /\ c1 \in Nat /\ b \in Nat /\ i1 \in Nat
            /\ playout \in Nat /\ made \in Nat
        BY <1>1, <2>6
      <3> HIDE DEF c, c1, b, b1, i, i1
      <3>4. playout + i1 + c1 + b1 <= made
        BY <3>1, <3>2, <3>3
      <3>5. playout' + i1 + c1 + b1 <= made'
        BY <2>5, <3>4
      <3> QED BY <3>5 DEF c1, b1, i1
    <2> QED BY <2>3, <2>4, <2>7 DEF BacklogInv
  <1>5. CASE Sent
    <2>1. /\ UNCHANGED <<carrier, made, buffer, paused, chunk, pump, interrupts, loop, lineVars>>
          /\ sending'.stage # "media" /\ sending' \in {AtRest, [stage |-> "mark", frames |-> <<>>]}
          /\ InFlight' = 0
      BY <1>5, WriteSent
    <2>2. since_mark' \in 0..(MarkEvery - 1)
      BY <1>1, <1>5, Bounds DEF TypeOK, Sent, TelerSent, ExotelSent, TwilioSent, MarkSent
    <2>3. marks' \subseteq Frame
      <3>1. sending.stage = "media" => Last(sending.frames) \in Frame
        <4>1. sending.stage = "media" => sending.frames # <<>>
          BY DEF BacklogInv
        <4>2. Len(sending.frames) \in Nat /\ (sending.frames # <<>> => Len(sending.frames) # 0)
              /\ \A i \in 1..Len(sending.frames) : sending.frames[i] \in Frame
          BY <1>1, Parts
        <4>3. sending.frames # <<>> => Len(sending.frames) \in 1..Len(sending.frames)
          BY <4>2
        <4> QED BY <4>1, <4>2, <4>3 DEF Last
      <3> QED BY <1>5, <3>1 DEF TypeOK, Sent, TelerSent, ExotelSent, TwilioSent, MarkSent, MediaSent,
                               Mark, ackVars
    <2>4. playout' <= playout + InFlight /\ playout' \in Nat
      <3>1. \/ playout' = playout
            \/ playout' = playout + Len(sending.frames) /\ sending.stage = "media"
        BY <1>5 DEF Sent, TelerSent, ExotelSent, TwilioSent, MarkSent, MediaSent, Mark, Extended, ackVars
      <3>2. sending.stage = "media" => InFlight = Len(sending.frames)
        BY DEF InFlight
      <3> QED BY <1>1, <3>1, <3>2
    <2>5. Len(chunk') = Len(chunk) /\ Len(buffer') = Len(buffer) /\ made' = made
      BY <2>1
    <2>6. playout' + InFlight' + Len(chunk') + Len(buffer') <= made'
      BY <1>1, <2>1, <2>4, <2>5 DEF BacklogInv
    <2>7. playout' \in 0..MaxFrames
      BY <1>1, <2>1, <2>4, <2>5, <2>6
    <2>8. TypeOK'
      <3>1. sending' \in [stage : {"none", "media", "mark"}, frames : Seq(Frame)]
        <4> DEFINE S == [stage : {"none", "media", "mark"}, frames : Frames]
        <4>1. AtRest \in S /\ [stage |-> "mark", frames |-> <<>>] \in S
          BY Empty DEF AtRest
        <4> HIDE DEF S
        <4>2. sending' \in S
          BY <2>1, <4>1
        <4> QED BY <4>2 DEF S, Frames
      <3> QED BY <2>1, <2>2, <2>3, <2>7, <3>1 DEF TypeOK, lineVars
    <2> QED BY <2>1, <2>6, <2>8 DEF BacklogInv
  <1>6. CASE Tick
    <2>1. /\ \/ UNCHANGED <<line, played>>
             \/ line # <<>> /\ line' = Tail(line) /\ played' = played \cup {Head(line)}
          /\ late' \in 0..MaxLate
          /\ playout' = IF playout = 0 THEN 0 ELSE playout - 1
          /\ UNCHANGED <<carrier, made, senderVars, marks, pump, interrupts, loop, cut>>
      BY <1>6, Ticked DEF senderVars
    <2>2. line' \in Frames /\ played' \subseteq Frame
      <3>1. line # <<>> => Head(line) \in Frame /\ Tail(line) \in Frames
        BY <1>1, OneLess
      <3> QED BY <1>1, <2>1, <3>1 DEF TypeOK
    <2>3. playout' \in Nat /\ playout' <= playout
      BY <1>1, <2>1
    <2>4. InFlight' = InFlight /\ Len(chunk') = Len(chunk) /\ Len(buffer') = Len(buffer)
      BY <2>1 DEF InFlight, senderVars
    <2>5. playout' + InFlight' + Len(chunk') + Len(buffer') <= made'
      BY <1>1, <2>1, <2>3, <2>4 DEF BacklogInv
    <2>6. playout' \in 0..MaxFrames
      BY <1>1, <2>3 DEF TypeOK
    <2>7. TypeOK'
      BY <2>1, <2>2, <2>6 DEF TypeOK, Frames, senderVars
    <2> QED BY <2>1, <2>5, <2>7 DEF BacklogInv, senderVars
  <1>7. CASE Idles \/ UNCHANGED vars
    <2>1. /\ UNCHANGED <<carrier, made, chunk, sending, since_mark, playout, interrupts, lineVars>>
          /\ InFlight' = InFlight
          /\ buffer' = buffer \/ buffer' = <<>>
          /\ pump' \in {"run", pump} /\ marks' \subseteq marks
          /\ loop' \in {loop, "drain", "tail", "closed"} /\ paused' \in BOOLEAN
      BY <1>7, SenderIdle
    <2>2. TypeOK'
      BY <2>1, Empty DEF TypeOK, Frames, lineVars
    <2>3. Len(buffer') <= Len(buffer) /\ Len(buffer') \in Nat
      BY <1>1, <2>1, Empty
    <2>4. Len(chunk') = Len(chunk) /\ playout' = playout /\ made' = made
      BY <2>1
    <2>5. playout' + InFlight' + Len(chunk') + Len(buffer') <= made'
      BY <1>1, <2>1, <2>3, <2>4 DEF BacklogInv
    <2> QED BY <2>1, <2>2, <2>5 DEF BacklogInv
  <1> QED BY <1>2, <1>3, <1>4, <1>5, <1>6, <1>7, Moves

----------------------------------------------------------------------------
(* Nothing is lost, repeated or reordered                                  *)

LEMMA AheadTyped ==
    ASSUME TypeOK
    PROVE  /\ line \o chunk \in Frames /\ Ahead \in Frames /\ Len(Ahead) \in Nat
           /\ ToSet(Ahead) = ToSet(line) \cup ToSet(chunk) \cup ToSet(buffer)
           /\ ToSet(Ahead) = {Ahead[i] : i \in 1..Len(Ahead)}
  <1>1. line \in Frames /\ chunk \in Frames /\ buffer \in Frames
    BY Typed
  <1>2. line \o chunk \in Frames /\ ToSet(line \o chunk) = ToSet(line) \cup ToSet(chunk)
    BY <1>1, Joined
  <1>3. Ahead \in Frames /\ ToSet(Ahead) = ToSet(line \o chunk) \cup ToSet(buffer)
    BY <1>1, <1>2, Joined DEF Ahead
  <1> QED BY <1>2, <1>3, Parts

\* As long as the same frames are ahead in the same order, the rest does not matter.
LEMMA SameOrder ==
    ASSUME OrderInv, loop # "closed" \/ loop' = loop, Ahead' = Ahead, UNCHANGED <<played, cut, made>>
    PROVE  OrderInv'
  BY DEF OrderInv

LEMMA OrderStep ==
    ASSUME TypeOK, TypeOK', OrderInv, [Next]_vars
    PROVE  OrderInv'
  <1>1. /\ line \in Frames /\ chunk \in Frames /\ buffer \in Frames /\ made \in Nat
        /\ played \subseteq Nat /\ cut \subseteq Nat
    BY Typed, Bounds DEF TypeOK
  <1>2. /\ line \o chunk \in Frames /\ Ahead \in Frames /\ Len(Ahead) \in Nat
        /\ ToSet(Ahead) = ToSet(line) \cup ToSet(chunk) \cup ToSet(buffer)
        /\ ToSet(Ahead) = {Ahead[i] : i \in 1..Len(Ahead)}
    BY AheadTyped
  <1>3. /\ Increasing(Ahead)
        /\ \A p \in played, i \in 1..Len(Ahead) : p < Ahead[i]
        /\ played \cup ToSet(Ahead) \cup cut \subseteq 1..made
        /\ (played \cup ToSet(Ahead)) \cap cut = {}
        /\ \E m \in played \cup {0} : \A p \in played : p <= m
    BY DEF OrderInv
  <1>4. CASE UNCHANGED vars
    BY <1>4, SameOrder DEF vars, Ahead, senderVars, lineVars
  <1>5. CASE loop # "closed"
    <2> USE <1>5
    <2>1. 1..made = played \cup ToSet(Ahead) \cup cut
      BY <1>3 DEF OrderInv
    <2>2. CASE Feed
      <3>1. /\ made' = made + 1 /\ made + 1 \in Frame /\ buffer' = Append(buffer, made + 1)
            /\ UNCHANGED <<chunk, line, played, cut>>
        <4>1. made < MaxFrames /\ MaxFrames \in Nat
          BY <2>2, Bounds DEF Feed
        <4>2. made + 1 \in Frame
          BY <1>1, <4>1 DEF Frame
        <4> QED BY <2>2, <4>2 DEF Feed, lineVars
      <3>2. Ahead' = Append(Ahead, made + 1)
        <4> DEFINE one == <<made + 1>>
                   sent == line \o chunk
        <4>1. /\ one \in Frames /\ Append(buffer, made + 1) = buffer \o one
              /\ Append(Ahead, made + 1) = Ahead \o one
          BY <1>1, <1>2, <3>1, OneMore, JustOne
        <4>2. sent \in Frames /\ Ahead = sent \o buffer /\ Ahead' = sent \o buffer'
          BY <1>2, <3>1 DEF Ahead
        <4> HIDE DEF one, sent
        <4>3. (sent \o buffer) \o one = sent \o (buffer \o one)
          BY <1>1, <4>1, <4>2, Regrouped
        <4> QED BY <3>1, <4>1, <4>2, <4>3
      <3>3. /\ Len(Append(Ahead, made + 1)) = Len(Ahead) + 1
            /\ \A i \in 1..Len(Ahead) : Append(Ahead, made + 1)[i] = Ahead[i]
            /\ Append(Ahead, made + 1)[Len(Ahead) + 1] = made + 1
            /\ ToSet(Append(Ahead, made + 1)) = ToSet(Ahead) \cup {made + 1}
        BY <1>2, <3>1, OneMore
      <3>4. \A i \in 1..Len(Ahead) : Ahead[i] \in 1..made
        BY <1>2, <1>3
      <3>5. Increasing(Ahead')
        <4>1. \A i \in 1..Len(Ahead) : Ahead[i] < made + 1
          BY <1>1, <3>4
        <4> QED BY <1>2, <1>3, <3>1, <3>2, <4>1, IncreasingAppend
      <3>6. \A p \in played', i \in 1..Len(Ahead') : p < Ahead'[i]
        <4> TAKE p \in played', i \in 1..Len(Ahead')
        <4>1. p \in played /\ p < made + 1
          BY <1>1, <1>3, <3>1
        <4>2. i \in 1..Len(Ahead) \/ i = Len(Ahead) + 1
          BY <1>2, <3>2, <3>3
        <4> QED BY <1>3, <3>2, <3>3, <4>1, <4>2
      <3>7. 1..made' = (1..made) \cup {made + 1} /\ made + 1 \notin 1..made
        BY <1>1, <3>1
      <3>8. /\ played' \cup ToSet(Ahead') \cup cut' = 1..made'
            /\ (played' \cup ToSet(Ahead')) \cap cut' = {}
        BY <1>3, <2>1, <3>1, <3>2, <3>3, <3>7
      <3> QED BY <1>3, <3>1, <3>5, <3>6, <3>8 DEF OrderInv
    <2>3. CASE Interrupt
      <3>1. /\ buffer' = <<>> /\ chunk' = <<>> /\ line' = <<>>
            /\ cut' = cut \cup ToSet(buffer) \cup ToSet(chunk) \cup ToSet(line)
            /\ UNCHANGED <<played, made>>
        BY <2>3 DEF Interrupt, ChunkCleared
      <3>2. Ahead' = <<>>
        <4>1. <<>> \o <<>> = <<>>
          BY Empty, ConcatEmptySeq DEF Frames
        <4> QED BY <3>1, <4>1 DEF Ahead
      <3>3. /\ Increasing(Ahead') /\ ToSet(Ahead') = {}
            /\ \A p \in played', i \in 1..Len(Ahead') : p < Ahead'[i]
        BY <3>2, Empty
      <3>4. played \cap ToSet(Ahead) = {}
        <4>1. ASSUME NEW p \in played, p \in ToSet(Ahead)
              PROVE  FALSE
          <5>1. PICK i \in 1..Len(Ahead) : p = Ahead[i]
            BY <1>2, <4>1
          <5>2. p < Ahead[i] /\ p \in Nat
            BY <1>1, <1>3, <5>1
          <5> QED BY <5>1, <5>2
        <4> QED BY <4>1
      <3>5. cut' = cut \cup ToSet(Ahead)
        BY <1>2, <3>1
      <3>6. /\ played' \cup ToSet(Ahead') \cup cut' = 1..made'
            /\ (played' \cup ToSet(Ahead')) \cap cut' = {}
        BY <1>3, <2>1, <3>1, <3>3, <3>4, <3>5
      <3> QED BY <1>3, <3>1, <3>3, <3>6 DEF OrderInv
    <2>4. CASE TakeFrame
      <3> DEFINE batch == Append(chunk, Head(buffer))
      <3>1. batch \in Frames /\ batch \o buffer' = chunk \o buffer /\ buffer' \in Frames
        BY <2>4, FrameTaken
      <3>2. /\ UNCHANGED <<played, cut, made, loop>>
            /\ \/ line' = line \o batch /\ chunk' = <<>>
               \/ line' = line /\ chunk' = batch
        BY <2>4, FrameTaken
      <3> HIDE DEF batch
      <3>3. Ahead = line \o (batch \o buffer')
        <4>1. (line \o chunk) \o buffer = line \o (chunk \o buffer)
          BY <1>1, Regrouped
        <4> QED BY <3>1, <4>1 DEF Ahead
      <3>4. (line \o batch) \o buffer' = line \o (batch \o buffer')
        BY <1>1, <3>1, Regrouped
      <3>5. line' \o chunk' = line \o batch
        <4>1. CASE line' = line \o batch /\ chunk' = <<>>
          <5>1. line \o batch \in Frames
            BY <1>1, <3>1, Joined
          <5>2. (line \o batch) \o <<>> = line \o batch
            BY <5>1, ConcatEmptySeq DEF Frames
          <5> QED BY <4>1, <5>2
        <4>2. CASE line' = line /\ chunk' = batch
          BY <4>2
        <4> QED BY <3>2, <4>1, <4>2
      <3>6. Ahead' = Ahead
        BY <3>3, <3>4, <3>5 DEF Ahead
      <3> QED BY <3>2, <3>6, SameOrder
    <2>5. CASE Sent
      <3>1. UNCHANGED <<line, chunk, buffer, played, cut, made>>
        BY <2>5, WriteSent DEF lineVars
      <3>2. Ahead' = Ahead
        BY <3>1 DEF Ahead
      <3> QED BY <3>1, <3>2, SameOrder
    <2>6. CASE Tick
      <3>1. /\ \/ UNCHANGED <<line, played>>
               \/ line # <<>> /\ line' = Tail(line) /\ played' = played \cup {Head(line)}
            /\ UNCHANGED <<made, buffer, chunk, loop, cut>>
        BY <2>6, Ticked
      <3>2. CASE UNCHANGED <<line, played>>
        <4>1. Ahead' = Ahead
          BY <3>1, <3>2 DEF Ahead
        <4> QED BY <3>1, <3>2, <4>1, SameOrder
      <3>3. CASE line # <<>> /\ line' = Tail(line) /\ played' = played \cup {Head(line)}
        <4>1. Ahead' = Tail(Ahead) /\ Head(Ahead) = Head(line) /\ Ahead # <<>>
          <5>1. /\ Tail(line) \o chunk = Tail(line \o chunk)
                /\ Head(line \o chunk) = Head(line) /\ line \o chunk # <<>>
            BY <1>1, <3>3, TailOfJoined
          <5>2. /\ Tail(line \o chunk) \o buffer = Tail((line \o chunk) \o buffer)
                /\ Head((line \o chunk) \o buffer) = Head(line \o chunk)
                /\ (line \o chunk) \o buffer # <<>>
            BY <1>1, <1>2, <5>1, TailOfJoined
          <5>3. Ahead' = (Tail(line) \o chunk) \o buffer
            BY <3>1, <3>3 DEF Ahead
          <5> QED BY <5>1, <5>2, <5>3 DEF Ahead
        <4> DEFINE h == Head(Ahead)
                   t == Tail(Ahead)
        <4>2. /\ t \in Frames /\ Len(t) = Len(Ahead) - 1 /\ h = Ahead[1] /\ h \in Frame
              /\ ToSet(Ahead) = {h} \cup ToSet(t)
              /\ \A i \in 1..(Len(Ahead) - 1) : t[i] = Ahead[i + 1]
          BY <1>2, <4>1, OneLess
        <4>3. Increasing(t) /\ \A i \in 1..Len(t) : h < t[i]
          BY <1>2, <1>3, <4>1, IncreasingTail
        <4>4. Ahead' = t /\ played' = played \cup {h} /\ cut' = cut /\ made' = made
          BY <3>1, <3>3, <4>1
        <4>5. 1 \in 1..Len(Ahead)
          BY <1>2, <4>1, Parts
        <4> HIDE DEF h, t
        <4>6. \A p \in played : p < h
          BY <1>3, <4>2, <4>5
        <4>7. \A p \in played \cup {h}, i \in 1..Len(t) : p < t[i]
          <5> TAKE p \in played \cup {h}, i \in 1..Len(t)
          <5>1. t[i] = Ahead[i + 1] /\ i + 1 \in 1..Len(Ahead)
            BY <1>2, <4>2
          <5> QED BY <1>3, <4>3, <5>1
        <4>8. /\ (played \cup {h}) \cup ToSet(t) \cup cut = 1..made
              /\ ((played \cup {h}) \cup ToSet(t)) \cap cut = {}
          BY <1>3, <2>1, <4>2
        <4>9. \E m \in (played \cup {h}) \cup {0} : \A p \in played \cup {h} : p <= m
          <5>1. h \in Nat /\ \A p \in played : p \in Nat
            BY <1>1, <4>2, Bounds
          <5>2. \A p \in played \cup {h} : p <= h
            BY <4>6, <5>1
          <5> QED BY <5>2
        <4>10. Increasing(Ahead') /\ \A p \in played', i \in 1..Len(Ahead') : p < Ahead'[i]
          BY <4>3, <4>4, <4>7
        <4>11. /\ played' \cup ToSet(Ahead') \cup cut' = 1..made'
               /\ (played' \cup ToSet(Ahead')) \cap cut' = {}
          BY <4>4, <4>8
        <4>12. \E m \in played' \cup {0} : \A p \in played' : p <= m
          BY <4>4, <4>9
        <4> QED BY <4>10, <4>11, <4>12 DEF OrderInv
      <3> QED BY <3>1, <3>2, <3>3
    <2>7. CASE Idles
      <3>1. /\ UNCHANGED <<line, chunk, played, cut, made>>
            /\ buffer' = buffer \/ (buffer' = <<>> /\ loop' = "closed")
        BY <2>7, SenderIdle DEF lineVars
      <3>2. CASE buffer' = buffer
        <4>1. Ahead' = Ahead
          BY <3>1, <3>2 DEF Ahead
        <4> QED BY <3>1, <4>1, SameOrder
      <3>3. CASE buffer' = <<>> /\ loop' = "closed"
        <4> DEFINE s == line \o chunk
        <4>1. Ahead' = s \o <<>> /\ Ahead = s \o buffer /\ s \in Frames
          BY <1>2, <3>1, <3>3 DEF Ahead
        <4>2. s \o <<>> = s
          BY <1>2, ConcatEmptySeq DEF Frames
        <4> HIDE DEF s
        <4>3. /\ Len(Ahead) = Len(s) + Len(buffer) /\ Len(s) \in Nat /\ Len(buffer) \in Nat
              /\ \A i \in 1..Len(s) : Ahead[i] = s[i]
              /\ ToSet(Ahead) = ToSet(s) \cup ToSet(buffer)
          BY <1>1, <4>1, Joined, Parts
        <4>4. Increasing(s)
          BY <1>1, <1>3, <4>1, IncreasingPrefix
        <4>5. \A p \in played, i \in 1..Len(s) : p < s[i]
          <5> TAKE p \in played, i \in 1..Len(s)
          <5>1. i \in 1..Len(Ahead)
            BY <4>3
          <5> QED BY <1>3, <4>3, <5>1
        <4>6. /\ played \cup ToSet(s) \cup cut \subseteq 1..made
              /\ (played \cup ToSet(s)) \cap cut = {}
          BY <1>3, <4>3
        <4>7. Ahead' = s
          BY <4>1, <4>2
        <4> QED BY <1>3, <3>1, <3>3, <4>4, <4>5, <4>6, <4>7 DEF OrderInv
      <3> QED BY <3>1, <3>2, <3>3
    <2> QED BY <1>4, <2>2, <2>3, <2>4, <2>5, <2>6, <2>7, Moves
  <1> QED BY <1>4, <1>5, OpenMoves

----------------------------------------------------------------------------
(* What a mark or the playout accounts for                                 *)

LEMMA CoverStep ==
    ASSUME TypeOK, TypeOK', BacklogInv, CoverInv, [Next]_vars
    PROVE  CoverInv'
  <1>1. /\ line \in Frames /\ chunk \in Frames /\ buffer \in Frames /\ sending.frames \in Frames
        /\ Len(line) \in Nat /\ Len(chunk) \in Nat /\ Len(sending.frames) \in Nat
        /\ InFlight \in Nat /\ Since \in Nat /\ playout \in Nat /\ since_mark \in Nat
        /\ carrier \in {"twilio", "exotel", "teler"} /\ late \in Nat
    BY Typed
  <1>2. /\ pump = "clear" => line = <<>> /\ chunk = <<>> /\ buffer = <<>>
        /\ carrier = "twilio" => chunk = <<>> /\ (sending.stage = "media" => Len(sending.frames) = 1)
        /\ carrier = "teler" /\ loop # "closed" /\ buffer = <<>> => chunk = <<>>
        /\ sending.stage = "media" /\ line # <<>> => Last(sending.frames) = Last(line)
        /\ carrier = "teler" => Len(line) <= playout + InFlight + late
        /\ carrier # "teler" /\ loop # "closed" /\ Covered >= 1 => line[Covered] \in marks
    BY DEF CoverInv
  <1>3. Covered \in Int /\ Covered <= Len(line)
    BY <1>1 DEF Covered
  <1>4. CASE Feed
    <2>1. /\ pump = "run" /\ buffer' = Append(buffer, made + 1) /\ made + 1 \in Frame
          /\ UNCHANGED <<carrier, chunk, sending, since_mark, ackVars, pump, loop, line, late>>
      <3>1. made < MaxFrames /\ MaxFrames \in Nat /\ made \in Nat
        BY <1>4, Bounds, Typed DEF Feed
      <3>2. made + 1 \in Frame
        BY <3>1 DEF Frame
      <3> QED BY <1>4, <3>2 DEF Feed, lineVars
    <2>2. buffer' # <<>>
      <3>1. Len(buffer') = Len(buffer) + 1 /\ buffer' \in Frames /\ Len(buffer) \in Nat
        BY <1>1, <2>1, OneMore, Parts
      <3> QED BY <3>1, Empty
    <2>3. InFlight' = InFlight /\ Since' = Since /\ Covered' = Covered
      BY <2>1 DEF InFlight, Since, Covered
    <2> QED BY <1>2, <2>1, <2>2, <2>3 DEF CoverInv, ackVars
  <1>5. CASE Interrupt
    <2>1. /\ buffer' = <<>> /\ chunk' = <<>> /\ line' = <<>> /\ playout' = 0 /\ pump' = "clear"
          /\ late' = 0
          /\ UNCHANGED <<carrier, sending, since_mark, marks, loop>>
      BY <1>5 DEF Interrupt, ChunkCleared
    <2>2. InFlight' = InFlight /\ Since' = Since
      BY <2>1 DEF InFlight, Since
    <2>3. Len(line') = 0
      BY <2>1, Empty, Zenon
    <2>4. ~(Covered' >= 1) /\ Len(line') <= playout' + InFlight' + late'
      BY <1>1, <2>1, <2>2, <2>3 DEF Covered
    <2> QED BY <1>2, <2>1, <2>4 DEF CoverInv
  <1>6. CASE TakeFrame
    <2> DEFINE batch == Append(chunk, Head(buffer))
    <2>1. /\ batch \in Frames /\ Len(batch) = Len(chunk) + 1 /\ batch # <<>>
          /\ Len(buffer) >= 1 /\ InFlight = 0
          /\ UNCHANGED <<carrier, made, paused, since_mark, ackVars, pump, interrupts, loop, late,
                         played, cut>>
      BY <1>6, FrameTaken
    <2>2. \/ /\ Flushes(batch, buffer')
             /\ line' = line \o batch /\ chunk' = <<>>
             /\ sending' = [stage |-> "media", frames |-> batch] /\ InFlight' = Len(batch)
          \/ /\ ~Flushes(batch, buffer')
             /\ line' = line /\ chunk' = batch /\ sending' = sending /\ InFlight' = 0
      BY <1>6, FrameTaken
    <2> HIDE DEF batch
    <2>3. /\ pump' # "clear" /\ Since' = Since
          /\ marks' = marks /\ playout' = playout /\ late' = late
      <3>1. pump # "clear"
        <4>1. buffer # <<>>
          BY <1>6 DEF TakeFrame
        <4> QED BY <1>2, <4>1
      <3> QED BY <2>1, <3>1 DEF Since, ackVars
    <2>4. CASE /\ line' = line \o batch /\ chunk' = <<>>
               /\ sending' = [stage |-> "media", frames |-> batch] /\ InFlight' = Len(batch)
      <3>1. /\ Len(line') = Len(line) + Len(batch) /\ line' \in Frames
            /\ \A i \in 1..Len(line) : line'[i] = line[i]
            /\ \A i \in 1..Len(batch) : line'[Len(line) + i] = batch[i]
        <4> DEFINE both == line \o batch
        <4>1. /\ Len(both) = Len(line) + Len(batch) /\ both \in Frames
              /\ \A i \in 1..Len(line) : both[i] = line[i]
              /\ \A i \in 1..Len(batch) : both[Len(line) + i] = batch[i]
          BY <1>1, <2>1, Joined
        <4> HIDE DEF both
        <4>2. line' = both
          BY <2>4 DEF both
        <4> QED BY <4>1, <4>2
      <3>2. Covered' = Covered
        BY <1>1, <2>1, <2>3, <2>4, <3>1 DEF Covered
      <3>3. Last(sending'.frames) = Last(line')
        <4>1. Len(batch) \in 1..Len(batch)
          BY <1>1, <2>1
        <4> QED BY <2>4, <3>1, <4>1 DEF Last
      <3>4. Covered >= 1 => line'[Covered] = line[Covered]
        BY <1>1, <1>3, <3>1
      <3>5. carrier = "twilio" => Len(sending'.frames) = 1
        <4>1. carrier = "twilio" => Len(chunk) = 0
          BY <1>2, Empty
        <4> QED BY <1>1, <2>1, <2>4, <4>1
      <3>6. carrier = "teler" => Len(line') <= playout' + InFlight' + late'
        BY <1>1, <1>2, <2>1, <2>3, <2>4, <3>1
      <3> QED BY <1>2, <2>1, <2>3, <2>4, <3>2, <3>3, <3>4, <3>5, <3>6 DEF CoverInv
    <2>5. CASE /\ ~Flushes(batch, buffer')
               /\ line' = line /\ chunk' = batch /\ sending' = sending /\ InFlight' = 0
      <3>1. carrier # "twilio" /\ (carrier = "teler" => buffer' # <<>>)
        BY <2>5 DEF Flushes, SendsTail
      <3>2. Covered' = Covered
        BY <2>1, <2>3, <2>5 DEF Covered
      <3> QED BY <1>2, <2>1, <2>3, <2>5, <3>1, <3>2 DEF CoverInv
    <2> QED BY <2>2, <2>4, <2>5
  <1>7. CASE Sent
    <2>1. /\ UNCHANGED <<carrier, buffer, chunk, pump, loop, line, late>>
          /\ sending'.stage # "media" /\ InFlight' = 0
      BY <1>7, WriteSent DEF lineVars
    <2>2. CASE TelerSent
      <3>1. /\ carrier = "teler" /\ playout' = playout + Len(sending.frames)
            /\ InFlight = Len(sending.frames)
        BY <2>2 DEF TelerSent, MediaSent, Extended, InFlight
      <3>2. Len(line') <= playout' + InFlight' + late'
        BY <1>1, <1>2, <2>1, <3>1
      <3> QED BY <1>2, <2>1, <3>1, <3>2 DEF CoverInv
    <2>3. CASE ExotelSent \/ (TwilioSent /\ since_mark + 1 = MarkEvery)
      <3>1. /\ carrier # "teler" /\ sending.stage = "media" /\ Since' = 0
            /\ marks' = marks \cup {Last(sending.frames)}
        BY <2>1, <2>3 DEF ExotelSent, TwilioSent, MediaSent, Mark, Since
      <3>2. Covered' = Len(line)
        BY <1>1, <2>1, <3>1 DEF Covered
      <3>3. Len(line) >= 1 => line[Len(line)] \in marks'
        <4>1. Len(line) >= 1 => line # <<>>
          BY Empty
        <4>2. line # <<>> => Last(sending.frames) = line[Len(line)]
          BY <1>2, <3>1 DEF Last
        <4> QED BY <3>1, <4>1, <4>2
      <3> QED BY <1>2, <2>1, <3>1, <3>2, <3>3 DEF CoverInv
    <2>4. CASE TwilioSent /\ since_mark + 1 # MarkEvery
      <3>1. /\ carrier = "twilio" /\ InFlight = 1 /\ marks' = marks
            /\ Since = since_mark /\ Since' = since_mark + 1
        BY <1>2, <2>1, <2>4 DEF TwilioSent, MediaSent, Since, InFlight, ackVars
      <3>2. Covered' = Covered
        BY <1>1, <2>1, <3>1 DEF Covered
      <3> QED BY <1>2, <2>1, <3>1, <3>2 DEF CoverInv
    <2>5. CASE MarkSent
      <3>1. InFlight = 0 /\ UNCHANGED <<since_mark, marks, playout>>
        BY <2>5 DEF MarkSent, InFlight, ackVars
      <3>2. Covered' = Covered
        BY <2>1, <3>1 DEF Covered, Since
      <3> QED BY <1>2, <2>1, <3>1, <3>2 DEF CoverInv
    <2> QED BY <1>7, <2>2, <2>3, <2>4, <2>5 DEF Sent
  <1>8. CASE Tick
    <2>1. /\ \/ line' = line /\ late' = IF line = <<>> THEN 0 ELSE late + 1
             \/ line # <<>> /\ line' = Tail(line) /\ late' = IF line' = <<>> THEN 0 ELSE late
          /\ playout' = IF playout = 0 THEN 0 ELSE playout - 1
          /\ UNCHANGED <<carrier, chunk, buffer, sending, since_mark, marks, pump, loop>>
      BY <1>8, Ticked
    <2>2. InFlight' = InFlight /\ Since' = Since
      BY <2>1 DEF InFlight, Since
    <2>3. CASE line' = line /\ late' = IF line = <<>> THEN 0 ELSE late + 1
      <3>1. Covered' = Covered
        BY <2>2, <2>3 DEF Covered
      <3>2. line = <<>> => Len(line) = 0
        BY Empty
      <3>3. carrier = "teler" => Len(line') <= playout' + InFlight' + late'
        <4>1. playout' = IF playout = 0 THEN 0 ELSE playout - 1
          BY <2>1
        <4>2. CASE line = <<>>
          <5>1. late' = 0
            BY <2>3, <4>2
          <5> QED BY <1>1, <2>2, <2>3, <3>2, <4>1, <4>2, <5>1
        <4>3. CASE line # <<>>
          <5>1. late' = late + 1
            BY <2>3, <4>3
          <5> QED BY <1>1, <1>2, <2>2, <2>3, <4>1, <5>1
        <4> QED BY <4>2, <4>3
      <3> QED BY <1>2, <2>1, <2>3, <3>1, <3>3 DEF CoverInv
    <2>4. CASE line # <<>> /\ line' = Tail(line) /\ late' = IF line' = <<>> THEN 0 ELSE late
      <3>1. /\ line' = Tail(line) /\ Len(line') = Len(line) - 1
            /\ \A i \in 1..(Len(line) - 1) : line'[i] = line[i + 1]
        BY <1>1, <2>1, <2>4, OneLess
      <3>2. Len(line) >= 1
        <4>1. Len(line) # 0
          BY <1>1, <2>4, Parts
        <4> QED BY <1>1, <4>1
      <3>3. Covered' = Covered - 1
        <4>1. Len(line') = Len(line) - 1 /\ Len(line) \in Nat /\ InFlight \in Nat /\ Since \in Nat
          BY <1>1, <3>1
        <4> QED BY <2>2, <4>1 DEF Covered
      <3>4. Covered' >= 1 => line'[Covered'] = line[Covered]
        <4>1. Covered' >= 1 => Covered' \in 1..(Len(line) - 1) /\ Covered' + 1 = Covered
          BY <1>1, <1>3, <3>2, <3>3
        <4> QED BY <3>1, <4>1
      <3>5. line' # <<>> => Last(line') = Last(line)
        <4>1. line' # <<>> => Len(line) - 1 \in 1..(Len(line) - 1) /\ (Len(line) - 1) + 1 = Len(line)
          <5>1. line' \in Frames
            BY DEF TypeOK, Frames
          <5>2. line' # <<>> => Len(line') # 0
            BY <5>1, Parts
          <5> QED BY <1>1, <3>1, <3>2, <5>2
        <4> QED BY <3>1, <4>1 DEF Last
      <3>6. carrier = "teler" => Len(line') <= playout' + InFlight' + late'
        <4>1. line' = <<>> => Len(line') = 0
          BY Empty
        <4>2. Len(line') = Len(line) - 1
          BY <3>1
        <4>3. playout' = IF playout = 0 THEN 0 ELSE playout - 1
          BY <2>1
        <4>4. Len(line) \in Nat /\ InFlight \in Nat /\ playout \in Nat /\ late \in Nat
          BY <1>1
        <4>5. CASE line' = <<>>
          <5>1. late' = 0
            BY <2>4, <4>5
          <5> QED BY <2>2, <4>1, <4>3, <4>4, <4>5, <5>1
        <4>6. CASE line' # <<>>
          <5>1. late' = late
            BY <2>4, <4>6
          <5>2. carrier = "teler" => Len(line) <= playout + InFlight + late
            BY <1>2
          <5> QED BY <2>2, <4>2, <4>3, <4>4, <5>1, <5>2
        <4> QED BY <4>5, <4>6
      <3>7. pump # "clear"
        BY <1>2, <2>4
      <3>8. Covered' >= 1 => Covered >= 1
        BY <1>3, <3>3
      <3> QED BY <1>2, <2>1, <2>4, <3>4, <3>5, <3>6, <3>7, <3>8 DEF CoverInv
    <2> QED BY <2>1, <2>3, <2>4
  <1>9. CASE MarkEchoed
    <2>1. PICK m \in marks : (\A f \in ToSet(line) : f > m) /\ marks' = marks \ {m}
      BY <1>9 DEF MarkEchoed
    <2>2. UNCHANGED <<carrier, chunk, buffer, sending, since_mark, playout, pump, loop, line, late>>
      BY <1>9 DEF MarkEchoed, senderVars, lineVars
    <2>3. InFlight' = InFlight /\ Since' = Since /\ Covered' = Covered
      BY <2>2 DEF InFlight, Since, Covered
    <2>4. Covered >= 1 => line[Covered] # m
      <3>1. Covered >= 1 => Covered \in 1..Len(line)
        BY <1>1, <1>3
      <3>2. \A i \in 1..Len(line) : line[i] \in ToSet(line) /\ line[i] \in Nat
        BY <1>1, Parts, Bounds
      <3>3. m \in Nat
        BY <2>1, Bounds DEF TypeOK
      <3> QED BY <2>1, <3>1, <3>2, <3>3
    <2> QED BY <1>2, <2>1, <2>2, <2>3, <2>4 DEF CoverInv
  <1>10. CASE Cleared
    <2>1. /\ pump = "clear" /\ pump' = "run" /\ UNCHANGED <<carrier, chunk, buffer, sending, since_mark,
                                                       playout, loop, line, late>>
      BY <1>10 DEF Cleared, senderVars, lineVars
    <2>2. InFlight' = InFlight /\ Since' = Since /\ Covered' = Covered
      BY <2>1 DEF InFlight, Since, Covered
    <2>3. Len(line) = 0
      BY <1>2, <2>1, Empty
    <2>4. ~(Covered' >= 1)
      BY <1>1, <1>3, <2>2, <2>3
    <2> QED BY <1>2, <2>1, <2>2, <2>4 DEF CoverInv
  <1>11. CASE \/ Pause(TRUE) \/ Pause(FALSE) \/ Goodbye \/ HangUp \/ CallerLeaves
              \/ DrainFinishes \/ DrainGivesUp \/ UNCHANGED vars
    <2>1. /\ UNCHANGED <<carrier, chunk, sending, since_mark, playout, pump, line, late>>
          /\ \/ UNCHANGED <<buffer, marks>> /\ (loop' # "closed" => loop # "closed")
             \/ loop' = "closed" /\ buffer' = <<>>
      BY <1>11 DEF Pause, Goodbye, HangUp, CallerLeaves, DrainFinishes, DrainGivesUp, Goto,
                   senderVars, ackVars, lineVars, vars
    <2>2. InFlight' = InFlight /\ Since' = Since /\ Covered' = Covered
      BY <2>1 DEF InFlight, Since, Covered
    <2> QED BY <1>2, <2>1, <2>2 DEF CoverInv
  <1> QED BY <1>4, <1>5, <1>6, <1>7, <1>8, <1>9, <1>10, <1>11, Moves DEF Idles

----------------------------------------------------------------------------
(* The theorems                                                            *)

LEMMA PlaybackInit == Init => PlaybackInv
  <1> SUFFICES ASSUME Init PROVE PlaybackInv
    OBVIOUS
  <1>1. /\ carrier \in Carriers /\ made = 0 /\ buffer = <<>> /\ chunk = <<>> /\ line = <<>>
        /\ sending = AtRest /\ since_mark = 0 /\ marks = {} /\ playout = 0 /\ late = 0
        /\ played = {} /\ cut = {}
        /\ pump = "run" /\ interrupts = 0 /\ loop = "open" /\ paused = FALSE
    BY DEF Init
  <1>2. /\ Len(buffer) = 0 /\ Len(chunk) = 0 /\ Len(line) = 0
        /\ InFlight = 0 /\ Since = 0 /\ Covered = 0
    BY <1>1, Empty DEF InFlight, AtRest, Since, Covered
  <1>3. TypeOK
    <2>1. AtRest \in [stage : {"none", "media", "mark"}, frames : Frames]
      BY Empty DEF AtRest
    <2>2. Len(chunk) < ChunkFrames /\ since_mark \in 0..(MarkEvery - 1)
      BY <1>1, <1>2, Bounds
    <2>3. /\ made \in 0..MaxFrames /\ playout \in 0..MaxFrames
          /\ interrupts \in 0..MaxInterrupts /\ late \in 0..MaxLate
      BY <1>1, Bounds
    <2>4. buffer \in Frames /\ chunk \in Frames /\ line \in Frames
      BY <1>1, Empty
    <2> QED BY <1>1, <2>1, <2>2, <2>3, <2>4 DEF TypeOK, Frames
  <1>4. BacklogInv
    BY <1>1, <1>2 DEF BacklogInv, AtRest
  <1>5. OrderInv
    <2>1. Ahead = <<>>
      <3>1. <<>> \o <<>> = <<>>
        BY Empty, ConcatEmptySeq DEF Frames
      <3> QED BY <1>1, <3>1 DEF Ahead
    <2>2. Increasing(Ahead) /\ ToSet(Ahead) = {} /\ 1..Len(Ahead) = {}
      BY <2>1, Empty
    <2>3. 1..made = {}
      BY <1>1
    <2> QED BY <1>1, <2>2, <2>3 DEF OrderInv
  <1>6. CoverInv
    BY <1>1, <1>2, PlaybackAssumption DEF CoverInv, AtRest
  <1> QED BY <1>3, <1>4, <1>5, <1>6 DEF PlaybackInv

LEMMA PlaybackStep == PlaybackInv /\ [Next]_vars => PlaybackInv'
  <1> SUFFICES ASSUME PlaybackInv, [Next]_vars PROVE PlaybackInv'
    OBVIOUS
  <1>1. TypeOK /\ BacklogInv /\ OrderInv /\ CoverInv
    BY DEF PlaybackInv
  <1>2. TypeOK' /\ BacklogInv'
    BY <1>1, BacklogStep
  <1>3. OrderInv' /\ CoverInv'
    BY <1>1, <1>2, OrderStep, CoverStep
  <1> QED BY <1>2, <1>3 DEF PlaybackInv

\* The greatest frame that was heard is the last.
LEMMA LastOfPlayed ==
    ASSUME TypeOK, OrderInv
    PROVE  /\ LastPlayed \in played \cup {0} /\ LastPlayed \in Nat
           /\ \A p \in played : p <= LastPlayed
  <1>1. \A p \in played \cup {0} : p \in Nat
    BY Bounds DEF TypeOK
  <1>2. PICK m \in played \cup {0} : \A p \in played : p <= m
    BY DEF OrderInv
  <1>3. \A y \in played \cup {0} : m >= y
    BY <1>1, <1>2
  <1>4. /\ LastPlayed \in played \cup {0}
        /\ \A y \in played \cup {0} : LastPlayed >= y
    BY <1>2, <1>3 DEF LastPlayed, Max
  <1> QED BY <1>1, <1>4

LEMMA OrderIsNothingLost ==
    ASSUME TypeOK, OrderInv
    PROVE  NothingLost
  <1> DEFINE order == <<LastPlayed>> \o Ahead
  <1>1. /\ Ahead \in Frames /\ Len(Ahead) \in Nat
        /\ \A i \in 1..Len(Ahead) : Ahead[i] \in Nat /\ Ahead[i] >= 1
    BY AheadTyped, Parts, Bounds
  <1>2. LastPlayed \in played \cup {0} /\ LastPlayed \in Nat
    BY LastOfPlayed
  <1>3. /\ Len(order) = Len(Ahead) + 1 /\ order[1] = LastPlayed
        /\ \A i \in 1..Len(Ahead) : order[i + 1] = Ahead[i]
    <2> DEFINE u == <<LastPlayed>>
    <2>1. u \in Seq(Nat) /\ Len(u) = 1 /\ u[1] = LastPlayed
      BY <1>2
    <2>2. Ahead \in Seq(Nat)
      <3>1. Frame \subseteq Nat
        BY Bounds
      <3> QED BY <1>1, <3>1, SeqMonotonic DEF Frames
    <2> HIDE DEF u
    <2>3. /\ Len(u \o Ahead) = Len(u) + Len(Ahead)
          /\ \A i \in 1..(Len(u) + Len(Ahead)) :
               (u \o Ahead)[i] = IF i <= Len(u) THEN u[i] ELSE Ahead[i - Len(u)]
      BY <2>1, <2>2, ConcatProperties
    <2>4. (u \o Ahead)[1] = LastPlayed
      BY <1>1, <2>1, <2>3
    <2>5. \A i \in 1..Len(Ahead) : (u \o Ahead)[i + 1] = Ahead[i]
      BY <1>1, <2>1, <2>3
    <2>6. Len(u \o Ahead) = Len(Ahead) + 1
      BY <1>1, <2>1, <2>3
    <2> QED BY <2>4, <2>5, <2>6 DEF u
  <1> HIDE DEF order
  <1>4. \A i \in 1..(Len(order) - 1) : order[i] < order[i + 1]
    <2> TAKE i \in 1..(Len(order) - 1)
    <2>1. i \in 1..Len(Ahead) /\ order[i + 1] = Ahead[i]
      BY <1>1, <1>3
    <2>2. CASE i = 1
      <3>1. LastPlayed < Ahead[1]
        BY <1>1, <1>2, <2>1, <2>2 DEF OrderInv
      <3> QED BY <1>3, <2>1, <2>2, <3>1
    <2>3. CASE i # 1
      <3>1. i - 1 \in 1..Len(Ahead) /\ (i - 1) + 1 = i /\ i - 1 < i
        BY <1>1, <2>1, <2>3
      <3>2. order[i] = Ahead[i - 1]
        BY <1>3, <3>1
      <3> QED BY <2>1, <3>1, <3>2 DEF OrderInv, Increasing
    <2> QED BY <2>2, <2>3
  <1>5. loop # "closed" => played \cup ToSet(Ahead) \cup cut = 1..made
    BY DEF OrderInv
  <1>6. (played \cup ToSet(Ahead)) \cap cut = {}
    BY DEF OrderInv
  <1> QED BY <1>4, <1>5, <1>6 DEF NothingLost, order

\* Chunks, marks and writes have their types, and the modelled playout never
\* exceeds the frames there are.
THEOREM PlaybackTypes == Spec => []TypeOK
  BY PlaybackInit, PlaybackStep, PTL DEF Spec, PlaybackInv

\* On each carrier, what the caller heard, what the carrier holds, what is batched
\* and what is queued are all the frames that were generated, in order and once,
\* except what a confirmed barge-in discarded.
THEOREM AudioIsNotLost == Spec => []NothingLost
  <1>1. PlaybackInv => NothingLost
    BY OrderIsNothingLost DEF PlaybackInv
  <1> QED BY <1>1, PlaybackInit, PlaybackStep, PTL DEF Spec

\* When audio_currently_playing says that the goodbye was heard, all has left the
\* carrier's line but the write in flight, what no mark covers on Twilio and, on
\* Teler, what the carrier is late with: what nobody acknowledges.
THEOREM DrainWasHeard == Spec => DrainHeardIt
  <1>1. PlaybackInv /\ [Next]_vars => [DrainFinishes => LeftUnheard]_vars
    <2> SUFFICES ASSUME PlaybackInv, DrainFinishes PROVE LeftUnheard
      OBVIOUS
    <2>1. marks = {} /\ buffer = <<>> /\ ~(playout > 0) /\ loop = "drain"
      BY DEF DrainFinishes, Playing, Goto
    <2>2. /\ Len(line) \in Nat /\ InFlight \in Nat /\ Since \in Nat /\ playout \in Nat
          /\ late \in Nat /\ carrier \in {"twilio", "exotel", "teler"}
      BY Typed DEF PlaybackInv
    <2>3. carrier # "exotel" => chunk = <<>>
      BY <2>1, <2>2 DEF PlaybackInv, CoverInv
    <2>4. CASE carrier = "teler"
      <3>1. Len(line) <= playout + InFlight + late
        BY <2>4 DEF PlaybackInv, CoverInv
      <3>2. Unseen = late
        BY <2>4 DEF Unseen
      <3> QED BY <2>1, <2>2, <2>3, <3>1, <3>2 DEF LeftUnheard
    <2>5. CASE carrier # "teler"
      <3>1. ~(Covered >= 1)
        BY <2>1, <2>5 DEF PlaybackInv, CoverInv
      <3>2. Unseen = Since
        BY <2>2, <2>5 DEF Unseen, Since
      <3> QED BY <2>2, <2>3, <3>1, <3>2 DEF LeftUnheard, Covered
    <2> QED BY <2>4, <2>5
  <1> QED BY <1>1, PlaybackInit, PlaybackStep, PTL DEF Spec, DrainHeardIt
=============================================================================
