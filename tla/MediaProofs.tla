----------------------------- MODULE MediaProofs -----------------------------
(***************************************************************************)
(* Proofs about MediaSession, for every threshold of CallMetrics, number   *)
(* of events and number of cancellations.                                  *)
(***************************************************************************)
EXTENDS MediaSession, SequenceTheorems, TLAPS

Number == 1..(MaxEvents + 2)

ThreadState == [pc : {"idle", "check", "emit"}, batch : Events]
JobState == [st : {"none", "queued", "running", "done", "failed"}, batch : Events]

----------------------------------------------------------------------------
(* The invariant                                                           *)

\* What is nobody's has no events: a thread holds a batch from the drain to the
\* queue, a job from its submission to its transaction, and a job is submitted
\* only where none of its name is left.
PlaceInv ==
    /\ \A t \in Threads : thread[t].pc # "emit" => thread[t].batch = <<>>
    /\ \A j \in Jobs : job[j].st \in {"none", "done", "failed"} => job[j].batch = <<>>
    /\ writer = "asleep" => job["periodic"].batch = <<>>
    /\ job["persist"].batch = <<>>
    /\ route \notin {"final", "closed"} => job["final"].batch = <<>>

\* The summary is made once, and is the last event but for the listener's.
CountInv ==
    /\ summary = 0 => count <= MaxEvents
    /\ summary # 0 => route \in {"closing", "flush", "final", "closed"}

\* How many events there are in all places, and which.
Total == Len(buffer) + Len(thread["loop"].batch) + Len(thread["listener"].batch) + Len(queue)
           + Len(job["periodic"].batch) + Len(job["final"].batch) + Len(table) + Len(lost)

Everywhere == Range(buffer) \cup Range(thread["loop"].batch) \cup Range(thread["listener"].batch)
                \cup Range(queue) \cup Range(job["periodic"].batch)
                \cup Range(job["final"].batch) \cup Range(table) \cup Range(lost)

Accounted == Total = count /\ Everywhere = 1..count

MediaInv == TypeOK /\ PlaceInv /\ CountInv /\ Accounted

----------------------------------------------------------------------------
(* Sequences of events                                                     *)

LEMMA Bounds == MaxEvents \in Nat /\ MaxEvents >= 1 /\ MaxCancels \in Nat
  BY MediaAssumption

\* Nothing is nowhere.
LEMMA Nothing == <<>> \in Events /\ Len(<<>>) = 0 /\ Range(<<>>) = {}
  <1>1. <<>> \in Events /\ Len(<<>>) = 0
    BY EmptySeq DEF Events
  <1>2. DOMAIN <<>> = {}
    OBVIOUS
  <1> QED BY <1>1, <1>2 DEF Range

\* Two batches together have the events of both.
LEMMA Joined ==
    ASSUME NEW s \in Events, NEW t \in Events
    PROVE  /\ s \o t \in Events
           /\ Len(s) \in Nat /\ Len(t) \in Nat /\ Len(s \o t) = Len(s) + Len(t)
           /\ Range(s \o t) = Range(s) \cup Range(t)
  <1>1. s \in Seq(Number) /\ t \in Seq(Number)
    BY DEF Events, Number
  <1>2. s \o t \in Seq(Number) /\ Len(s \o t) = Len(s) + Len(t)
    BY <1>1, ConcatProperties
  <1>3. Range(s \o t) = Range(s) \cup Range(t)
    BY <1>1, RangeConcatenation
  <1>4. Len(s) \in Nat /\ Len(t) \in Nat
    BY <1>1, LenProperties
  <1> QED BY <1>2, <1>3, <1>4 DEF Events, Number

\* One event, one more, or two.
LEMMA JustOne ==
    ASSUME NEW x \in Number
    PROVE  <<x>> \in Events /\ Len(<<x>>) = 1 /\ Range(<<x>>) = {x}
  <1>1. <<x>> \in Seq(Number) /\ Len(<<x>>) = 1 /\ DOMAIN <<x>> = {1} /\ <<x>>[1] = x
    OBVIOUS
  <1> QED BY <1>1 DEF Events, Number, Range

LEMMA OneMore ==
    ASSUME NEW s \in Events, NEW x \in Number
    PROVE  /\ Append(s, x) \in Events /\ Len(s) \in Nat /\ Len(Append(s, x)) = Len(s) + 1
           /\ Range(Append(s, x)) = Range(s) \cup {x}
  <1>1. Append(s, x) = s \o <<x>>
    BY DEF Events
  <1> QED BY <1>1, JustOne, Joined

LEMMA TwoMore ==
    ASSUME NEW s \in Events, NEW x \in Number, NEW y \in Number
    PROVE  /\ s \o <<x, y>> \in Events /\ Len(s) \in Nat /\ Len(s \o <<x, y>>) = Len(s) + 2
           /\ Range(s \o <<x, y>>) = Range(s) \cup {x, y}
  <1>1. <<x, y>> \in Events /\ Len(<<x, y>>) = 2 /\ Range(<<x, y>>) = {x, y}
    <2>1. /\ <<x, y>> \in Seq(Number) /\ Len(<<x, y>>) = 2
          /\ DOMAIN <<x, y>> = {1, 2} /\ <<x, y>>[1] = x /\ <<x, y>>[2] = y
      OBVIOUS
    <2> QED BY <2>1 DEF Events, Number, Range
  <1> QED BY <1>1, Joined

\* The places, and what is counted of them.
LEMMA Places ==
    ASSUME TypeOK
    PROVE  /\ buffer \in Events /\ queue \in Events /\ table \in Events /\ lost \in Events
           /\ thread \in [Threads -> ThreadState] /\ job \in [Jobs -> JobState]
           /\ thread["loop"] \in ThreadState /\ thread["listener"] \in ThreadState
           /\ job["periodic"] \in JobState /\ job["final"] \in JobState
           /\ \A s \in Events : Len(s) \in Nat
  <1>1. \A s \in Events : Len(s) \in Nat
    BY LenProperties DEF Events
  <1> QED BY <1>1 DEF TypeOK, ThreadState, JobState, Threads, Jobs

\* The lengths that are added up are numbers.
Lengths ==
    /\ Len(buffer) \in Nat /\ Len(thread["loop"].batch) \in Nat
    /\ Len(thread["listener"].batch) \in Nat /\ Len(queue) \in Nat
    /\ Len(job["periodic"].batch) \in Nat /\ Len(job["final"].batch) \in Nat
    /\ Len(table) \in Nat /\ Len(lost) \in Nat

LEMMA LengthsAreNumbers == TypeOK => Lengths
  BY Places DEF Lengths, ThreadState, JobState

\* WrittenOnce says the same of one sequence.
LEMMA AccountedIsWrittenOnce ==
    ASSUME TypeOK
    PROVE  Accounted <=> WrittenOnce
  <1> DEFINE s1 == buffer \o thread["loop"].batch
             s2 == s1 \o thread["listener"].batch
             s3 == s2 \o queue
             s4 == s3 \o job["periodic"].batch
             s5 == s4 \o job["final"].batch
             s6 == s5 \o table
             s7 == s6 \o lost
  <1>1. /\ buffer \in Events /\ thread["loop"].batch \in Events
        /\ thread["listener"].batch \in Events /\ queue \in Events
        /\ job["periodic"].batch \in Events /\ job["final"].batch \in Events
        /\ table \in Events /\ lost \in Events
    BY Places DEF ThreadState, JobState
  <1>2. /\ s1 \in Events /\ Len(s1) = Len(buffer) + Len(thread["loop"].batch)
        /\ Range(s1) = Range(buffer) \cup Range(thread["loop"].batch)
    BY <1>1, Joined
  <1> HIDE DEF s1
  <1>3. /\ s2 \in Events /\ Len(s2) = Len(s1) + Len(thread["listener"].batch)
        /\ Range(s2) = Range(s1) \cup Range(thread["listener"].batch)
    BY <1>1, <1>2, Joined
  <1> HIDE DEF s2
  <1>4. /\ s3 \in Events /\ Len(s3) = Len(s2) + Len(queue)
        /\ Range(s3) = Range(s2) \cup Range(queue)
    BY <1>1, <1>3, Joined
  <1> HIDE DEF s3
  <1>5. /\ s4 \in Events /\ Len(s4) = Len(s3) + Len(job["periodic"].batch)
        /\ Range(s4) = Range(s3) \cup Range(job["periodic"].batch)
    BY <1>1, <1>4, Joined
  <1> HIDE DEF s4
  <1>6. /\ s5 \in Events /\ Len(s5) = Len(s4) + Len(job["final"].batch)
        /\ Range(s5) = Range(s4) \cup Range(job["final"].batch)
    BY <1>1, <1>5, Joined
  <1> HIDE DEF s5
  <1>7. /\ s6 \in Events /\ Len(s6) = Len(s5) + Len(table)
        /\ Range(s6) = Range(s5) \cup Range(table)
    BY <1>1, <1>6, Joined
  <1> HIDE DEF s6
  <1>8. /\ s7 \in Events /\ Len(s7) = Len(s6) + Len(lost)
        /\ Range(s7) = Range(s6) \cup Range(lost)
    BY <1>1, <1>7, Joined
  <1> HIDE DEF s7
  <1>9. WrittenOnce <=> Len(s7) = count /\ Range(s7) = 1..count
    BY DEF WrittenOnce, s7, s6, s5, s4, s3, s2, s1
  <1>10. Len(s7) = Total
    BY <1>2, <1>3, <1>4, <1>5, <1>6, <1>7, <1>8 DEF Total
  <1>11. Range(s7) = Everywhere
    BY <1>2, <1>3, <1>4, <1>5, <1>6, <1>7, <1>8 DEF Everywhere
  <1> QED BY <1>9, <1>10, <1>11 DEF Accounted

----------------------------------------------------------------------------
(* What the steps move                                                     *)

\* The same events in the same places.
LEMMA SamePlaces ==
    ASSUME Accounted, UNCHANGED <<measure, queue, table, lost>>,
           job'["periodic"].batch = job["periodic"].batch,
           job'["final"].batch = job["final"].batch
    PROVE  Accounted'
  BY DEF Accounted, Total, Everywhere, measure

LEMMA StampKeeps ==
    ASSUME MediaInv, NEW t \in Threads, AppendBy(t),
           \/ summary = 0 /\ count < MaxEvents
           \/ summary # 0 /\ count < MaxEvents + 2
    PROVE  MediaInv'
  <1>1. /\ TypeOK /\ PlaceInv /\ CountInv /\ Accounted
        /\ thread[t].pc = "idle" /\ count' = count + 1 /\ buffer' = Append(buffer, count + 1)
        /\ thread' = [thread EXCEPT ![t].pc = "check"]
        /\ UNCHANGED <<queue, writer, job, table, teardown, lost>>
    BY DEF MediaInv, AppendBy
  <1>2. count \in Nat /\ count + 1 \in Number /\ count + 1 \in 1..(MaxEvents + 2)
    BY <1>1, Bounds DEF TypeOK, Number
  <1>3. /\ buffer' \in Events /\ Len(buffer') = Len(buffer) + 1
        /\ Range(buffer') = Range(buffer) \cup {count + 1}
    BY <1>1, <1>2, OneMore, Places
  <1>4. /\ thread' \in [Threads -> ThreadState]
        /\ \A u \in Threads : thread'[u].batch = thread[u].batch
        /\ thread'[t].batch = <<>>
        /\ \A u \in Threads \ {t} : thread'[u] = thread[u]
    BY <1>1, Places DEF ThreadState, PlaceInv
  <1>5. thread'["loop"].batch = thread["loop"].batch
        /\ thread'["listener"].batch = thread["listener"].batch
    BY <1>4 DEF Threads
  <1>6. TypeOK'
    BY <1>1, <1>2, <1>3, <1>4 DEF TypeOK, teardown, ThreadState
  <1>7. PlaceInv'
    BY <1>1, <1>4 DEF PlaceInv, teardown
  <1>8. CountInv'
    BY <1>1, <1>2, Bounds DEF CountInv, teardown
  <1>9. Accounted'
    <2>1. Total' = Total + 1
      <3>1. Lengths
        BY <1>1, LengthsAreNumbers
      <3>2. /\ queue' = queue /\ job' = job /\ table' = table /\ lost' = lost
        BY <1>1
      <3> DEFINE b == Len(buffer) b1 == Len(buffer') x == Len(thread["loop"].batch)
                 y == Len(thread["listener"].batch) q == Len(queue)
                 p == Len(job["periodic"].batch) f == Len(job["final"].batch)
                 w == Len(table) l == Len(lost)
      <3>3. /\ b \in Nat /\ x \in Nat /\ y \in Nat /\ q \in Nat /\ p \in Nat /\ f \in Nat
            /\ w \in Nat /\ l \in Nat /\ b1 = b + 1
        BY <3>1, <1>3 DEF Lengths
      <3>4. Total = b + x + y + q + p + f + w + l /\ Total' = b1 + x + y + q + p + f + w + l
        BY <1>5, <3>2, Zenon DEF Total
      <3> HIDE DEF b, b1, x, y, q, p, f, w, l
      <3> QED BY <3>3, <3>4
    <2>2. Everywhere' = Everywhere \cup {count + 1}
      BY <1>1, <1>3, <1>5 DEF Everywhere
    <2>3. 1..(count + 1) = (1..count) \cup {count + 1}
      BY <1>2
    <2> QED BY <1>1, <2>1, <2>2, <2>3 DEF Accounted
  <1> QED BY <1>6, <1>7, <1>8, <1>9 DEF MediaInv

\* A drain takes all that is buffered, or nothing; what it took is queued.
LEMMA ThreadKeeps ==
    ASSUME MediaInv, NEW t \in Threads, ThreadStep(t)
    PROVE  MediaInv'
  <1>1. TypeOK /\ PlaceInv /\ CountInv /\ Accounted
    BY DEF MediaInv
  <1>2. /\ buffer \in Events /\ queue \in Events /\ thread \in [Threads -> ThreadState]
        /\ thread[t] \in ThreadState /\ thread[t].batch \in Events
        /\ \A s \in Events : Len(s) \in Nat
    BY <1>1, Places DEF ThreadState
  <1>3. /\ UNCHANGED <<count, writer, job, table, teardown, lost>>
        /\ \A u \in Threads \ {t} : thread'[u] = thread[u]
        /\ thread' \in [Threads -> ThreadState]
        /\ buffer' \in Events /\ queue' \in Events
        /\ thread'[t].pc # "emit" => thread'[t].batch = <<>>
        /\ Len(buffer') + Len(thread'[t].batch) + Len(queue')
             = Len(buffer) + Len(thread[t].batch) + Len(queue)
        /\ Range(buffer') \cup Range(thread'[t].batch) \cup Range(queue')
             = Range(buffer) \cup Range(thread[t].batch) \cup Range(queue)
    <2>1. CASE MaybeFlush(t) /\ Len(buffer) < FlushEvery
      <3>1. /\ thread' = [thread EXCEPT ![t] = Idle] /\ thread[t].batch = <<>>
            /\ UNCHANGED <<buffer, queue, count, writer, job, table, teardown, lost>>
        BY <1>1, <2>1 DEF MaybeFlush, PlaceInv
      <3>2. Idle \in ThreadState /\ Idle.batch = <<>>
        BY Nothing DEF Idle, ThreadState
      <3> QED BY <1>2, <3>1, <3>2
    <2>2. CASE MaybeFlush(t) /\ ~(Len(buffer) < FlushEvery)
      <3>1. /\ thread' = [thread EXCEPT ![t] = [pc |-> "emit", batch |-> buffer]]
            /\ buffer' = <<>> /\ thread[t].batch = <<>>
            /\ UNCHANGED <<queue, count, writer, job, table, teardown, lost>>
        BY <1>1, <2>2 DEF MaybeFlush, Drained, PlaceInv
      <3>2. [pc |-> "emit", batch |-> buffer] \in ThreadState
        BY <1>2 DEF ThreadState
      <3>3. thread' \in [Threads -> ThreadState] /\ thread'[t].pc = "emit" /\ thread'[t].batch = buffer
        BY <1>2, <3>1, <3>2
      <3>4. \A u \in Threads \ {t} : thread'[u] = thread[u]
        BY <1>2, <3>1
      <3> QED BY <1>2, <3>1, <3>3, <3>4, Nothing
    <2>3. CASE Emit(t)
      <3>1. /\ thread' = [thread EXCEPT ![t] = Idle] /\ queue' = queue \o thread[t].batch
            /\ UNCHANGED <<buffer, count, writer, job, table, teardown, lost>>
        BY <2>3 DEF Emit
      <3>2. Idle \in ThreadState /\ Idle.batch = <<>>
        BY Nothing DEF Idle, ThreadState
      <3>3. /\ queue' \in Events /\ Len(queue') = Len(queue) + Len(thread[t].batch)
            /\ Range(queue') = Range(queue) \cup Range(thread[t].batch)
        BY <1>2, <3>1, Joined
      <3>4. thread' \in [Threads -> ThreadState] /\ thread'[t].batch = <<>>
            /\ \A u \in Threads \ {t} : thread'[u] = thread[u]
        BY <1>2, <3>1, <3>2
      <3>5. Len(buffer) \in Nat /\ Len(queue) \in Nat /\ Len(thread[t].batch) \in Nat
        BY <1>2
      <3>6. Len(buffer') + Len(thread'[t].batch) + Len(queue')
              = Len(buffer) + Len(thread[t].batch) + Len(queue)
        <4> DEFINE b == Len(buffer) q == Len(queue) h == Len(thread[t].batch)
                   b1 == Len(buffer') q1 == Len(queue') h1 == Len(thread'[t].batch)
        <4>1. b \in Nat /\ q \in Nat /\ h \in Nat
          BY <3>5
        <4>2. b1 = b /\ q1 = q + h
          BY <3>1, <3>3
        <4>3. h1 = 0
          BY <3>4, Nothing, Zenon
        <4> HIDE DEF b, q, h, b1, q1, h1
        <4>4. b1 + h1 + q1 = b + h + q
          BY <4>1, <4>2, <4>3
        <4> QED BY <4>4 DEF b, q, h, b1, q1, h1
      <3>7. Range(buffer') \cup Range(thread'[t].batch) \cup Range(queue')
              = Range(buffer) \cup Range(thread[t].batch) \cup Range(queue)
        BY <3>1, <3>3, <3>4, Nothing
      <3> QED BY <1>2, <3>1, <3>3, <3>4, <3>6, <3>7
    <2> QED BY <2>1, <2>2, <2>3 DEF ThreadStep
  <1>4. TypeOK'
    BY <1>1, <1>3 DEF TypeOK, teardown, ThreadState
  <1>5. PlaceInv' /\ CountInv'
    BY <1>1, <1>3 DEF PlaceInv, CountInv, teardown
  <1>6. Accounted'
    <2>1. thread["loop"].batch \in Events /\ thread["listener"].batch \in Events
          /\ thread'["loop"].batch \in Events /\ thread'["listener"].batch \in Events
      BY <1>2, <1>3 DEF ThreadState, Threads
    <2>2. /\ \A s \in {buffer, queue, buffer', queue', table, lost} : Len(s) \in Nat
          /\ Len(job["periodic"].batch) \in Nat /\ Len(job["final"].batch) \in Nat
          /\ Len(thread["loop"].batch) \in Nat /\ Len(thread["listener"].batch) \in Nat
          /\ Len(thread'["loop"].batch) \in Nat /\ Len(thread'["listener"].batch) \in Nat
      BY <1>1, <1>3, <2>1, Places DEF JobState
    <2>3. \/ t = "loop" /\ thread'["listener"] = thread["listener"]
          \/ t = "listener" /\ thread'["loop"] = thread["loop"]
      BY <1>3 DEF Threads
    <2>4. Total' = Total
      <3>1. Lengths
        BY <1>1, LengthsAreNumbers
      <3> DEFINE b == Len(buffer) b1 == Len(buffer') x == Len(thread["loop"].batch)
                 y == Len(thread["listener"].batch) q == Len(queue) q1 == Len(queue')
                 x1 == Len(thread'["loop"].batch) y1 == Len(thread'["listener"].batch)
                 p == Len(job["periodic"].batch) f == Len(job["final"].batch)
                 w == Len(table) l == Len(lost)
      <3>2. /\ b \in Nat /\ x \in Nat /\ y \in Nat /\ q \in Nat /\ p \in Nat /\ f \in Nat
            /\ w \in Nat /\ l \in Nat /\ b1 \in Nat /\ q1 \in Nat /\ x1 \in Nat /\ y1 \in Nat
        BY <2>2, <3>1 DEF Lengths
      <3>3. \/ b1 + x1 + q1 = b + x + q /\ y1 = y
            \/ b1 + y1 + q1 = b + y + q /\ x1 = x
        BY <1>3, <2>3, Zenon
      <3>4. /\ Total = b + x + y + q + p + f + w + l
            /\ Total' = b1 + x1 + y1 + q1 + p + f + w + l
        BY <1>3, Zenon DEF Total
      <3> HIDE DEF b, b1, x, x1, y, y1, q, q1, p, f, w, l
      <3> QED BY <3>2, <3>3, <3>4
    <2>5. Everywhere' = Everywhere
      BY <1>3, <2>3 DEF Everywhere
    <2> QED BY <1>1, <1>3, <2>4, <2>5 DEF Accounted
  <1> QED BY <1>4, <1>5, <1>6 DEF MediaInv

\* A batch leaves its job for the table or for the losses, and nothing else moves.
LEMMA BatchLeaves ==
    ASSUME TypeOK, Accounted, NEW j \in {"periodic", "final"},
           UNCHANGED <<measure, queue>>,
           job'[j].batch = <<>>, \A i \in Jobs \ {j} : job'[i].batch = job[i].batch,
           \/ table' = table \o job[j].batch /\ UNCHANGED lost
           \/ lost' = lost \o job[j].batch /\ UNCHANGED table
    PROVE  Accounted' /\ table' \in Events /\ lost' \in Events
  <1> DEFINE b == Len(buffer) x == Len(thread["loop"].batch)
             y == Len(thread["listener"].batch) q == Len(queue)
             p == Len(job["periodic"].batch) f == Len(job["final"].batch)
             p1 == Len(job'["periodic"].batch) f1 == Len(job'["final"].batch)
             w == Len(table) l == Len(lost) w1 == Len(table') l1 == Len(lost')
             m == Len(job[j].batch)
  <1>1. /\ buffer' = buffer /\ thread' = thread /\ queue' = queue /\ count' = count
    BY DEF measure
  <1>2. /\ job[j].batch \in Events /\ table \in Events /\ lost \in Events
    BY Places DEF JobState
  <1>3. /\ b \in Nat /\ x \in Nat /\ y \in Nat /\ q \in Nat /\ p \in Nat /\ f \in Nat
        /\ w \in Nat /\ l \in Nat
    BY LengthsAreNumbers DEF Lengths
  <1>4. /\ table' \in Events /\ lost' \in Events /\ m \in Nat
        /\ \/ w1 = w + m /\ l1 = l
           \/ l1 = l + m /\ w1 = w
        /\ Range(table') \cup Range(lost') = Range(table) \cup Range(lost) \cup Range(job[j].batch)
    <2>1. CASE table' = table \o job[j].batch /\ UNCHANGED lost
      <3>1. /\ table \o job[j].batch \in Events /\ m \in Nat
            /\ Len(table \o job[j].batch) = w + m
            /\ Range(table \o job[j].batch) = Range(table) \cup Range(job[j].batch)
        BY <1>2, Joined
      <3>2. table' \in Events /\ w1 = w + m /\ Range(table') = Range(table) \cup Range(job[j].batch)
        BY <2>1, <3>1, Zenon
      <3>3. lost' = lost /\ l1 = l
        BY <2>1
      <3> QED BY <1>2, <3>1, <3>2, <3>3
    <2>2. CASE lost' = lost \o job[j].batch /\ UNCHANGED table
      <3>1. /\ lost \o job[j].batch \in Events /\ m \in Nat
            /\ Len(lost \o job[j].batch) = l + m
            /\ Range(lost \o job[j].batch) = Range(lost) \cup Range(job[j].batch)
        BY <1>2, Joined
      <3>2. lost' \in Events /\ l1 = l + m /\ Range(lost') = Range(lost) \cup Range(job[j].batch)
        BY <2>2, <3>1, Zenon
      <3>3. table' = table /\ w1 = w
        BY <2>2
      <3> QED BY <1>2, <3>1, <3>2, <3>3
    <2> QED BY <2>1, <2>2
  <1>5. \/ j = "periodic" /\ m = p /\ p1 = 0 /\ f1 = f
           /\ job'["final"].batch = job["final"].batch
        \/ j = "final" /\ m = f /\ f1 = 0 /\ p1 = p
           /\ job'["periodic"].batch = job["periodic"].batch
    <2>1. CASE j = "periodic"
      <3>1. job'["final"].batch = job["final"].batch
        BY <2>1 DEF Jobs
      <3> QED BY <2>1, <3>1, Nothing, Zenon
    <2>2. CASE j = "final"
      <3>1. job'["periodic"].batch = job["periodic"].batch
        BY <2>2 DEF Jobs
      <3> QED BY <2>2, <3>1, Nothing, Zenon
    <2> QED BY <2>1, <2>2
  <1>6. Total' = Total
    <2>1. /\ Total = b + x + y + q + p + f + w + l
          /\ Total' = b + x + y + q + p1 + f1 + w1 + l1
      BY <1>1, Zenon DEF Total
    <2>2. /\ m \in Nat
          /\ \/ w1 = w + m /\ l1 = l
             \/ l1 = l + m /\ w1 = w
      BY <1>4
    <2>3. \/ m = p /\ p1 = 0 /\ f1 = f
          \/ m = f /\ f1 = 0 /\ p1 = p
      BY <1>5, Zenon
    <2> HIDE DEF b, x, y, q, p, f, w, l, m, p1, f1, w1, l1
    <2>4. w1 \in Nat /\ l1 \in Nat /\ w1 + l1 = w + l + m
      BY <1>3, <2>2
    <2>5. p1 \in Nat /\ f1 \in Nat /\ p1 + f1 + m = p + f
      BY <1>3, <2>3
    <2> QED BY <1>3, <2>1, <2>2, <2>4, <2>5
  <1>7. Everywhere' = Everywhere
    <2>1. Range(job'["periodic"].batch) \cup Range(job'["final"].batch) \cup Range(job[j].batch)
            = Range(job["periodic"].batch) \cup Range(job["final"].batch)
      BY <1>5, Nothing
    <2> QED BY <1>1, <1>4, <2>1 DEF Everywhere
  <1> QED BY <1>1, <1>4, <1>6, <1>7 DEF Accounted

\* What is queued becomes the batch of a job that had none.
LEMMA BatchTaken ==
    ASSUME TypeOK, Accounted, NEW j \in {"periodic", "final"},
           UNCHANGED <<measure, table, lost>>, queue' = <<>>,
           job[j].batch = <<>>, job'[j].batch = queue,
           \A i \in Jobs \ {j} : job'[i].batch = job[i].batch
    PROVE  Accounted'
  <1> DEFINE b == Len(buffer) x == Len(thread["loop"].batch)
             y == Len(thread["listener"].batch) q == Len(queue) q1 == Len(queue')
             p == Len(job["periodic"].batch) f == Len(job["final"].batch)
             p1 == Len(job'["periodic"].batch) f1 == Len(job'["final"].batch)
             w == Len(table) l == Len(lost)
  <1>1. /\ buffer' = buffer /\ thread' = thread /\ count' = count
    BY DEF measure
  <1>2. /\ b \in Nat /\ x \in Nat /\ y \in Nat /\ q \in Nat /\ p \in Nat /\ f \in Nat
        /\ w \in Nat /\ l \in Nat
    BY LengthsAreNumbers DEF Lengths
  <1>3. \/ j = "periodic" /\ p = 0 /\ p1 = q /\ f1 = f
           /\ job'["final"].batch = job["final"].batch
        \/ j = "final" /\ f = 0 /\ f1 = q /\ p1 = p
           /\ job'["periodic"].batch = job["periodic"].batch
    <2>1. CASE j = "periodic"
      <3>1. job'["final"].batch = job["final"].batch
        BY <2>1 DEF Jobs
      <3> QED BY <2>1, <3>1, Nothing, Zenon
    <2>2. CASE j = "final"
      <3>1. job'["periodic"].batch = job["periodic"].batch
        BY <2>2 DEF Jobs
      <3> QED BY <2>2, <3>1, Nothing, Zenon
    <2> QED BY <2>1, <2>2
  <1>4. Total' = Total
    <2>1. /\ Total = b + x + y + q + p + f + w + l
          /\ Total' = b + x + y + q1 + p1 + f1 + w + l
      BY <1>1, Zenon DEF Total
    <2>2. q1 = 0
      BY Nothing, Zenon
    <2>3. \/ p = 0 /\ p1 = q /\ f1 = f
          \/ f = 0 /\ f1 = q /\ p1 = p
      BY <1>3, Zenon
    <2> HIDE DEF b, x, y, q, q1, p, f, w, l, p1, f1
    <2> QED BY <1>2, <2>1, <2>2, <2>3
  <1>5. Everywhere' = Everywhere
    <2>1. Range(queue') \cup Range(job'["periodic"].batch) \cup Range(job'["final"].batch)
            = Range(queue) \cup Range(job["periodic"].batch) \cup Range(job["final"].batch)
      BY <1>3, Nothing
    <2> QED BY <1>1, <2>1 DEF Everywhere
  <1> QED BY <1>1, <1>4, <1>5 DEF Accounted

\* The writer takes all that is queued, when no write of its own is out.
LEMMA WriterKeeps ==
    ASSUME MediaInv, WriterStep
    PROVE  MediaInv'
  <1>1. TypeOK /\ PlaceInv /\ CountInv /\ Accounted /\ job \in [Jobs -> JobState]
        /\ queue \in Events
    BY Places DEF MediaInv
  <1>2. CASE WriterFlushes
    <2>1. /\ queue' = <<>> /\ writer' = "writing" /\ writer = "asleep"
          /\ job' = [job EXCEPT !["periodic"] = Queued(queue)]
          /\ UNCHANGED <<measure, table, teardown, lost>>
      BY <1>2 DEF WriterFlushes
    <2>2. Queued(queue) \in JobState /\ Queued(queue).batch = queue /\ Queued(queue).st = "queued"
      BY <1>1 DEF Queued, JobState
    <2> HIDE DEF Queued
    <2>3. job' \in [Jobs -> JobState] /\ job'["periodic"] = Queued(queue)
          /\ \A j \in Jobs \ {"periodic"} : job'[j] = job[j]
      BY <1>1, <2>1, <2>2 DEF Jobs
    <2>4. TypeOK'
      <3>1. queue' \in Events
        BY <2>1, Nothing
      <3> QED BY <1>1, <2>1, <2>3, <3>1 DEF TypeOK, teardown, measure, JobState
    <2>5. PlaceInv' /\ CountInv'
      <3>1. /\ job'["periodic"].st = "queued" /\ job'["persist"] = job["persist"]
            /\ job'["final"] = job["final"]
        BY <2>2, <2>3 DEF Jobs
      <3> QED BY <1>1, <2>1, <3>1 DEF PlaceInv, CountInv, teardown, measure, Jobs
    <2>6. job["periodic"].batch = <<>> /\ job'["periodic"].batch = queue
      BY <1>1, <2>1, <2>2, <2>3 DEF PlaceInv
    <2>7. Accounted'
      BY <1>1, <2>1, <2>3, <2>6, BatchTaken
    <2> QED BY <2>4, <2>5, <2>7 DEF MediaInv
  <1>3. CASE WriterResumes
    <2>1. /\ writer' = "asleep" /\ job["periodic"].st = "done"
          /\ job' = [job EXCEPT !["periodic"] = NoJob]
          /\ UNCHANGED <<measure, queue, table, teardown, lost>>
      BY <1>3 DEF WriterResumes
    <2>2. NoJob \in JobState /\ NoJob.batch = <<>>
      BY Nothing DEF NoJob, JobState
    <2>3. job' \in [Jobs -> JobState] /\ job'["periodic"] = NoJob
          /\ \A j \in Jobs \ {"periodic"} : job'[j] = job[j]
      BY <1>1, <2>1, <2>2 DEF Jobs
    <2>4. job["periodic"].batch = <<>>
      BY <1>1, <2>1 DEF PlaceInv, Jobs
    <2>5. TypeOK'
      BY <1>1, <2>1, <2>3 DEF TypeOK, teardown, measure, JobState
    <2>6. PlaceInv' /\ CountInv'
      BY <1>1, <2>1, <2>2, <2>3 DEF PlaceInv, CountInv, teardown, measure, Jobs
    <2>7. job'["periodic"].batch = job["periodic"].batch /\ job'["final"].batch = job["final"].batch
      BY <2>2, <2>3, <2>4 DEF Jobs
    <2>8. Accounted'
      BY <1>1, <2>1, <2>7, SamePlaces
    <2> QED BY <2>5, <2>6, <2>8 DEF MediaInv
  <1> QED BY <1>2, <1>3 DEF WriterStep

\* A transaction takes the batch of its job, whether the database takes it or not.
LEMMA JobKeeps ==
    ASSUME MediaInv, NEW j \in Jobs, JobStep(j)
    PROVE  MediaInv'
  <1>1. TypeOK /\ PlaceInv /\ CountInv /\ Accounted /\ job \in [Jobs -> JobState]
    BY Places DEF MediaInv
  <1>2. CASE JobStarts(j)
    <2>1. /\ job[j].st = "queued" /\ job' = [job EXCEPT ![j].st = "running"]
          /\ UNCHANGED <<measure, queue, writer, table, teardown, lost>>
      BY <1>2 DEF JobStarts
    <2>2. /\ job' \in [Jobs -> JobState] /\ job'[j].st = "running"
          /\ \A i \in Jobs : job'[i].batch = job[i].batch
          /\ \A i \in Jobs \ {j} : job'[i] = job[i]
      BY <1>1, <2>1 DEF JobState
    <2>3. TypeOK'
      BY <1>1, <2>1, <2>2 DEF TypeOK, teardown, measure, JobState
    <2>4. PlaceInv' /\ CountInv'
      BY <1>1, <2>1, <2>2 DEF PlaceInv, CountInv, teardown, measure, Jobs
    <2>5. Accounted'
      BY <1>1, <2>1, <2>2, SamePlaces DEF Jobs
    <2> QED BY <2>3, <2>4, <2>5 DEF MediaInv
  <1>3. CASE RecordEvents(j)
    <2>1. /\ j # "persist" /\ job' = [job EXCEPT ![j] = [st |-> "done", batch |-> <<>>]]
          /\ \/ table' = table \o job[j].batch /\ UNCHANGED lost
             \/ lost' = lost \o job[j].batch /\ UNCHANGED table
          /\ UNCHANGED <<measure, queue, writer, teardown>>
      BY <1>3 DEF RecordEvents
    <2>2. [st |-> "done", batch |-> <<>>] \in JobState
      BY Nothing DEF JobState
    <2>3. job' \in [Jobs -> JobState] /\ job'[j].batch = <<>>
          /\ \A i \in Jobs \ {j} : job'[i] = job[i]
      BY <1>1, <2>1, <2>2
    <2>4. j \in {"periodic", "final"}
      BY <2>1 DEF Jobs
    <2>5. Accounted' /\ table' \in Events /\ lost' \in Events
      BY <1>1, <2>1, <2>3, <2>4, BatchLeaves
    <2>6. TypeOK'
      BY <1>1, <2>1, <2>3, <2>5 DEF TypeOK, teardown, measure, JobState
    <2>7. PlaceInv' /\ CountInv'
      BY <1>1, <2>1, <2>3, <2>4 DEF PlaceInv, CountInv, teardown, measure, Jobs
    <2> QED BY <2>5, <2>6, <2>7 DEF MediaInv
  <1> QED BY <1>2, <1>3 DEF JobStep

\* The transcript is nobody's event.
LEMMA PersistKeeps ==
    ASSUME MediaInv, PersistRaw
    PROVE  MediaInv'
  <1>1. TypeOK /\ PlaceInv /\ CountInv /\ Accounted /\ job \in [Jobs -> JobState]
    BY Places DEF MediaInv
  <1>2. PICK st \in {"done", "failed"} : job' = [job EXCEPT !["persist"].st = st]
    BY DEF PersistRaw
  <1>3. /\ job["persist"].st = "running" /\ transcript' \in {"persisted", transcript}
        /\ UNCHANGED <<measure, queue, writer, table, route, ended, summary, hits, cancels,
                       lost, strayed>>
    BY DEF PersistRaw
  <1>4. /\ job' \in [Jobs -> JobState]
        /\ \A i \in Jobs : job'[i].batch = job[i].batch
        /\ \A i \in Jobs \ {"persist"} : job'[i] = job[i]
    BY <1>1, <1>2 DEF JobState, Jobs
  <1>5. TypeOK'
    BY <1>1, <1>3, <1>4 DEF TypeOK, measure, JobState
  <1>6. Accounted'
    BY <1>1, <1>3, <1>4, SamePlaces DEF Jobs
  <1>7. PlaceInv'
    <2>1. job'["persist"].batch = <<>>
      BY <1>1, <1>4 DEF PlaceInv, Jobs
    <2> QED BY <1>1, <1>3, <1>4, <2>1 DEF PlaceInv, measure, Jobs
  <1>8. CountInv'
    BY <1>1, <1>3 DEF CountInv, measure
  <1> QED BY <1>5, <1>6, <1>7, <1>8 DEF MediaInv

\* The route handler moves no events until the summary, nor once all is flushed.
LEMMA HandlerKeeps ==
    ASSUME MediaInv,
           ConversationEnds \/ CarrierAsked \/ EngineStopped \/ TranscriptHandled \/ Flushed
    PROVE  MediaInv'
  <1>1. TypeOK /\ PlaceInv /\ CountInv /\ Accounted /\ job \in [Jobs -> JobState]
    BY Places DEF MediaInv
  <1>2. UNCHANGED <<measure, queue, writer, table, summary, hits, cancels, lost, strayed>>
    BY DEF ConversationEnds, CarrierAsked, EngineStopped, TranscriptHandled, Flushed
  <1>3. /\ job' \in [Jobs -> JobState]
        /\ job'["persist"].batch = <<>>
        /\ job'["periodic"] = job["periodic"] /\ job'["final"] = job["final"]
    <2>1. CASE UNCHANGED job
      BY <1>1, <2>1 DEF PlaceInv
    <2>2. CASE job' = [job EXCEPT !["persist"] = Queued(<<>>)]
      <3>1. Queued(<<>>) \in JobState /\ Queued(<<>>).batch = <<>>
        BY Nothing DEF Queued, JobState
      <3> HIDE DEF Queued
      <3> QED BY <1>1, <2>2, <3>1 DEF Jobs
    <2> QED BY <2>1, <2>2
         DEF ConversationEnds, CarrierAsked, EngineStopped, TranscriptHandled, Flushed
  <1>4. /\ ended' \in BOOLEAN /\ transcript' \in {"none", "persisted", "failed"}
    BY <1>1 DEF TypeOK, ConversationEnds, CarrierAsked, EngineStopped, TranscriptHandled, Flushed
  <1>5. \/ /\ route \notin {"closing", "flush", "final", "closed"}
           /\ route' \in {"hangup", "stop", "persist", "restop", "repersist", "finish"}
        \/ route = "final" /\ route' = "closed"
    BY DEF ConversationEnds, CarrierAsked, EngineStopped, TranscriptHandled, Flushed, Finally
  <1>6. TypeOK'
    <2>1. route' \in Waits \cup {"finish", "closing", "closed"}
      BY <1>5 DEF Waits
    <2> QED BY <1>1, <1>2, <1>3, <1>4, <2>1 DEF TypeOK, measure, JobState
  <1>7. PlaceInv'
    <2>1. route' \notin {"final", "closed"} => job'["final"].batch = <<>>
      BY <1>1, <1>3, <1>5 DEF PlaceInv
    <2>2. \A j \in Jobs : job'[j].st \in {"none", "done", "failed"} => job'[j].batch = <<>>
      BY <1>1, <1>3 DEF PlaceInv, Jobs
    <2> QED BY <1>1, <1>2, <1>3, <2>1, <2>2 DEF PlaceInv, measure
  <1>8. CountInv'
    BY <1>1, <1>2, <1>5 DEF CountInv, measure
  <1>9. Accounted'
    BY <1>1, <1>2, <1>3, SamePlaces
  <1> QED BY <1>6, <1>7, <1>8, <1>9 DEF MediaInv

\* The summary takes all that is buffered, and adds its own two events.
LEMMA SummaryKeeps ==
    ASSUME MediaInv, Summarise
    PROVE  MediaInv'
  <1> DEFINE batch == buffer \o <<count + 1, count + 2>>
  <1>1. /\ TypeOK /\ PlaceInv /\ CountInv /\ Accounted
        /\ buffer \in Events /\ thread \in [Threads -> ThreadState]
    BY Places DEF MediaInv
  <1>2. /\ thread["loop"].pc = "idle" /\ route = "finish"
        /\ count' = count + 2 /\ summary' = count + 2 /\ buffer' = <<>>
        /\ thread' = [thread EXCEPT !["loop"] = [pc |-> "emit", batch |-> batch]]
        /\ strayed' = Range(thread["listener"].batch) /\ route' = "closing"
        /\ UNCHANGED <<queue, writer, job, table, ended, transcript, hits, cancels, lost>>
    BY DEF Summarise, LoopFree
  <1>3. /\ count \in Nat /\ count + 1 \in Number /\ count + 2 \in Number
        /\ count + 2 \in 1..(MaxEvents + 2) /\ count + 2 # 0
    <2>1. summary = 0 /\ count <= MaxEvents
      BY <1>1, <1>2 DEF CountInv
    <2>2. count \in Nat /\ count >= 1
      BY <1>1, Bounds DEF TypeOK
    <2> QED BY <2>1, <2>2, Bounds DEF Number
  <1>4. /\ batch \in Events /\ Len(buffer) \in Nat /\ Len(batch) = Len(buffer) + 2
        /\ Range(batch) = Range(buffer) \cup {count + 1, count + 2}
    BY <1>1, <1>3, TwoMore
  <1> HIDE DEF batch
  <1>5. /\ thread' \in [Threads -> ThreadState] /\ thread'["loop"].batch = batch
        /\ thread'["loop"].pc = "emit" /\ thread'["listener"] = thread["listener"]
    BY <1>1, <1>2, <1>4 DEF ThreadState, Threads
  <1>6. thread["loop"].batch = <<>>
    BY <1>1, <1>2 DEF PlaceInv, Threads
  <1>7. TypeOK'
    <2>1. strayed' \subseteq 1..(MaxEvents + 2)
      <3>1. thread["listener"].batch \in Seq(Number)
        BY <1>1 DEF ThreadState, Threads, Events, Number
      <3>2. Range(thread["listener"].batch) \subseteq Number
        BY <3>1, RangeOfSeq
      <3> QED BY <1>2, <3>2 DEF Number
    <2>2. buffer' \in Events
      BY <1>2, Nothing
    <2>3. route' \in Waits \cup {"finish", "closing", "closed"}
      BY <1>2
    <2>4. count' \in 1..(MaxEvents + 2) /\ summary' \in 0..(MaxEvents + 2)
      BY <1>2, <1>3
    <2> QED BY <1>1, <1>2, <1>5, <2>1, <2>2, <2>3, <2>4 DEF TypeOK, ThreadState
  <1>8. PlaceInv'
    <2>1. \A t \in Threads : thread'[t].pc # "emit" => thread'[t].batch = <<>>
      BY <1>1, <1>5 DEF PlaceInv, Threads
    <2> QED BY <1>1, <1>2, <2>1 DEF PlaceInv
  <1>9. CountInv'
    BY <1>2, <1>3 DEF CountInv
  <1>10. Accounted'
    <2> DEFINE b == Len(buffer) b1 == Len(buffer') x == Len(thread["loop"].batch)
               x1 == Len(thread'["loop"].batch) y == Len(thread["listener"].batch)
               q == Len(queue) p == Len(job["periodic"].batch) f == Len(job["final"].batch)
               w == Len(table) l == Len(lost)
    <2>1. Total' = Total + 2
      <3>1. /\ b \in Nat /\ x \in Nat /\ y \in Nat /\ q \in Nat /\ p \in Nat /\ f \in Nat
            /\ w \in Nat /\ l \in Nat
        BY <1>1, LengthsAreNumbers DEF Lengths
      <3>2. x = 0 /\ b1 = 0
        BY <1>2, <1>6, Nothing, Zenon
      <3>3. x1 = b + 2
        BY <1>4, <1>5
      <3>4. /\ Total = b + x + y + q + p + f + w + l
            /\ Total' = b1 + x1 + y + q + p + f + w + l
        BY <1>2, <1>5, Zenon DEF Total
      <3> HIDE DEF b, b1, x, x1, y, q, p, f, w, l
      <3> QED BY <3>1, <3>2, <3>3, <3>4
    <2>2. Everywhere' = Everywhere \cup {count + 1, count + 2}
      BY <1>2, <1>4, <1>5, <1>6, Nothing DEF Everywhere
    <2>3. 1..(count + 2) = (1..count) \cup {count + 1, count + 2}
      BY <1>3
    <2> QED BY <1>1, <1>2, <2>1, <2>2, <2>3 DEF Accounted
  <1> QED BY <1>7, <1>8, <1>9, <1>10 DEF MediaInv

\* Cancelling the await of a write gives up its batch, if the write has not begun.
LEMMA CancelledWrite ==
    ASSUME TypeOK, PlaceInv, Accounted, NEW j \in {"periodic", "final"},
           UNCHANGED <<measure, queue, table>>,
           job' = Cancelled(j), lost' = LostWith(j)
    PROVE  /\ Accounted' /\ lost' \in Events /\ job' \in [Jobs -> JobState]
           /\ \A i \in Jobs : job'[i] \in {NoJob, job[i]}
           /\ \A i \in Jobs \ {j} : job'[i] = job[i]
  <1>1. job \in [Jobs -> JobState] /\ NoJob \in JobState /\ NoJob.batch = <<>> /\ lost \in Events
    BY Places, Nothing DEF NoJob, JobState
  <1>2. CASE job[j].st = "queued"
    <2>1. job' = [job EXCEPT ![j] = NoJob] /\ lost' = lost \o job[j].batch
      BY <1>2 DEF Cancelled, LostWith
    <2>2. /\ job' \in [Jobs -> JobState] /\ job'[j] = NoJob
          /\ \A i \in Jobs \ {j} : job'[i] = job[i]
      BY <1>1, <2>1 DEF Jobs
    <2>3. Accounted' /\ lost' \in Events
      <3>1. UNCHANGED <<measure, queue>> /\ job'[j].batch = <<>>
        BY <1>1, <2>2
      <3>2. \A i \in Jobs \ {j} : job'[i].batch = job[i].batch
        BY <2>2
      <3> QED BY <2>1, <3>1, <3>2, BatchLeaves
    <2> QED BY <2>2, <2>3
  <1>3. CASE job[j].st # "queued"
    <2>1. job' = job /\ lost' = lost
      BY <1>3 DEF Cancelled, LostWith
    <2> QED BY <1>1, <2>1, SamePlaces
  <1> QED BY <1>2, <1>3

\* What the writer had not begun to write when it was cancelled is lost, what is
\* queued is the last flush's.
LEMMA StopKeeps ==
    ASSUME MediaInv, StopWriter \/ LastFlush
    PROVE  MediaInv'
  <1>1. TypeOK /\ PlaceInv /\ CountInv /\ Accounted /\ job \in [Jobs -> JobState]
        /\ queue \in Events
    BY Places DEF MediaInv
  <1>2. CASE StopWriter
    <2>1. /\ route = "closing" /\ writer' = "ended" /\ route' = "flush"
          /\ UNCHANGED <<measure, queue, table, ended, transcript, summary, hits, cancels, strayed>>
      BY <1>2 DEF StopWriter
    <2>2. /\ Accounted' /\ lost' \in Events /\ job' \in [Jobs -> JobState]
          /\ \A i \in Jobs : job'[i] \in {NoJob, job[i]}
      <3>1. CASE writer = "writing"
        BY <1>1, <1>2, <2>1, <3>1, CancelledWrite DEF StopWriter
      <3>2. CASE writer # "writing"
        <4>1. job' = job /\ lost' = lost
          BY <1>2, <3>2 DEF StopWriter
        <4> QED BY <1>1, <2>1, <4>1, SamePlaces, Places
      <3> QED BY <3>1, <3>2
    <2>3. TypeOK'
      BY <1>1, <2>1, <2>2 DEF TypeOK, measure, JobState, Waits
    <2>4. PlaceInv'
      BY <1>1, <2>1, <2>2 DEF PlaceInv, measure, Jobs, NoJob
    <2>5. CountInv'
      BY <1>1, <2>1 DEF CountInv, measure
    <2> QED BY <2>2, <2>3, <2>4, <2>5 DEF MediaInv
  <1>3. CASE LastFlush
    <2>1. /\ route = "flush" /\ route' = "final" /\ queue' = <<>>
          /\ job' = [job EXCEPT !["final"] = Queued(queue)]
          /\ UNCHANGED <<measure, writer, table, ended, transcript, summary, hits, cancels, lost, strayed>>
      BY <1>3 DEF LastFlush
    <2>2. Queued(queue) \in JobState /\ Queued(queue).batch = queue /\ Queued(queue).st = "queued"
      BY <1>1 DEF Queued, JobState
    <2> HIDE DEF Queued
    <2>3. /\ job' \in [Jobs -> JobState] /\ job'["final"] = Queued(queue)
          /\ \A j \in Jobs \ {"final"} : job'[j] = job[j]
      BY <1>1, <2>1, <2>2 DEF Jobs
    <2>4. job["final"].batch = <<>> /\ job'["final"].batch = queue
      BY <1>1, <2>1, <2>2, <2>3 DEF PlaceInv
    <2>5. Accounted'
      BY <1>1, <2>1, <2>3, <2>4, BatchTaken
    <2>6. TypeOK'
      <3>1. queue' \in Events
        BY <2>1, Nothing
      <3> QED BY <1>1, <2>1, <2>3, <3>1 DEF TypeOK, measure, JobState, Waits
    <2>7. PlaceInv' /\ CountInv'
      <3>1. /\ job'["final"].st = "queued" /\ job'["persist"] = job["persist"]
            /\ job'["periodic"] = job["periodic"]
        BY <2>2, <2>3 DEF Jobs
      <3> QED BY <1>1, <2>1, <3>1 DEF PlaceInv, CountInv, measure, Jobs
    <2> QED BY <2>5, <2>6, <2>7 DEF MediaInv
  <1> QED BY <1>2, <1>3

\* A cancellation moves at most the last batch, and then the handler is gone.
LEMMA CancelKeeps ==
    ASSUME MediaInv, CancelHandler
    PROVE  MediaInv'
  <1>1. TypeOK /\ PlaceInv /\ CountInv /\ Accounted /\ job \in [Jobs -> JobState]
    BY Places DEF MediaInv
  <1>2. /\ cancels' = cancels + 1 /\ cancels < MaxCancels /\ route \in Waits
        /\ hits' = hits \cup {route}
        /\ UNCHANGED <<measure, queue, writer, table, ended, transcript, summary, strayed>>
    BY DEF CancelHandler
  <1>3. /\ Accounted' /\ lost' \in Events /\ job' \in [Jobs -> JobState]
        /\ \A i \in Jobs : job'[i] \in {NoJob, job[i]}
        /\ route' # "closed" => job'["final"] = job["final"]
    <2>1. CASE UNCHANGED <<job, lost>>
      BY <1>1, <1>2, <2>1, SamePlaces, Places
    <2>2. CASE job' = Cancelled("persist") /\ UNCHANGED lost
      <3>1. NoJob \in JobState /\ NoJob.batch = <<>>
        BY Nothing DEF NoJob, JobState
      <3>2. /\ job' \in [Jobs -> JobState] /\ job'["persist"] \in {NoJob, job["persist"]}
            /\ \A i \in Jobs \ {"persist"} : job'[i] = job[i]
        BY <1>1, <2>2, <3>1 DEF Cancelled, Jobs
      <3>3. job'["periodic"] = job["periodic"] /\ job'["final"] = job["final"]
        BY <3>2 DEF Jobs
      <3>4. Accounted'
        BY <1>1, <1>2, <2>2, <3>3, SamePlaces
      <3> QED BY <1>1, <2>2, <3>2, <3>3, <3>4, Places
    <2>3. CASE route' = "closed" /\ job' = Cancelled("final") /\ lost' = LostWith("final")
      BY <1>1, <1>2, <2>3, CancelledWrite
    <2> QED BY <2>1, <2>2, <2>3 DEF CancelHandler
  <1>4. \/ /\ route \notin {"closing", "flush", "final", "closed"}
           /\ route' \in {"stop", "restop", "finish", "closed"}
        \/ route \in {"flush", "final"} /\ route' \in {"flush", "closed"}
             /\ (route = "final" => route' = "closed")
    BY DEF CancelHandler, Finally
  <1>5. TypeOK'
    <2>1. route' \in Waits \cup {"finish", "closing", "closed"}
      BY <1>4 DEF Waits
    <2>2. cancels' \in 0..MaxCancels /\ hits' \subseteq Waits
      BY <1>1, <1>2, Bounds DEF TypeOK
    <2> QED BY <1>1, <1>2, <1>3, <2>1, <2>2 DEF TypeOK, measure, JobState
  <1>6. PlaceInv'
    <2>1. \A i \in Jobs : job'[i].batch \in {<<>>, job[i].batch}
      BY <1>3 DEF NoJob
    <2>2. \A i \in Jobs : job'[i].st \in {"none", "done", "failed"} => job'[i].batch = <<>>
      BY <1>1, <1>3 DEF PlaceInv, NoJob
    <2>3. route' \notin {"final", "closed"} => job'["final"].batch = <<>>
      BY <1>1, <1>3, <1>4 DEF PlaceInv
    <2> QED BY <1>1, <1>2, <2>1, <2>2, <2>3 DEF PlaceInv, measure, Jobs
  <1>7. CountInv'
    BY <1>1, <1>2, <1>4 DEF CountInv, measure
  <1> QED BY <1>3, <1>5, <1>6, <1>7 DEF MediaInv

----------------------------------------------------------------------------
(* The theorems                                                            *)

LEMMA MediaInit == Init => MediaInv
  <1> SUFFICES ASSUME Init PROVE MediaInv
    OBVIOUS
  <1>1. <<1>> \in Events /\ Len(<<1>>) = 1 /\ Range(<<1>>) = {1}
    <2>1. 1 \in Number
      BY Bounds DEF Number
    <2> QED BY <2>1, JustOne
  <1>2. Idle \in ThreadState /\ Idle.batch = <<>> /\ NoJob \in JobState /\ NoJob.batch = <<>>
    BY Nothing DEF Idle, NoJob, ThreadState, JobState
  <1>3. TypeOK
    <2>1. buffer \in Events /\ queue \in Events /\ table \in Events /\ lost \in Events
      BY <1>1, Nothing DEF Init
    <2>2. thread \in [Threads -> ThreadState] /\ job \in [Jobs -> JobState]
      BY <1>2 DEF Init
    <2>3. count \in 1..(MaxEvents + 2) /\ summary \in 0..(MaxEvents + 2) /\ cancels \in 0..MaxCancels
      BY Bounds DEF Init
    <2>4. route \in Waits \cup {"finish", "closing", "closed"}
      BY DEF Init, Waits
    <2> QED BY <2>1, <2>2, <2>3, <2>4 DEF Init, TypeOK, ThreadState, JobState
  <1>4. PlaceInv /\ CountInv
    BY <1>2, Bounds DEF Init, PlaceInv, CountInv, Jobs
  <1>5. Accounted
    <2>1. /\ thread["loop"].batch = <<>> /\ thread["listener"].batch = <<>>
          /\ job["periodic"].batch = <<>> /\ job["final"].batch = <<>>
          /\ queue = <<>> /\ table = <<>> /\ lost = <<>> /\ buffer = <<1>> /\ count = 1
      BY <1>2 DEF Init, Threads, Jobs
    <2>2. Total = 1
      BY <1>1, <2>1, Nothing DEF Total
    <2>3. Everywhere = {1}
      BY <1>1, <2>1, Nothing DEF Everywhere
    <2> QED BY <2>1, <2>2, <2>3 DEF Accounted
  <1> QED BY <1>3, <1>4, <1>5 DEF MediaInv

LEMMA MediaStep == MediaInv /\ [Next]_vars => MediaInv'
  <1> SUFFICES ASSUME MediaInv, [Next]_vars PROVE MediaInv'
    OBVIOUS
  <1>1. TypeOK /\ CountInv
    BY DEF MediaInv
  <1>2. CASE ObserveOutbound
    <2>1. summary = 0
      BY <1>1, <1>2 DEF CountInv, ObserveOutbound
    <2> QED BY <1>2, <2>1, StampKeeps DEF ObserveOutbound, Threads
  <1>3. ASSUME NEW t \in Threads, Stamp(t) PROVE MediaInv'
    BY <1>3, StampKeeps DEF Stamp
  <1>4. CASE StampLate
    BY <1>4, StampKeeps DEF StampLate, Threads
  <1>5. CASE UNCHANGED vars
    BY <1>5, SamePlaces DEF vars, MediaInv, TypeOK, PlaceInv, CountInv, Accounted, Total, Everywhere
  <1> QED BY <1>2, <1>3, <1>4, <1>5, ThreadKeeps, WriterKeeps, JobKeeps, PersistKeeps,
             HandlerKeeps, SummaryKeeps, StopKeeps, CancelKeeps DEF Next, RouteStep

\* Every thread, job, batch and counter of the teardown has its type: no batch
\* holds an event that was not stamped.
THEOREM MediaTypes == Spec => []TypeOK
  BY MediaInit, MediaStep, PTL DEF Spec, MediaInv

\* However the loop, the listener, the writer, the pool and cancellations
\* interleave, an event that CallMetrics stamped is in one place, once, until it
\* is written or its write is refused or cancelled.
THEOREM EventsAreWrittenOnce == Spec => []WrittenOnce
  <1>1. MediaInv => WrittenOnce
    BY AccountedIsWrittenOnce DEF MediaInv
  <1> QED BY <1>1, MediaInit, MediaStep, PTL DEF Spec
=============================================================================
