--------------------------- MODULE CarrierProofs ---------------------------
(***************************************************************************)
(* Proofs about CarrierControl, for every set of carriers and all the      *)
(* deadlines, lifetimes and budgets that ControlAssumption allows; the     *)
(* last two theorems are about settings that fit each other, PatientSweep  *)
(* and LastingTokens, as the defaults do.                                  *)
(***************************************************************************)
EXTENDS CarrierControl, TLAPS

Row == [job : {"claimed", "active", "canceling", "needs_reconciliation", "terminal"},
        sid : BOOLEAN, status : Status, terminal : BOOLEAN,
        reconciliation : {"none", "ambiguous", "checking", "retry", "stalled"},
        attempts : Nat, media : BOOLEAN,
        answered_by : {"none", "human", "machine"}]

Due == [ring : 0..RingSeconds \cup {Never},
        max : (-Grace)..MaxCallSeconds \cup {Never},
        next : 0..MaxBackoff \cup {Never}]

Token == [stream : 0..StreamTTL,
          callback : 0..(MaxCallSeconds + RetryMargin),
          flow : 0..(MaxCallSeconds + RetryMargin)]

LegState == Live \cup PROVIDER_TERMINAL \cup {"none"}

\* TypeOK, by the names of these sets.
ControlType ==
    /\ carrier \in Carriers
    /\ leg \in LegState /\ past \subseteq Live \cup PROVIDER_TERMINAL
    /\ row \in Row /\ due \in Due /\ token \in Token
    /\ flow \in BOOLEAN
    /\ dialer \in {"dial", "bind", "ambiguous", "reject", "abandon", "done", "unsure"}
    /\ rec \in [pc : {"idle", "fetch", "request", "result"}, seen : Status]
    /\ failures \in 0..MaxFailures
    /\ early \in BOOLEAN

----------------------------------------------------------------------------
(* The invariant                                                           *)

\* The leg is the last thing it has been; once it is over it is so for good, and
\* it was completed by somebody who had answered.
LegInv ==
    /\ leg = "none" => past = {}
    /\ leg # "none" => leg \in past
    /\ past \cap PROVIDER_TERMINAL \subseteq {leg}
    /\ leg = "completed" => "answered" \in past

\* Until the dial returns there is no leg and no deadline; until it is bound no
\* deadline has passed and nobody reconciles the call; no leg is known of a call
\* that has none.
DialInv ==
    /\ dialer = "dial" => leg = "none" /\ ~row.terminal /\ due.ring = Never /\ due.max = Never
    /\ dialer = "reject" => leg = "none"
    /\ dialer = "bind" => leg # "none" /\ due.ring > 0 /\ due.max > 0
    /\ dialer \in {"dial", "bind"} => rec.pc = "idle" /\ row.reconciliation = "none"
    /\ dialer = "abandon" => leg \notin Live
    /\ leg = "none" => ~row.sid /\ row.status = "none"

\* A row is closed with the end of the leg, or because there is none.
EndInv == row.terminal => row.status \in PROVIDER_TERMINAL \cup {"none"}

\* What the reconciler was told still holds: an end is the end, and Twilio will be
\* asked to complete only what was answered.
RecInv ==
    /\ rec.pc # "idle" => row.sid
    /\ rec.seen \in PROVIDER_TERMINAL => leg = rec.seen
    /\ rec.pc = "request" /\ carrier = "twilio"
         /\ rec.seen \notin {"queued", "ringing", "initiated"} => "answered" \in past

\* A reconciliation that is pending or under way has one of the reasons that
\* ConversationIsSpared knows.
Reason == (row.media /\ due.max <= 0) \/ early \/ dialer = "unsure"

SpareInv ==
    /\ row.reconciliation # "none" \/ rec.pc # "idle" => Reason
    /\ row.media => flow \/ carrier = "exotel"

VerdictInv == ControlType /\ LegInv /\ DialInv /\ EndInv /\ RecInv /\ VerdictIsTheLegs
ControlInv == VerdictInv /\ SpareInv

----------------------------------------------------------------------------
(* Numbers and words                                                       *)

\* What the settings are at least and at most.
LEMMA Bounds ==
    /\ RingSeconds \in Nat /\ 1 <= RingSeconds /\ RingSeconds <= 98
    /\ MaxCallSeconds \in Nat /\ 1 <= MaxCallSeconds /\ MaxCallSeconds <= 98
    /\ StreamTTL \in Nat /\ 1 <= StreamTTL
    /\ MaxAttempts \in Nat /\ 1 <= MaxAttempts
    /\ MaxBackoff \in Nat /\ 1 <= MaxBackoff /\ MaxBackoff <= 98
    /\ Grace \in Nat /\ RetryMargin \in Nat /\ MaxFailures \in Nat
    /\ Never = 99
  <1>1. {RingSeconds, MaxCallSeconds, StreamTTL, MaxAttempts, MaxBackoff} \subseteq 1..98
    BY ControlAssumption
  <1> QED BY <1>1, ControlAssumption DEF Never

\* The back-off is bounded, and at least a tick.
LEMMA BackoffBounds ==
    ASSUME NEW attempts \in Nat \ {0}
    PROVE  RetryIn(attempts) \in 1..MaxBackoff
  <1> DEFINE exponent == (IF attempts < 6 THEN attempts ELSE 6) - 1
             delay == 2 ^ exponent
  <1>1. exponent \in {0, 1, 2, 3, 4, 5}
    OBVIOUS
  <1>2. 2 ^ 0 = 1 /\ 2 ^ 1 = 2 /\ 2 ^ 2 = 4 /\ 2 ^ 3 = 8 /\ 2 ^ 4 = 16 /\ 2 ^ 5 = 32
    OBVIOUS
  <1> HIDE DEF exponent
  <1>3. delay \in {1, 2, 4, 8, 16, 32}
    BY <1>1, <1>2
  <1> QED BY <1>3, Bounds DEF RetryIn, exponent

\* A report that one of these words is the report of one of them.
LEMMA SaidWords ==
    ASSUME NEW words, NEW report \in Says(words)
    PROVE  report.word \in words
  <1>1. PICK w \in words : report = [word |-> w, reason |-> ""]
    BY DEF Says
  <1> QED BY <1>1

\* What a carrier says of a leg, in the store's words: the end exactly of a leg
\* that is over, and as it is; and Twilio says "in-progress" of an answered leg.
Told(state, report) ==
    LET status == normalize_status(report) IN
    /\ status \in Status \ {"none"}
    /\ status \in PROVIDER_TERMINAL => status = state
    /\ state \in PROVIDER_TERMINAL => status = state
    /\ carrier = "twilio" /\ status \notin {"queued", "ringing", "initiated"}
         => state \in {"answered"} \cup PROVIDER_TERMINAL
    /\ carrier = "teler" /\ normalize_event(report) # "none" => normalize_event(report) = status

\* Twilio's words are true of the leg.
LEMMA TwilioWords ==
    ASSUME carrier = "twilio", NEW state \in Live \cup PROVIDER_TERMINAL,
           NEW report \in Reports(state)
    PROVE  Told(state, report)
  <1>1. report \in TwilioReports(state) /\ normalize_status(report) = report.word
    BY DEF Reports, normalize_status, TwilioStatusOf
  <1>2. CASE state = "queued"
    <2>1. report \in Says({"queued", "initiated"})
      BY <1>1, <1>2 DEF TwilioReports
    <2>2. report.word \in {"queued", "initiated"}
      BY <2>1, SaidWords
    <2> QED BY <1>1, <1>2, <2>2 DEF Told, Status, PROVIDER_TERMINAL
  <1>3. CASE state = "answered"
    <2>1. report \in Says({"in-progress"})
      BY <1>1, <1>3 DEF TwilioReports
    <2>2. report.word \in {"in-progress"}
      BY <2>1, SaidWords
    <2> QED BY <1>1, <1>3, <2>2 DEF Told, Status, PROVIDER_TERMINAL
  <1>4. CASE state \notin {"queued", "answered"}
    <2>1. report \in Says({state})
      BY <1>1, <1>4 DEF TwilioReports
    <2>2. report.word = state
      BY <2>1, SaidWords
    <2> QED BY <1>1, <1>4, <2>2 DEF Told, Status, PROVIDER_TERMINAL, Live, PreAnswer
  <1> QED BY <1>2, <1>3, <1>4

\* Exotel's words are true of the leg, a new word among them.
LEMMA ExotelWords ==
    ASSUME carrier = "exotel", NEW state \in Live \cup PROVIDER_TERMINAL,
           NEW report \in Reports(state)
    PROVE  Told(state, report)
  <1>1. report \in ExotelReports(state) /\ normalize_status(report) = EXOTEL_STATUS_MAP(report.word)
    BY DEF Reports, normalize_status
  <1>2. CASE state \in Live
    <2>1. report.word \in {"queued", "in-progress", "in progress", "a new word"}
      <3>1. CASE state \in PreAnswer
        <4>1. report \in Says({"queued", "in-progress", "a new word"})
          BY <1>1, <3>1 DEF ExotelReports, PreAnswer
        <4> QED BY <4>1, SaidWords
      <3>2. CASE state = "answered"
        <4>1. report \in Says({"in-progress", "in progress", "a new word"})
          BY <1>1, <3>2 DEF ExotelReports, PreAnswer
        <4> QED BY <4>1, SaidWords
      <3> QED BY <1>2, <3>1, <3>2 DEF Live
    <2>2. normalize_status(report) \in {"queued", "in-progress"}
      BY <1>1, <2>1 DEF EXOTEL_STATUS_MAP, UNKNOWN_STATUS, PROVIDER_TERMINAL
    <2> QED BY <1>2, <2>2 DEF Told, Status, PROVIDER_TERMINAL, Live, PreAnswer
  <1>3. CASE state \in PROVIDER_TERMINAL
    <2>1. \/ state = "no-answer" /\ report \in Says({"no-answer", "noanswer"})
          \/ state = "canceled" /\ report \in Says({"canceled", "cancelled"})
          \/ state \in {"completed", "failed", "busy"} /\ report \in Says({state})
      BY <1>1, <1>3 DEF ExotelReports, PROVIDER_TERMINAL, PreAnswer
    <2>2. \/ state = "no-answer" /\ report.word \in {"no-answer", "noanswer"}
          \/ state = "canceled" /\ report.word \in {"canceled", "cancelled"}
          \/ state \in {"completed", "failed", "busy"} /\ report.word = state
      BY <2>1, SaidWords
    <2>3. normalize_status(report) = state
      BY <1>1, <2>2 DEF EXOTEL_STATUS_MAP, PROVIDER_TERMINAL
    <2> QED BY <1>3, <2>3 DEF Told, Status, PROVIDER_TERMINAL
  <1> QED BY <1>2, <1>3

\* Teler's words are true of the leg, and its reason says how it failed.
LEMMA TelerWords ==
    ASSUME carrier = "teler", NEW state \in Live \cup PROVIDER_TERMINAL,
           NEW report \in Reports(state)
    PROVE  Told(state, report)
  <1>1. report \in TelerReports(state) /\ normalize_status(report) = TelerStatus(report)
    BY DEF Reports, normalize_status
  <1>2. CASE state \in Live
    <2>1. report.word \in {"initiated", "ringing", "answered", "a new word"}
      <3>1. CASE state = "queued"
        <4>1. report \in Says({"initiated"})
          BY <1>1, <3>1 DEF TelerReports
        <4> QED BY <4>1, SaidWords
      <3>2. CASE state \in {"ringing", "answered"}
        <4>1. report \in Says({state, "a new word"})
          BY <1>1, <3>2 DEF TelerReports
        <4> QED BY <3>2, <4>1, SaidWords
      <3> QED BY <1>2, <3>1, <3>2 DEF Live, PreAnswer
    <2>2. normalize_status(report) \in {"queued", "ringing", "in-progress"}
      BY <1>1, <2>1 DEF TelerStatus, TELER_STATUS_MAP, UNKNOWN_STATUS
    <2> QED BY <1>1, <1>2, <2>2 DEF Told, Status, PROVIDER_TERMINAL, Live, PreAnswer, normalize_event
  <1>3. CASE state = "completed"
    <2>1. report.word = "completed"
      BY <1>1, <1>3 DEF TelerReports
    <2>2. normalize_status(report) = "completed"
      BY <1>1, <2>1 DEF TelerStatus, TELER_STATUS_MAP
    <2> QED BY <1>1, <1>3, <2>2 DEF Told, Status, PROVIDER_TERMINAL, normalize_event
  <1>4. CASE state \in {"busy", "no-answer", "canceled", "failed"}
    <2>1. /\ report.word = "failed"
          /\ state = "busy" => report.reason = "user_busy"
          /\ state = "no-answer" => report.reason = "no_answer"
          /\ state = "canceled" => report.reason = "cancelled"
          /\ state = "failed" => report.reason = "network"
      <3>1. CASE state = "busy"
        <4>1. TelerReports(state) = {[word |-> "failed", reason |-> "user_busy"]}
          BY <3>1 DEF TelerReports
        <4> QED BY <1>1, <3>1, <4>1
      <3>2. CASE state = "no-answer"
        <4>1. TelerReports(state) = {[word |-> "failed", reason |-> "no_answer"]}
          BY <3>2 DEF TelerReports
        <4> QED BY <1>1, <3>2, <4>1
      <3>3. CASE state = "canceled"
        <4>1. TelerReports(state) = {[word |-> "failed", reason |-> "cancelled"]}
          BY <3>3 DEF TelerReports
        <4> QED BY <1>1, <3>3, <4>1
      <3>4. CASE state = "failed"
        <4>1. TelerReports(state) = {[word |-> "failed", reason |-> "network"]}
          BY <3>4 DEF TelerReports
        <4> QED BY <1>1, <3>4, <4>1
      <3> QED BY <1>4, <3>1, <3>2, <3>3, <3>4
    <2>2. normalize_status(report) = state
      BY <1>1, <1>4, <2>1 DEF TelerStatus, TELER_FAILURE_REASON_MAP
    <2> QED BY <1>1, <1>4, <2>2 DEF Told, Status, PROVIDER_TERMINAL, normalize_event
  <1> QED BY <1>2, <1>3, <1>4 DEF PROVIDER_TERMINAL

\* Every carrier's words are true of the leg.
LEMMA Words ==
    ASSUME carrier \in Carriers, NEW state \in Live \cup PROVIDER_TERMINAL,
           NEW report \in Reports(state)
    PROVE  Told(state, report)
  BY TwilioWords, ExotelWords, TelerWords, ControlAssumption

\* Teler's events about something else are about nothing.
LEMMA OtherEvents ==
    ASSUME NEW report \in Says(NotOfTheCall)
    PROVE  normalize_event(report) = "none"
  BY SaidWords DEF NotOfTheCall, normalize_event

----------------------------------------------------------------------------
(* What happens to the leg                                                 *)

\* Only a live leg moves, never back to "none", and it is completed only if somebody
\* had answered.
LegMoved ==
    \/ UNCHANGED <<leg, past>>
    \/ /\ leg \in Live /\ leg' \in Live \cup PROVIDER_TERMINAL /\ past' = past \cup {leg'}
       /\ leg' = "completed" => "answered" \in past

\* What is true of a leg stays true of it.
LEMMA MovedLeg ==
    ASSUME ControlType, LegInv, LegMoved
    PROVE  /\ LegInv' /\ leg' \in LegState /\ past' \subseteq Live \cup PROVIDER_TERMINAL
           /\ past \subseteq past'
           /\ leg \notin Live => leg' = leg
           /\ leg # "none" => leg' # "none"
  <1>1. CASE UNCHANGED <<leg, past>>
    BY <1>1 DEF ControlType, LegInv
  <1>2. CASE /\ leg \in Live /\ leg' \in Live \cup PROVIDER_TERMINAL /\ past' = past \cup {leg'}
             /\ leg' = "completed" => "answered" \in past
    <2>1. past \cap PROVIDER_TERMINAL = {} /\ leg' # "none"
      BY <1>2 DEF LegInv, Live, PreAnswer, PROVIDER_TERMINAL
    <2>2. LegInv'
      BY <1>2, <2>1 DEF LegInv
    <2> QED BY <1>2, <2>1, <2>2 DEF ControlType, LegState
  <1> QED BY <1>1, <1>2 DEF LegMoved

\* A request to end the leg, of a carrier that records what it was asked for only
\* when that is true.
LEMMA RequestedLeg ==
    ASSUME ControlType, LegInv, NEW requested \in {"completed", "canceled"},
           request_terminal(requested),
           carrier = "twilio" /\ requested = "completed" /\ leg \in Live => "answered" \in past
    PROVE  LegMoved
  <1>1. CASE carrier = "twilio" /\ TwilioTerminal(requested)
    BY <1>1 DEF TwilioTerminal, BecomeLeg, LegMoved, PROVIDER_TERMINAL
  <1>2. CASE ExotelTerminal \/ TelerTerminal
    BY <1>2 DEF ExotelTerminal, TelerTerminal, BecomeLeg, LegMoved, LegInv, PROVIDER_TERMINAL
  <1>3. CASE UNCHANGED <<leg, past>>
    BY <1>3 DEF LegMoved
  <1> QED BY <1>1, <1>2, <1>3 DEF request_terminal, Terminal

\* Nothing but the leg and the history of it changes, or what is not spoken of.
LEMMA OnlyTheLeg ==
    ASSUME ControlInv, LegMoved, dialer \notin {"dial"} \/ leg' = leg,
           UNCHANGED <<carrier, due, token, flow, early>>, failures' \in 0..MaxFailures,
           row' \in Row, row'.media = row.media, row'.sid = row.sid, row'.status = row.status,
           row'.terminal = row.terminal, row'.reconciliation = row.reconciliation,
           dialer' = dialer \/ (dialer = "abandon" /\ dialer' = "done"),
           rec' \in [pc : {"idle", "fetch", "request", "result"}, seen : Status],
           rec' = rec \/ (rec.pc # "idle" /\ rec'.pc = "result" /\ rec'.seen = rec.seen)
    PROVE  ControlInv'
  <1>1. /\ ControlType /\ LegInv /\ DialInv /\ EndInv /\ RecInv /\ VerdictIsTheLegs /\ SpareInv
    BY DEF ControlInv, VerdictInv
  <1>2. /\ LegInv' /\ leg' \in LegState /\ past' \subseteq Live \cup PROVIDER_TERMINAL
        /\ past \subseteq past'
        /\ leg \notin Live => leg' = leg
        /\ leg # "none" => leg' # "none"
    BY <1>1, MovedLeg
  <1>3. ControlType'
    BY <1>1, <1>2 DEF ControlType
  <1>4. DialInv'
    BY <1>1, <1>2 DEF DialInv, LegMoved, Live, PreAnswer
  <1>5. RecInv'
    BY <1>1, <1>2 DEF RecInv, Live, PreAnswer, PROVIDER_TERMINAL
  <1>6. VerdictIsTheLegs'
    <2>1. row.terminal => leg \notin Live
      BY <1>1 DEF VerdictIsTheLegs, EndInv, Live, PreAnswer, PROVIDER_TERMINAL
    <2> QED BY <1>1, <1>2, <2>1 DEF VerdictIsTheLegs
  <1>7. EndInv' /\ SpareInv'
    BY <1>1 DEF EndInv, SpareInv, Reason
  <1> QED BY <1>2, <1>3, <1>4, <1>5, <1>6, <1>7 DEF ControlInv, VerdictInv

\* The steps that do nothing but move the leg.
LEMMA LegActions ==
    ASSUME ControlInv,
           \/ CarrierMoves \/ DialerAbandons \/ RequestTerminal \/ RequestFails
           \/ \E verdict \in {"human", "machine"} : AmdWebhook(verdict)
    PROVE  ControlInv'
  <1>1. /\ ControlType /\ LegInv /\ DialInv /\ EndInv /\ RecInv /\ VerdictIsTheLegs /\ SpareInv
        /\ row \in Row
        /\ rec \in [pc : {"idle", "fetch", "request", "result"}, seen : Status]
    BY DEF ControlInv, VerdictInv, ControlType
  <1>2. CASE CarrierMoves
    <2>1. LegMoved
      BY <1>1, <1>2 DEF CarrierMoves, BecomeLeg, LegMoved, LegInv, Live, PreAnswer, PROVIDER_TERMINAL
    <2>2. dialer # "dial"
      BY <1>1, <1>2 DEF CarrierMoves, DialInv, PreAnswer
    <2> QED BY <1>1, <1>2, <2>1, <2>2, OnlyTheLeg DEF CarrierMoves, ControlType
  <1>3. CASE DialerAbandons
    <2>1. LegMoved
      <3>1. leg \notin Live
        BY <1>1, <1>3 DEF DialerAbandons, DialInv
      <3>2. request_terminal("completed") => LegMoved
        BY <1>1, <3>1, RequestedLeg
      <3> QED BY <1>3, <3>2 DEF DialerAbandons, LegMoved
    <2> QED BY <1>1, <1>3, <2>1, OnlyTheLeg DEF DialerAbandons, ControlType
  <1>4. CASE RequestTerminal
    <2> DEFINE requested == terminal_request_for(rec.seen)
    <2>1. requested \in {"completed", "canceled"}
      BY DEF terminal_request_for
    <2>2. carrier = "twilio" /\ requested = "completed" =>
              rec.seen \notin {"queued", "ringing", "initiated"}
      BY DEF terminal_request_for
    <2>3. request_terminal(requested) /\ rec.pc = "request"
      BY <1>4 DEF RequestTerminal
    <2> HIDE DEF requested
    <2>4. LegMoved
      BY <1>1, <2>1, <2>2, <2>3, RequestedLeg DEF RecInv
    <2>5. /\ rec' \in [pc : {"idle", "fetch", "request", "result"}, seen : Status]
          /\ rec'.pc = "result" /\ rec'.seen = rec.seen /\ dialer # "dial"
      BY <1>1, <1>4 DEF RequestTerminal, DialInv
    <2> QED BY <1>1, <1>4, <2>3, <2>4, <2>5, OnlyTheLeg DEF RequestTerminal, ControlType
  <1>5. CASE RequestFails
    <2>1. /\ rec' \in [pc : {"idle", "fetch", "request", "result"}, seen : Status]
          /\ rec'.pc = "result" /\ rec'.seen = rec.seen /\ rec.pc # "idle"
      BY <1>1, <1>5 DEF RequestFails
    <2>2. failures' \in 0..MaxFailures
      BY <1>1, <1>5, Bounds DEF RequestFails, ControlType
    <2> QED BY <1>1, <1>5, <2>1, <2>2, OnlyTheLeg DEF RequestFails, LegMoved, ControlType
  <1>6. CASE \E verdict \in {"human", "machine"} : AmdWebhook(verdict)
    <2>1. PICK verdict \in {"human", "machine"} : AmdWebhook(verdict)
      BY <1>6
    <2>2. LegMoved
      <3>1. request_terminal("completed") => LegMoved
        BY <1>1, <2>1, RequestedLeg DEF AmdWebhook
      <3> QED BY <2>1, <3>1 DEF AmdWebhook, LegMoved
    <2>3. /\ row' \in Row /\ row'.media = row.media /\ row'.sid = row.sid
          /\ row'.status = row.status /\ row'.terminal = row.terminal
          /\ row'.reconciliation = row.reconciliation
      BY <1>1, <2>1 DEF AmdWebhook, record_answered_by, Row
    <2>4. dialer # "dial"
      BY <1>1, <2>1 DEF AmdWebhook, DialInv, LegInv
    <2> QED BY <1>1, <2>1, <2>2, <2>3, <2>4, OnlyTheLeg DEF AmdWebhook, ControlType
  <1> QED BY <1>2, <1>3, <1>4, <1>5, <1>6

----------------------------------------------------------------------------
(* The dial                                                                *)

\* What a minted token is worth.
LEMMA Minted ==
    /\ media_stream_url \in 0..StreamTTL /\ teler_media_stream_url \in 0..StreamTTL
    /\ status_callback_url \in 0..(MaxCallSeconds + RetryMargin)
    /\ teler_flow_url \in 0..(MaxCallSeconds + RetryMargin)
  BY Bounds DEF media_stream_url, teler_media_stream_url, status_callback_url, teler_flow_url,
     NoToken, CALLBACK_TOKEN_TTL

\* A deadline that is not set has not passed.
LEMMA NeverIsLate == \A t : t = Never => t > 0
  BY Bounds

\* The dial: the leg is there or not before anybody knows.
LEMMA DialKeeps ==
    ASSUME ControlInv, NEW placed \in BOOLEAN,
           NEW reply \in {"id", "no id", "4xx", "5xx", "timeout"}, Dial(placed, reply)
    PROVE  ControlInv'
  <1>1. /\ ControlType /\ LegInv /\ DialInv /\ EndInv /\ RecInv /\ VerdictIsTheLegs /\ SpareInv
    BY DEF ControlInv, VerdictInv
  <1>2. /\ Submit(placed, reply)
        /\ \/ UNCHANGED token
           \/ token' = [token EXCEPT !.stream = media_stream_url, !.callback = status_callback_url]
           \/ token' = [token EXCEPT !.flow = teler_flow_url, !.callback = status_callback_url]
    BY DEF Dial, TwilioDial, ExotelDial, TelerDial
  <1>3. token' \in Token
    BY <1>1, <1>2, Minted DEF ControlType, Token
  <1>4. /\ dialer = "dial" /\ UNCHANGED <<carrier, row, due, flow, rec, failures, early>>
        /\ \/ leg' = "queued" /\ past' = past \cup {"queued"}
           \/ UNCHANGED <<leg, past>>
        /\ dialer' \in {"bind", "reject", "ambiguous"}
        /\ dialer' = "bind" => leg' = "queued"
        /\ dialer' = "reject" => UNCHANGED leg
    BY <1>2 DEF Submit, BecomeLeg, classify_dial_error
  <1>5. /\ leg = "none" /\ past = {} /\ ~row.terminal /\ due.ring = Never /\ due.max = Never
        /\ rec.pc = "idle" /\ row.reconciliation = "none" /\ ~row.sid /\ row.status = "none"
    BY <1>1, <1>4 DEF DialInv, LegInv
  <1>6. ControlType'
    BY <1>1, <1>3, <1>4 DEF ControlType, LegState, Live, PreAnswer
  <1>7. LegInv'
    BY <1>4, <1>5 DEF LegInv, PROVIDER_TERMINAL
  <1>8. DialInv'
    <2>1. row' = row /\ due' = due /\ rec' = rec
      BY <1>4
    <2>2. dialer' # "dial" /\ dialer' # "abandon"
      BY <1>4
    <2>3. due'.ring > 0 /\ due'.max > 0
      <3>1. due'.ring = Never /\ due'.max = Never
        BY <1>5, <2>1
      <3> QED BY <3>1, NeverIsLate
    <2>4. /\ dialer' = "reject" => leg' = "none"
          /\ dialer' = "bind" => leg' # "none"
      BY <1>4, <1>5
    <2>5. ~row'.sid /\ row'.status = "none" /\ row'.reconciliation = "none" /\ rec'.pc = "idle"
      BY <1>5, <2>1
    <2> QED BY <2>2, <2>3, <2>4, <2>5 DEF DialInv
  <1>9. EndInv' /\ VerdictIsTheLegs'
    BY <1>4, <1>5 DEF EndInv, VerdictIsTheLegs
  <1>10. RecInv' /\ SpareInv'
    BY <1>1, <1>4, <1>5 DEF RecInv, SpareInv, PROVIDER_TERMINAL
  <1> QED BY <1>6, <1>7, <1>8, <1>9, <1>10 DEF ControlInv, VerdictInv

\* Binding starts the deadlines and drops a reconciliation.
LEMMA Bound ==
    ASSUME row \in Row, due \in Due, bind_call_sid
    PROVE  /\ row' \in Row /\ due' \in Due
           /\ row'.sid /\ row'.terminal = row.terminal /\ row'.media = row.media
           /\ row'.reconciliation = "none"
           /\ due'.ring > 0 /\ due'.max > 0
  <1>1. "initiated" \in Status
    BY DEF Status
  <1>2. row' \in Row /\ row'.sid /\ row'.terminal = row.terminal /\ row'.media = row.media
        /\ row'.reconciliation = "none"
    BY <1>1 DEF bind_call_sid, Row
  <1>3. due' \in Due /\ due'.ring = RingSeconds /\ due'.max = MaxCallSeconds
    <2>1. RingSeconds \in 0..RingSeconds /\ MaxCallSeconds \in (-Grace)..MaxCallSeconds
      BY Bounds
    <2> QED BY <2>1 DEF bind_call_sid, Due
  <1> QED BY <1>2, <1>3, Bounds

\* Marking a row that is over says nothing of its reconciliation.
LEMMA MarkedTerminal ==
    ASSUME row \in Row, row.terminal, mark_reconciliation
    PROVE  /\ row' \in Row /\ UNCHANGED due
           /\ row'.sid = row.sid /\ row'.status = row.status /\ row'.terminal = row.terminal
           /\ row'.reconciliation = row.reconciliation /\ row'.media = row.media
  BY DEF mark_reconciliation, Row

\* Marking a row moves none of its deadlines but the next attempt.
LEMMA MarkedAmbiguous ==
    ASSUME row \in Row, due \in Due, mark_reconciliation
    PROVE  /\ row' \in Row /\ due' \in Due /\ due'.ring = due.ring /\ due'.max = due.max
           /\ row'.sid = row.sid /\ row'.status = row.status /\ row'.terminal = row.terminal
           /\ row'.media = row.media
  <1>1. CASE row.terminal
    BY <1>1, MarkedTerminal
  <1>2. CASE ~row.terminal
    <2>1. 0 \in 0..MaxBackoff
      BY Bounds
    <2>2. due' = [due EXCEPT !.next = 0]
      BY <1>2 DEF mark_reconciliation
    <2>3. due' \in Due /\ due'.ring = due.ring /\ due'.max = due.max
      BY <2>1, <2>2 DEF Due
    <2>4. row' = [row EXCEPT !.job = "needs_reconciliation", !.reconciliation = "ambiguous"]
      BY <1>2 DEF mark_reconciliation
    <2> QED BY <2>3, <2>4 DEF Row
  <1> QED BY <1>1, <1>2

\* What _dial does after the carrier has answered.
LEMMA DialerKeeps ==
    ASSUME ControlInv, DialerBinds \/ DialerGivesUp
    PROVE  ControlInv'
  <1>1. /\ ControlType /\ LegInv /\ DialInv /\ EndInv /\ RecInv /\ VerdictIsTheLegs /\ SpareInv
        /\ row \in Row /\ due \in Due
    BY DEF ControlInv, VerdictInv, ControlType
  <1>2. UNCHANGED <<carrier, leg, past, token, flow, rec, failures, early>>
    BY DEF DialerBinds, DialerGivesUp
  <1>3. LegInv'
    BY <1>1, <1>2 DEF LegInv
  <1>4. CASE DialerBinds /\ row.terminal
    <2>1. dialer = "bind" /\ dialer' = "abandon" /\ mark_reconciliation
      BY <1>4 DEF DialerBinds
    <2>2. /\ row' \in Row /\ UNCHANGED due
          /\ row'.sid = row.sid /\ row'.status = row.status /\ row'.terminal = row.terminal
          /\ row'.reconciliation = row.reconciliation /\ row'.media = row.media
      BY <1>1, <1>4, <2>1, MarkedTerminal
    <2>3. leg \notin Live
      BY <1>1, <1>4 DEF VerdictIsTheLegs, EndInv, Live, PreAnswer, PROVIDER_TERMINAL
    <2>4. ControlType' /\ DialInv' /\ EndInv'
      BY <1>1, <1>2, <2>1, <2>2, <2>3 DEF ControlType, DialInv, EndInv
    <2>5. RecInv' /\ VerdictIsTheLegs' /\ SpareInv'
      BY <1>1, <1>2, <2>1, <2>2 DEF RecInv, VerdictIsTheLegs, SpareInv, Reason
    <2> QED BY <1>3, <2>4, <2>5 DEF ControlInv, VerdictInv
  <1>5. CASE DialerBinds /\ ~row.terminal
    <2>1. dialer = "bind" /\ dialer' = "done" /\ bind_call_sid
      BY <1>5 DEF DialerBinds
    <2>2. /\ row' \in Row /\ due' \in Due
          /\ row'.sid /\ ~row'.terminal /\ row'.media = row.media
          /\ row'.reconciliation = "none"
      BY <1>1, <1>5, <2>1, Bound
    <2>3. leg # "none" /\ rec.pc = "idle"
      BY <1>1, <2>1 DEF DialInv
    <2>4. ControlType' /\ DialInv' /\ EndInv'
      BY <1>1, <1>2, <2>1, <2>2, <2>3 DEF ControlType, DialInv, EndInv
    <2>5. RecInv' /\ VerdictIsTheLegs' /\ SpareInv'
      BY <1>1, <1>2, <2>1, <2>2, <2>3 DEF RecInv, VerdictIsTheLegs, SpareInv
    <2> QED BY <1>3, <2>4, <2>5 DEF ControlInv, VerdictInv
  <1>6. CASE dialer = "ambiguous" /\ DialerGivesUp
    <2>1. dialer' = "unsure" /\ mark_reconciliation
      BY <1>6 DEF DialerGivesUp
    <2>2. /\ row' \in Row /\ due' \in Due /\ due'.ring = due.ring /\ due'.max = due.max
          /\ row'.sid = row.sid /\ row'.status = row.status /\ row'.terminal = row.terminal
          /\ row'.media = row.media
      BY <1>1, <2>1, MarkedAmbiguous
    <2>3. ControlType' /\ DialInv' /\ EndInv'
      BY <1>1, <1>2, <2>1, <2>2 DEF ControlType, DialInv, EndInv
    <2>4. RecInv' /\ VerdictIsTheLegs' /\ SpareInv'
      BY <1>1, <1>2, <2>1, <2>2 DEF RecInv, VerdictIsTheLegs, SpareInv, Reason
    <2> QED BY <1>3, <2>3, <2>4 DEF ControlInv, VerdictInv
  <1>7. CASE dialer = "reject" /\ DialerGivesUp
    <2>1. /\ dialer' = "done" /\ UNCHANGED due
          /\ row' = [row EXCEPT !.terminal = TRUE, !.job = "terminal"]
      BY <1>7 DEF DialerGivesUp
    <2>2. /\ row' \in Row /\ row'.terminal /\ row'.sid = row.sid /\ row'.status = row.status
          /\ row'.reconciliation = row.reconciliation /\ row'.media = row.media
      BY <1>1, <2>1 DEF Row
    <2>3. leg = "none" /\ row.status = "none" /\ ~row.sid
      BY <1>1, <1>7 DEF DialInv
    <2>4. ControlType' /\ DialInv' /\ EndInv'
      BY <1>1, <1>2, <2>1, <2>2, <2>3 DEF ControlType, DialInv, EndInv
    <2>5. RecInv' /\ VerdictIsTheLegs'
      BY <1>1, <1>2, <2>2, <2>3 DEF RecInv, VerdictIsTheLegs
    <2>6. SpareInv'
      BY <1>1, <1>2, <1>7, <2>1, <2>2 DEF SpareInv, Reason
    <2> QED BY <1>3, <2>4, <2>5, <2>6 DEF ControlInv, VerdictInv
  <1> QED BY <1>4, <1>5, <1>6, <1>7 DEF DialerGivesUp

----------------------------------------------------------------------------
(* Statuses                                                                *)

\* A status is written of a row that has a leg: the end only if it is the leg's.
LEMMA StatusedRow ==
    ASSUME LegInv, EndInv, VerdictIsTheLegs, leg # "none",
           NEW r \in Row, r.status = row.status, r.terminal = row.terminal,
           NEW status \in Status \ {"none"}, status \in PROVIDER_TERMINAL => leg = status,
           row' = Statused(r, status), UNCHANGED <<leg, past>>
    PROVE  /\ row' \in Row /\ row'.sid = r.sid /\ row'.media = r.media
           /\ row'.reconciliation \in {"none", r.reconciliation}
           /\ EndInv' /\ VerdictIsTheLegs'
  <1>1. CASE status \in PROVIDER_TERMINAL
    <2>1. row' = [r EXCEPT !.status = status, !.terminal = TRUE, !.job = "terminal",
                           !.reconciliation = "none"]
      BY <1>1 DEF Statused
    <2>2. row' \in Row /\ row'.sid = r.sid /\ row'.media = r.media
          /\ row'.reconciliation = "none" /\ row'.status = status
      BY <2>1 DEF Row
    <2> QED BY <1>1, <2>2 DEF EndInv, VerdictIsTheLegs, LegInv
  <1>2. CASE status \notin PROVIDER_TERMINAL /\ r.terminal
    <2>1. row' = r
      BY <1>2 DEF Statused
    <2> QED BY <2>1 DEF EndInv, VerdictIsTheLegs
  <1>3. CASE status \notin PROVIDER_TERMINAL /\ ~r.terminal
    <2>1. row' = [r EXCEPT !.status = status]
      BY <1>3 DEF Statused
    <2>2. row' \in Row /\ row'.sid = r.sid /\ row'.media = r.media
          /\ row'.reconciliation = r.reconciliation /\ row'.terminal = r.terminal
      BY <2>1 DEF Row
    <2> QED BY <1>3, <2>2 DEF EndInv, VerdictIsTheLegs
  <1> QED BY <1>1, <1>2, <1>3

\* A webhook that says something true of the leg.
LEMMA WebhookKeeps ==
    ASSUME ControlInv, leg # "none", NEW status \in Status \ {"none"},
           status \in PROVIDER_TERMINAL => leg = status, Webhook(status)
    PROVE  ControlInv'
  <1>1. /\ ControlType /\ LegInv /\ DialInv /\ EndInv /\ RecInv /\ VerdictIsTheLegs /\ SpareInv
        /\ row \in Row /\ due \in Due
    BY DEF ControlInv, VerdictInv, ControlType
  <1>2. /\ provider_status(status)
        /\ UNCHANGED <<carrier, leg, past, token, flow, dialer, rec, failures, early>>
    BY DEF Webhook
  <1> DEFINE bound == [row EXCEPT !.sid = TRUE, !.job = "active"]
  <1>3. /\ bound \in Row /\ bound.status = row.status /\ bound.terminal = row.terminal
        /\ bound.sid /\ bound.media = row.media /\ bound.reconciliation = row.reconciliation
    BY <1>1 DEF Row
  <1>4. /\ row' \in Row /\ row'.sid /\ row'.media = row.media
        /\ row'.reconciliation \in {"none", row.reconciliation}
        /\ EndInv' /\ VerdictIsTheLegs'
    <2>1. PICK r \in {row, bound} : r.sid /\ row' = Statused(r, status)
      BY <1>2, <1>3 DEF provider_status
    <2>2. /\ r \in Row /\ r.status = row.status /\ r.terminal = row.terminal
          /\ r.media = row.media /\ r.reconciliation = row.reconciliation
      BY <1>1, <1>3, <2>1
    <2> HIDE DEF bound
    <2>3. /\ row' \in Row /\ row'.sid = r.sid /\ row'.media = r.media
          /\ row'.reconciliation \in {"none", r.reconciliation}
          /\ EndInv' /\ VerdictIsTheLegs'
      BY <1>1, <1>2, <2>1, <2>2, StatusedRow
    <2> QED BY <2>1, <2>2, <2>3
  <1> HIDE DEF bound
  <1>5. /\ due' \in Due
        /\ due.ring > 0 => due'.ring > 0
        /\ due.max > 0 => due'.max > 0
        /\ due.max # Never => due'.max = due.max
    <2>1. CASE UNCHANGED due
      BY <1>1, <2>1
    <2>2. CASE due' = [due EXCEPT !.ring = IF due.ring = Never THEN RingSeconds ELSE due.ring,
                                  !.max = IF due.max = Never THEN MaxCallSeconds ELSE due.max]
      <3> DEFINE ring == IF due.ring = Never THEN RingSeconds ELSE due.ring
                 max == IF due.max = Never THEN MaxCallSeconds ELSE due.max
      <3>1. ring \in 0..RingSeconds \cup {Never} /\ max \in (-Grace)..MaxCallSeconds \cup {Never}
        BY <1>1, Bounds DEF Due
      <3>2. /\ due.ring > 0 => ring > 0
            /\ due.max > 0 => max > 0
            /\ due.max # Never => max = due.max
        BY Bounds
      <3> HIDE DEF ring, max
      <3>3. due' = [due EXCEPT !.ring = ring, !.max = max]
        BY <2>2 DEF ring, max
      <3>4. due' \in Due /\ due'.ring = ring /\ due'.max = max
        BY <1>1, <3>1, <3>3 DEF Due
      <3> QED BY <3>2, <3>4
    <2> QED BY <1>2, <2>1, <2>2 DEF provider_status
  <1>6. LegInv' /\ RecInv'
    BY <1>1, <1>2, <1>4 DEF LegInv, RecInv
  <1>7. ControlType'
    BY <1>1, <1>2, <1>4, <1>5 DEF ControlType
  <1>8. DialInv'
    <2>1. dialer # "dial" /\ dialer # "reject"
      BY <1>1 DEF DialInv
    <2> QED BY <1>1, <1>2, <1>4, <1>5, <2>1 DEF DialInv
  <1>9. SpareInv'
    <2>1. due.max <= 0 => due'.max = due.max
      BY <1>5, Bounds
    <2> QED BY <1>1, <1>2, <1>4, <2>1 DEF SpareInv, Reason
  <1> QED BY <1>4, <1>6, <1>7, <1>8, <1>9 DEF ControlInv, VerdictInv

\* What was true of the leg and was about its end is true of it now.
LEMMA ToldOfThePast ==
    ASSUME ControlInv, NEW state \in past, NEW report \in Reports(state)
    PROVE  /\ leg # "none" /\ normalize_status(report) \in Status \ {"none"}
           /\ normalize_status(report) \in PROVIDER_TERMINAL => leg = normalize_status(report)
           /\ carrier = "teler" /\ normalize_event(report) # "none" =>
                normalize_event(report) = normalize_status(report)
  <1>1. /\ state \in Live \cup PROVIDER_TERMINAL /\ carrier \in Carriers
        /\ LegInv
    BY DEF ControlInv, VerdictInv, ControlType
  <1>2. Told(state, report)
    BY <1>1, Words
  <1> QED BY <1>1, <1>2 DEF LegInv, Told

\* What a status webhook of one of the three carriers writes is true of the leg.
LEMMA TrueStatus ==
    ASSUME ControlInv, TwilioStatus \/ ExotelStatus \/ TelerStatusWebhook
    PROVE  /\ leg # "none"
           /\ \E status \in Status \ {"none"} :
                Webhook(status) /\ (status \in PROVIDER_TERMINAL => leg = status)
  <1>1. CASE TwilioStatus
    <2>0. PICK state \in past :
            \E report \in Reports(state) : carrier = "twilio" /\ Webhook(TwilioStatusOf(report))
      BY <1>1 DEF TwilioStatus, TwilioEvents
    <2>1. PICK report \in Reports(state) : carrier = "twilio" /\ Webhook(TwilioStatusOf(report))
      BY <2>0
    <2>2. normalize_status(report) = TwilioStatusOf(report)
      BY <2>1 DEF normalize_status
    <2> QED BY <2>1, <2>2, ToldOfThePast
  <1>2. CASE ExotelStatus
    <2>1. PICK state \in past : \E report \in Reports(state) : Webhook(normalize_status(report))
      BY <1>2 DEF ExotelStatus, ExotelEvents
    <2>2. PICK report \in Reports(state) : Webhook(normalize_status(report))
      BY <2>1
    <2> QED BY <2>2, ToldOfThePast
  <1>3. CASE TelerStatusWebhook
    <2>1. PICK report \in (UNION {Reports(state) : state \in past}) \cup Says(NotOfTheCall) :
              /\ carrier = "teler" /\ normalize_event(report) # "none"
              /\ Webhook(normalize_event(report))
      BY <1>3 DEF TelerStatusWebhook, TelerEvents
    <2>2. PICK state \in past : report \in Reports(state)
      <3>1. report \notin Says(NotOfTheCall)
        BY <2>1, OtherEvents
      <3>2. report \in UNION {Reports(state) : state \in past}
        BY <2>1, <3>1
      <3>3. PICK reports \in {Reports(state) : state \in past} : report \in reports
        BY <3>2
      <3> QED BY <3>3
    <2>3. normalize_event(report) = normalize_status(report)
      BY <2>1, <2>2, ToldOfThePast
    <2> QED BY <2>1, <2>2, <2>3, ToldOfThePast
  <1> QED BY <1>1, <1>2, <1>3

\* The status webhooks of the three carriers.
LEMMA StatusActions ==
    ASSUME ControlInv, TwilioStatus \/ ExotelStatus \/ TelerStatusWebhook
    PROVE  ControlInv'
  <1>1. leg # "none"
    BY TrueStatus
  <1>2. PICK status \in Status \ {"none"} :
          Webhook(status) /\ (status \in PROVIDER_TERMINAL => leg = status)
    BY TrueStatus
  <1> QED BY <1>1, <1>2, WebhookKeeps

----------------------------------------------------------------------------
(* Instructions and media                                                  *)

\* The requests for instructions, which bind the row again.
LEMMA CorrelationKeeps ==
    ASSUME ControlInv, TwimlWebhook \/ FlowWebhook
    PROVE  ControlInv'
  <1>1. /\ ControlType /\ LegInv /\ DialInv /\ EndInv /\ RecInv /\ VerdictIsTheLegs /\ SpareInv
        /\ row \in Row /\ due \in Due
    BY DEF ControlInv, VerdictInv, ControlType
  <1>2. /\ carrier # "exotel" /\ "answered" \in past /\ ~flow
        /\ \E stream \in 0..StreamTTL : Correlated(stream)
        /\ UNCHANGED <<carrier, leg, past, dialer, rec, failures, early>>
    BY Minted, Bounds DEF TwimlWebhook, FlowWebhook, Correlated
  <1>3. leg # "none" /\ ~row.media /\ dialer # "dial" /\ dialer # "reject"
    BY <1>1, <1>2 DEF LegInv, DialInv, SpareInv
  <1>4. LegInv'
    BY <1>1, <1>2 DEF LegInv
  <1>5. CASE row.terminal
    <2>1. mark_reconciliation /\ UNCHANGED <<token, flow>>
      BY <1>2, <1>5 DEF Correlated
    <2>2. /\ row' \in Row /\ UNCHANGED due
          /\ row'.sid = row.sid /\ row'.status = row.status /\ row'.terminal = row.terminal
          /\ row'.reconciliation = row.reconciliation /\ row'.media = row.media
      BY <1>1, <1>5, <2>1, MarkedTerminal
    <2>3. ControlType' /\ DialInv' /\ EndInv'
      BY <1>1, <1>2, <2>1, <2>2 DEF ControlType, DialInv, EndInv
    <2>4. RecInv' /\ VerdictIsTheLegs' /\ SpareInv'
      BY <1>1, <1>2, <2>1, <2>2 DEF RecInv, VerdictIsTheLegs, SpareInv, Reason
    <2> QED BY <1>4, <2>3, <2>4 DEF ControlInv, VerdictInv
  <1>6. CASE ~row.terminal
    <2>1. PICK stream \in 0..StreamTTL :
            bind_call_sid /\ token' = [token EXCEPT !.stream = stream] /\ flow' = TRUE
      BY <1>2, <1>6 DEF Correlated
    <2>2. /\ row' \in Row /\ due' \in Due
          /\ row'.sid /\ ~row'.terminal /\ row'.media = row.media
          /\ row'.reconciliation = "none" /\ due'.ring > 0 /\ due'.max > 0
      BY <1>1, <1>6, <2>1, Bound
    <2>3. token' \in Token
      BY <1>1, <2>1 DEF ControlType, Token
    <2>4. ControlType'
      BY <1>1, <1>2, <2>1, <2>2, <2>3 DEF ControlType
    <2>5. DialInv'
      BY <1>1, <1>2, <1>3, <2>2 DEF DialInv
    <2>6. RecInv' /\ VerdictIsTheLegs' /\ EndInv'
      BY <1>1, <1>2, <2>2 DEF RecInv, VerdictIsTheLegs, EndInv
    <2>7. SpareInv'
      BY <1>1, <1>2, <1>3, <2>1, <2>2 DEF SpareInv, Reason
    <2> QED BY <1>4, <2>4, <2>5, <2>6, <2>7 DEF ControlInv, VerdictInv
  <1> QED BY <1>5, <1>6

\* A media socket that takes the row.
LEMMA MediaKeeps ==
    ASSUME ControlInv, TwilioMedia \/ ExotelMedia \/ TelerMedia
    PROVE  ControlInv'
  <1>1. /\ ControlType /\ LegInv /\ DialInv /\ EndInv /\ RecInv /\ VerdictIsTheLegs /\ SpareInv
        /\ row \in Row
    BY DEF ControlInv, VerdictInv, ControlType
  <1>2. claim_media /\ (flow \/ carrier = "exotel")
    BY DEF TwilioMedia, ExotelMedia, TelerMedia
  <1>3. /\ row.sid /\ ~row.media /\ ~row.terminal
        /\ UNCHANGED <<carrier, leg, past, due, token, flow, dialer, rec, failures, early>>
    BY <1>2 DEF claim_media
  <1>4. /\ row' \in Row /\ row'.media /\ row'.sid = row.sid /\ ~row'.terminal
        /\ row'.reconciliation = row.reconciliation
    <2>1. "in-progress" \in Status
      BY DEF Status
    <2> QED BY <1>1, <1>2, <2>1 DEF claim_media, Row
  <1>5. leg # "none"
    BY <1>1, <1>3 DEF DialInv
  <1>6. LegInv' /\ ControlType' /\ EndInv' /\ VerdictIsTheLegs'
    BY <1>1, <1>3, <1>4 DEF LegInv, ControlType, EndInv, VerdictIsTheLegs
  <1>7. DialInv' /\ RecInv'
    BY <1>1, <1>3, <1>4, <1>5 DEF DialInv, RecInv
  <1>8. SpareInv'
    BY <1>1, <1>2, <1>3, <1>4 DEF SpareInv, Reason
  <1> QED BY <1>6, <1>7, <1>8 DEF ControlInv, VerdictInv

----------------------------------------------------------------------------
(* The reconciler                                                          *)

\* The reconciler's steps that touch the row or what it was told.
LEMMA ReconcilerKeeps ==
    ASSUME ControlInv, ClaimAction \/ FetchStatus \/ ReconciliationResult
    PROVE  ControlInv'
  <1>1. /\ ControlType /\ LegInv /\ DialInv /\ EndInv /\ RecInv /\ VerdictIsTheLegs /\ SpareInv
        /\ row \in Row /\ due \in Due
        /\ rec \in [pc : {"idle", "fetch", "request", "result"}, seen : Status]
    BY DEF ControlInv, VerdictInv, ControlType
  <1>2. UNCHANGED <<carrier, leg, past, token, flow, dialer, failures>>
    BY DEF ClaimAction, FetchStatus, ReconciliationResult
  <1>3. LegInv'
    BY <1>1, <1>2 DEF LegInv
  <1>4. "none" \in Status /\ "none" \notin PROVIDER_TERMINAL
    BY DEF Status, PROVIDER_TERMINAL
  <1>5. CASE ClaimAction
    <2>1. /\ rec.pc = "idle" /\ row.sid /\ ~row.terminal /\ UNCHANGED due
          /\ row' = [row EXCEPT !.reconciliation = "checking", !.job = "canceling"]
          /\ rec' = [pc |-> "fetch", seen |-> "none"]
          /\ early' = (early \/ ~row.media)
          /\ \/ row.reconciliation = "none" /\ (RingDue(row) \/ due.max <= 0)
             \/ row.reconciliation # "none"
      BY <1>5 DEF ClaimAction, Actionable
    <2>2. /\ row' \in Row /\ row'.sid /\ ~row'.terminal /\ row'.media = row.media
          /\ row'.status = row.status
      BY <1>1, <2>1 DEF Row
    <2>3. leg # "none"
      BY <1>1, <2>1 DEF DialInv
    <2>4. dialer \notin {"dial", "bind"}
      <3>1. CASE row.reconciliation = "none" /\ (RingDue(row) \/ due.max <= 0)
        <4>1. due.ring = 0 \/ due.max <= 0
          BY <3>1 DEF RingDue
        <4>2. ~(due.ring > 0 /\ due.max > 0)
          BY <1>1, <4>1, Bounds DEF Due
        <4> QED BY <1>1, <2>3, <4>2 DEF DialInv
      <3>2. CASE row.reconciliation # "none"
        BY <1>1, <3>2 DEF DialInv
      <3> QED BY <2>1, <3>1, <3>2
    <2>5. ControlType'
      <3>1. rec' \in [pc : {"idle", "fetch", "request", "result"}, seen : Status]
        BY <1>4, <2>1
      <3>2. early' \in BOOLEAN
        BY <2>1
      <3> QED BY <1>1, <1>2, <2>1, <2>2, <3>1, <3>2 DEF ControlType
    <2>6. DialInv' /\ EndInv'
      BY <1>1, <1>2, <2>1, <2>2, <2>3, <2>4 DEF DialInv, EndInv
    <2>7. RecInv' /\ VerdictIsTheLegs'
      BY <1>1, <1>2, <1>4, <2>1, <2>2 DEF RecInv, VerdictIsTheLegs
    <2>8. SpareInv'
      BY <1>1, <1>2, <2>1, <2>2 DEF SpareInv, Reason, RingDue
    <2> QED BY <1>3, <2>5, <2>6, <2>7, <2>8 DEF ControlInv, VerdictInv
  <1>6. CASE FetchStatus
    <2>1. PICK report \in Reports(leg) :
            /\ rec.pc = "fetch" /\ UNCHANGED <<row, due, early>>
            /\ rec' = [pc |-> IF normalize_status(report) \in PROVIDER_TERMINAL
                              THEN "result" ELSE "request",
                       seen |-> normalize_status(report)]
      BY <1>6 DEF FetchStatus
    <2>2. leg \in Live \cup PROVIDER_TERMINAL /\ carrier \in Carriers
      BY <1>1, <2>1 DEF RecInv, DialInv, ControlType, LegState
    <2>3. Told(leg, report)
      BY <2>2, Words
    <2>4. /\ rec' \in [pc : {"idle", "fetch", "request", "result"}, seen : Status]
          /\ rec'.pc # "idle" /\ rec'.seen = normalize_status(report)
          /\ rec'.pc = "request" => rec'.seen \notin PROVIDER_TERMINAL
      BY <2>1, <2>3 DEF Told
    <2>5. dialer \notin {"dial", "bind"}
      BY <1>1, <2>1 DEF DialInv
    <2>6. RecInv'
      <3>1. row'.sid
        BY <1>1, <2>1 DEF RecInv
      <3>2. rec'.seen \in PROVIDER_TERMINAL => leg = rec'.seen
        BY <2>3, <2>4 DEF Told
      <3>3. rec'.pc = "request" /\ carrier = "twilio"
              /\ rec'.seen \notin {"queued", "ringing", "initiated"} => "answered" \in past
        BY <1>1, <2>3, <2>4 DEF Told, LegInv
      <3> QED BY <1>2, <3>1, <3>2, <3>3 DEF RecInv
    <2>7. ControlType' /\ DialInv' /\ EndInv' /\ VerdictIsTheLegs'
      BY <1>1, <1>2, <2>1, <2>4, <2>5 DEF ControlType, DialInv, EndInv, VerdictIsTheLegs
    <2>8. SpareInv'
      BY <1>1, <1>2, <2>1 DEF SpareInv, Reason
    <2> QED BY <1>3, <2>6, <2>7, <2>8 DEF ControlInv, VerdictInv
  <1>7. CASE ReconciliationResult
    <2>1. rec.pc = "result" /\ rec' = [pc |-> "idle", seen |-> "none"] /\ UNCHANGED early
      BY <1>7 DEF ReconciliationResult
    <2>2. /\ row.sid /\ leg # "none" /\ dialer \notin {"dial", "bind"} /\ Reason
          /\ rec.seen \in PROVIDER_TERMINAL => leg = rec.seen
      BY <1>1, <2>1 DEF RecInv, DialInv, SpareInv
    <2>3. /\ row' \in Row /\ due' \in Due /\ row'.sid /\ row'.media = row.media
          /\ EndInv' /\ VerdictIsTheLegs' /\ due'.max = due.max
      <3>1. CASE rec.seen \in PROVIDER_TERMINAL
        <4>1. row' = Statused(row, rec.seen) /\ UNCHANGED due
          BY <1>7, <3>1 DEF ReconciliationResult
        <4>2. rec.seen \in Status \ {"none"}
          BY <1>4, <3>1 DEF Status
        <4>3. /\ row' \in Row /\ row'.sid = row.sid /\ row'.media = row.media
              /\ EndInv' /\ VerdictIsTheLegs'
          BY <1>1, <1>2, <2>2, <4>1, <4>2, StatusedRow
        <4> QED BY <1>1, <2>2, <4>1, <4>3
      <3>2. CASE rec.seen \notin PROVIDER_TERMINAL /\ row.terminal
        <4>1. row' = [row EXCEPT !.reconciliation = "none"] /\ UNCHANGED due
          BY <1>7, <3>2 DEF ReconciliationResult
        <4>2. /\ row' \in Row /\ row'.sid = row.sid /\ row'.media = row.media
              /\ row'.status = row.status /\ row'.terminal = row.terminal
          BY <1>1, <4>1 DEF Row
        <4> QED BY <1>1, <1>2, <2>2, <4>1, <4>2 DEF EndInv, VerdictIsTheLegs
      <3>3. CASE rec.seen \notin PROVIDER_TERMINAL /\ ~row.terminal
        <4>1. RetryOrStall
          BY <1>7, <3>3 DEF ReconciliationResult
        <4>2. row.attempts + 1 \in Nat \ {0}
          BY <1>1 DEF Row
        <4>3. /\ row' \in Row /\ row'.sid = row.sid /\ row'.media = row.media
              /\ row'.status = row.status /\ row'.terminal = row.terminal
          <5>1. PICK job \in {"needs_reconciliation", "active"} :
                  \E word \in {"stalled", "retry"} :
                    row' = [row EXCEPT !.reconciliation = word, !.attempts = row.attempts + 1,
                                       !.job = job]
            BY <4>1 DEF RetryOrStall
          <5>2. PICK word \in {"stalled", "retry"} :
                  row' = [row EXCEPT !.reconciliation = word, !.attempts = row.attempts + 1,
                                     !.job = job]
            BY <5>1
          <5> QED BY <1>1, <4>2, <5>2 DEF Row
        <4>4. PICK next \in 0..MaxBackoff \cup {Never} : due' = [due EXCEPT !.next = next]
          <5>1. CASE row.attempts + 1 >= MaxAttempts
            BY <4>1, <5>1 DEF RetryOrStall
          <5>2. CASE ~(row.attempts + 1 >= MaxAttempts)
            <6>1. RetryIn(row.attempts + 1) \in 1..MaxBackoff
              BY <4>2, BackoffBounds
            <6>2. RetryIn(row.attempts + 1) \in 0..MaxBackoff
              BY <6>1, Bounds
            <6> QED BY <4>1, <5>2, <6>2 DEF RetryOrStall
          <5> QED BY <5>1, <5>2
        <4>5. due' \in Due /\ due'.max = due.max
          BY <1>1, <4>4 DEF Due
        <4> QED BY <1>1, <1>2, <2>2, <4>3, <4>5 DEF EndInv, VerdictIsTheLegs
      <3> QED BY <3>1, <3>2, <3>3
    <2>4. ControlType'
      <3>1. rec' \in [pc : {"idle", "fetch", "request", "result"}, seen : Status]
        BY <1>4, <2>1
      <3> QED BY <1>1, <1>2, <2>1, <2>3, <3>1 DEF ControlType
    <2>5. DialInv'
      <3>1. dialer # "reject"
        BY <1>1, <2>2 DEF DialInv
      <3> QED BY <1>1, <1>2, <2>1, <2>2, <2>3, <3>1 DEF DialInv
    <2>6. RecInv'
      BY <1>4, <2>1 DEF RecInv
    <2>7. SpareInv'
      BY <1>1, <1>2, <2>1, <2>2, <2>3 DEF SpareInv, Reason
    <2> QED BY <1>3, <2>3, <2>4, <2>5, <2>6, <2>7 DEF ControlInv, VerdictInv
  <1> QED BY <1>5, <1>6, <1>7

----------------------------------------------------------------------------
(* Time                                                                    *)

\* A deadline never comes back, and stops at its floor.
LEMMA SoonerBounds ==
    ASSUME NEW floor \in Int, NEW limit \in Int, floor <= limit, limit < Never,
           NEW t \in floor..limit \cup {Never}
    PROVE  /\ Sooner(t, floor) \in floor..limit \cup {Never}
           /\ t = Never => Sooner(t, floor) = Never
           /\ t <= 0 => Sooner(t, floor) <= 0
  BY DEF Sooner, Never

\* Time.
LEMMA TickKeeps ==
    ASSUME ControlInv, Tick
    PROVE  ControlInv'
  <1>1. /\ ControlType /\ LegInv /\ DialInv /\ EndInv /\ RecInv /\ VerdictIsTheLegs /\ SpareInv
        /\ due \in Due /\ token \in Token
    BY DEF ControlInv, VerdictInv, ControlType
  <1>2. /\ dialer \in {"dial", "done", "unsure"}
        /\ UNCHANGED <<carrier, leg, past, row, flow, dialer, rec, failures, early>>
        /\ due' = [ring |-> Sooner(due.ring, 0), max |-> Sooner(due.max, -Grace),
                   next |-> Sooner(due.next, 0)]
        /\ token' = [t \in DOMAIN token |-> IF token[t] = 0 THEN 0 ELSE token[t] - 1]
    BY DEF Tick
  <1>3. /\ due' \in Due
        /\ due.ring = Never => due'.ring = Never
        /\ due.max = Never => due'.max = Never
        /\ due.max <= 0 => due'.max <= 0
    <2>1. /\ due.ring \in 0..RingSeconds \cup {Never}
          /\ due.max \in (-Grace)..MaxCallSeconds \cup {Never}
          /\ due.next \in 0..MaxBackoff \cup {Never}
      BY <1>1 DEF Due
    <2>2. /\ 0 \in Int /\ RingSeconds \in Int /\ 0 <= RingSeconds /\ RingSeconds < Never
          /\ MaxBackoff \in Int /\ 0 <= MaxBackoff /\ MaxBackoff < Never
          /\ -Grace \in Int /\ MaxCallSeconds \in Int /\ -Grace <= MaxCallSeconds
          /\ MaxCallSeconds < Never
      BY Bounds
    <2>3. /\ Sooner(due.ring, 0) \in 0..RingSeconds \cup {Never}
          /\ due.ring = Never => Sooner(due.ring, 0) = Never
      BY <2>1, <2>2, SoonerBounds
    <2>4. /\ Sooner(due.max, -Grace) \in (-Grace)..MaxCallSeconds \cup {Never}
          /\ due.max = Never => Sooner(due.max, -Grace) = Never
          /\ due.max <= 0 => Sooner(due.max, -Grace) <= 0
      BY <2>1, <2>2, SoonerBounds
    <2>5. Sooner(due.next, 0) \in 0..MaxBackoff \cup {Never}
      BY <2>1, <2>2, SoonerBounds
    <2> QED BY <1>2, <2>3, <2>4, <2>5 DEF Due
  <1>4. token' \in Token
    <2>1. DOMAIN token = {"stream", "callback", "flow"}
      BY <1>1 DEF Token
    <2>2. \A n \in Nat : \A m \in 0..n : (IF m = 0 THEN 0 ELSE m - 1) \in 0..n
      OBVIOUS
    <2>3. StreamTTL \in Nat /\ MaxCallSeconds + RetryMargin \in Nat
      BY Bounds
    <2>4. /\ token.stream \in 0..StreamTTL
          /\ token.callback \in 0..(MaxCallSeconds + RetryMargin)
          /\ token.flow \in 0..(MaxCallSeconds + RetryMargin)
      BY <1>1 DEF Token
    <2>5. /\ (IF token.stream = 0 THEN 0 ELSE token.stream - 1) \in 0..StreamTTL
          /\ (IF token.callback = 0 THEN 0 ELSE token.callback - 1)
                \in 0..(MaxCallSeconds + RetryMargin)
          /\ (IF token.flow = 0 THEN 0 ELSE token.flow - 1)
                \in 0..(MaxCallSeconds + RetryMargin)
      BY <2>2, <2>3, <2>4
    <2> QED BY <1>2, <2>1, <2>5 DEF Token
  <1>5. ControlType' /\ LegInv'
    BY <1>1, <1>2, <1>3, <1>4 DEF ControlType, LegInv
  <1>6. DialInv'
    BY <1>1, <1>2, <1>3 DEF DialInv
  <1>7. EndInv' /\ RecInv' /\ VerdictIsTheLegs'
    BY <1>1, <1>2 DEF EndInv, RecInv, VerdictIsTheLegs
  <1>8. SpareInv'
    BY <1>1, <1>2, <1>3 DEF SpareInv, Reason
  <1> QED BY <1>5, <1>6, <1>7, <1>8 DEF ControlInv, VerdictInv

----------------------------------------------------------------------------
(* The specification                                                       *)

\* The invariant holds before the dial.
LEMMA ControlStarts == ASSUME Init PROVE ControlInv
  <1>1. row \in Row /\ due \in Due /\ token \in Token
    <2>1. 0 \in 0..StreamTTL /\ 0 \in 0..(MaxCallSeconds + RetryMargin)
      BY Bounds
    <2> QED BY <2>1 DEF Init, Row, Due, Token, Status
  <1>2. ControlType
    <2>1. 0 \in 0..MaxFailures
      BY Bounds
    <2> QED BY <1>1, <2>1 DEF Init, ControlType, LegState, Status
  <1>3. LegInv /\ DialInv /\ EndInv /\ RecInv /\ VerdictIsTheLegs /\ SpareInv
    BY DEF Init, LegInv, DialInv, EndInv, RecInv, VerdictIsTheLegs, SpareInv, PROVIDER_TERMINAL
  <1> QED BY <1>2, <1>3 DEF ControlInv, VerdictInv

\* Every step keeps the invariant.
LEMMA ControlIsKept == ASSUME ControlInv, [Next]_vars PROVE ControlInv'
  <1>1. ASSUME NEW placed \in BOOLEAN, NEW reply \in {"id", "no id", "4xx", "5xx", "timeout"},
               Dial(placed, reply)
        PROVE  ControlInv'
    BY <1>1, DialKeeps
  <1>2. CASE DialerBinds \/ DialerGivesUp
    BY <1>2, DialerKeeps
  <1>3. CASE \/ DialerAbandons \/ CarrierMoves \/ RequestTerminal \/ RequestFails
             \/ \E verdict \in {"human", "machine"} : AmdWebhook(verdict)
    BY <1>3, LegActions
  <1>4. CASE TwilioStatus \/ ExotelStatus \/ TelerStatusWebhook
    BY <1>4, StatusActions
  <1>5. CASE TwimlWebhook \/ FlowWebhook
    BY <1>5, CorrelationKeeps
  <1>6. CASE TwilioMedia \/ ExotelMedia \/ TelerMedia
    BY <1>6, MediaKeeps
  <1>7. CASE ClaimAction \/ FetchStatus \/ ReconciliationResult
    BY <1>7, ReconcilerKeeps
  <1>8. CASE Tick
    BY <1>8, TickKeeps
  <1>9. CASE UNCHANGED vars
    BY <1>9 DEF vars, ControlInv, VerdictInv, ControlType, LegInv, DialInv, EndInv, RecInv,
                VerdictIsTheLegs, SpareInv, Reason
  <1> QED BY <1>1, <1>2, <1>3, <1>4, <1>5, <1>6, <1>7, <1>8, <1>9 DEF Next, Reconcile

\* The invariant of CarrierControl.
LEMMA ControlInvariant == Spec => []ControlInv
  <1>1. Init => ControlInv
    BY ControlStarts
  <1>2. ControlInv /\ [Next]_vars => ControlInv'
    BY ControlIsKept
  <1> QED BY <1>1, <1>2, PTL DEF Spec

\* Every variable keeps its type, whatever the settings: a deadline and a token
\* never leave their range, and the back-off never exceeds its limit.
THEOREM ControlTypes == Spec => []TypeOK
  <1>1. ControlInv => TypeOK
    BY DEF ControlInv, VerdictInv, ControlType, TypeOK, Row, Due, Token, LegState
  <1> QED BY <1>1, ControlInvariant, PTL

\* What a terminal row says of the call is what became of the leg, in every
\* carrier's words, however late or often a webhook comes and whatever the
\* reconciler was told before.
THEOREM VerdictIsTrue == Spec => []VerdictIsTheLegs
  <1>1. ControlInv => VerdictIsTheLegs
    BY DEF ControlInv, VerdictInv
  <1> QED BY <1>1, ControlInvariant, PTL

\* The reconciler does not hang up on a conversation before its maximum-call
\* deadline, but for the two exceptions that the property names.
THEOREM ConversationsAreSpared == Spec => ConversationIsSpared
  <1>1. ASSUME ControlInv
        PROVE  [RequestTerminal /\ row.media
                  => due.max <= 0 \/ early \/ dialer = "unsure"]_vars
    <2> SUFFICES ASSUME RequestTerminal /\ row.media
                 PROVE  due.max <= 0 \/ early \/ dialer = "unsure"
      OBVIOUS
    <2>1. rec.pc # "idle"
      BY DEF RequestTerminal
    <2> QED BY <1>1, <2>1 DEF ControlInv, SpareInv, Reason
  <1> QED BY <1>1, ControlInvariant, PTL DEF ConversationIsSpared
----------------------------------------------------------------------------
(* Time and settings                                                       *)

\* How long the first back-offs of a call are at most, all together.
Backoffs(attempts) ==
    CASE attempts = 0 -> 0
      [] attempts = 1 -> 1
      [] attempts = 2 -> 3
      [] attempts = 3 -> 7
      [] attempts = 4 -> 15
      [] attempts = 5 -> 31
      [] attempts >= 6 -> 63 + 32 * (attempts - 6)

\* The budget of attempts has one for each request that fails, and one for an
\* answer that comes between the lookup of the status and the request.
EnoughAttempts == MaxFailures + 1 < MaxAttempts

\* The sweep waits for all the back-offs that these attempts can need.
PatientSweep == EnoughAttempts /\ Backoffs(MaxFailures + 1) < Grace

\* Tokens outlive a ring that ends at its deadline, and callback tokens also a call
\* that begins at the end of it, and the back-offs at the end of that.
LastingTokens ==
    EnoughAttempts /\ RingSeconds < StreamTTL /\ RingSeconds + Backoffs(MaxFailures) < RetryMargin

\* A live leg has used up an attempt for each request that failed, and on Twilio
\* perhaps one for a cancellation that came after the answer.
Attempted == row.attempts + (IF rec.pc = "result" THEN 1 ELSE 0)
Crossed == IF carrier = "twilio" /\ "answered" \in past THEN 1 ELSE 0

AttemptInv ==
    /\ leg = "none" => row.attempts = 0
    /\ leg \in PreAnswer => "answered" \notin past
    /\ leg \in Live => Attempted <= failures + Crossed
    /\ leg \in Live /\ rec.pc = "request" /\ carrier = "twilio"
         /\ rec.seen \in {"queued", "ringing", "initiated"} => row.attempts <= failures

\* What is known of the row has its dates; a live leg is never given up.
DatesInv ==
    /\ row.sid => due.ring # Never /\ due.max # Never
    /\ ~row.sid => due.max = Never /\ row.reconciliation \in {"none", "ambiguous"}
    /\ dialer = "done" /\ leg \in Live => row.sid
    /\ row.media \/ flow => "answered" \in past
    /\ row.reconciliation = "checking" => rec.pc # "idle"
    /\ row.reconciliation = "ambiguous" => due.next = 0
    /\ row.reconciliation = "retry" => due.next # Never /\ row.attempts >= 1
    /\ row.reconciliation = "stalled" => leg \notin Live

\* Time over the deadline, and time since the dial, is spent in back-offs only.
NextRetry == IF row.reconciliation = "retry" THEN due.next ELSE 0

OverdueInv ==
    row.sid /\ leg \in Live =>
        /\ row.reconciliation = "none" => due.max >= 0
        /\ NextRetry - due.max <= Backoffs(row.attempts)

Talking == flow \/ carrier = "exotel"
NextDate == IF row.reconciliation # "none" THEN NextRetry
            ELSE IF Talking THEN due.max ELSE due.ring

CallbackInv ==
    carrier # "twilio" =>
        /\ dialer = "bind" => token.callback = CALLBACK_TOKEN_TTL
        /\ dialer = "done" /\ leg \in Live =>
             CALLBACK_TOKEN_TTL - token.callback + NextDate
               <= RingSeconds + (IF Talking THEN MaxCallSeconds ELSE 0) + Backoffs(row.attempts)

StreamInv ==
    carrier = "exotel" =>
        /\ dialer = "bind" => token.stream = StreamTTL
        /\ dialer = "done" /\ leg \in PreAnswer /\ row.attempts = 0 =>
             StreamTTL - token.stream + (IF row.reconciliation = "none" THEN due.ring ELSE 0)
               <= RingSeconds

TimeInv == AttemptInv /\ DatesInv /\ OverdueInv
TokenInv == CallbackInv /\ StreamInv

\* One more back-off is in the account of one more attempt.
LEMMA BackoffsGrow ==
    ASSUME NEW attempts \in Nat
    PROVE  /\ Backoffs(attempts) \in Nat
           /\ RetryIn(attempts + 1) \in 1..MaxBackoff
           /\ Backoffs(attempts) + RetryIn(attempts + 1) <= Backoffs(attempts + 1)
  <1> DEFINE exponent == (IF attempts + 1 < 6 THEN attempts + 1 ELSE 6) - 1
             delay == 2 ^ exponent
  <1>1. RetryIn(attempts + 1) \in 1..MaxBackoff
    BY BackoffBounds
  <1>2. RetryIn(attempts + 1) \in Int /\ delay \in Int /\ RetryIn(attempts + 1) <= delay
    <2>1. exponent \in {0, 1, 2, 3, 4, 5}
      OBVIOUS
    <2>2. 2 ^ 0 = 1 /\ 2 ^ 1 = 2 /\ 2 ^ 2 = 4 /\ 2 ^ 3 = 8 /\ 2 ^ 4 = 16 /\ 2 ^ 5 = 32
      OBVIOUS
    <2>3. RetryIn(attempts + 1) = IF delay > MaxBackoff THEN MaxBackoff ELSE delay
      BY DEF RetryIn
    <2> HIDE DEF exponent
    <2>4. delay \in {1, 2, 4, 8, 16, 32}
      BY <2>1, <2>2
    <2> HIDE DEF delay
    <2> QED BY <2>3, <2>4, Bounds
  <1>3. Backoffs(attempts) \in Nat
    BY DEF Backoffs
  <1>4. Backoffs(attempts + 1) = Backoffs(attempts) + delay
    <2>1. 2 ^ 0 = 1 /\ 2 ^ 1 = 2 /\ 2 ^ 2 = 4 /\ 2 ^ 3 = 8 /\ 2 ^ 4 = 16 /\ 2 ^ 5 = 32
      OBVIOUS
    <2>2. CASE attempts \in {0, 1, 2, 3, 4, 5}
      <3>1. exponent = attempts
        BY <2>2
      <3> HIDE DEF exponent
      <3>2. \/ attempts = 0 /\ delay = 1
            \/ attempts = 1 /\ delay = 2
            \/ attempts = 2 /\ delay = 4
            \/ attempts = 3 /\ delay = 8
            \/ attempts = 4 /\ delay = 16
            \/ attempts = 5 /\ delay = 32
        BY <2>1, <2>2, <3>1
      <3> HIDE DEF delay
      <3> QED BY <3>2 DEF Backoffs
    <2>3. CASE attempts >= 6
      <3>1. delay = 32
        BY <2>1, <2>3
      <3>2. Backoffs(attempts) = 63 + 32 * (attempts - 6)
        BY <2>3 DEF Backoffs
      <3>3. Backoffs(attempts + 1) = 63 + 32 * (attempts + 1 - 6)
        BY <2>3 DEF Backoffs
      <3> HIDE DEF delay
      <3> QED BY <3>1, <3>2, <3>3
    <2> QED BY <2>2, <2>3
  <1> HIDE DEF delay
  <1> QED BY <1>1, <1>2, <1>3, <1>4

\* Fewer attempts, fewer back-offs.
LEMMA BackoffsOrdered ==
    ASSUME NEW few \in Nat, NEW many \in Nat, few <= many
    PROVE  Backoffs(few) <= Backoffs(many)
  BY DEF Backoffs

\* The counters, dates and lives of tokens, as numbers.
LEMMA Numbers ==
    ASSUME ControlInv
    PROVE  /\ row.attempts \in Nat /\ failures \in Nat /\ failures <= MaxFailures
           /\ due.ring \in Int /\ due.ring >= 0 /\ due.ring <= Never
           /\ due.max \in Int /\ due.max >= -Grace /\ due.max <= Never
           /\ due.next \in Int /\ due.next >= 0 /\ due.next <= Never
           /\ token.callback \in Int /\ token.callback >= 0
           /\ token.stream \in Int /\ token.stream >= 0
           /\ CALLBACK_TOKEN_TTL \in Int /\ CALLBACK_TOKEN_TTL = MaxCallSeconds + RetryMargin
           /\ rec.pc \in {"idle", "fetch", "request", "result"}
           /\ row.reconciliation \in {"none", "ambiguous", "checking", "retry", "stalled"}
  <1>1. row \in Row /\ due \in Due /\ token \in Token /\ failures \in 0..MaxFailures
        /\ rec \in [pc : {"idle", "fetch", "request", "result"}, seen : Status]
    BY DEF ControlInv, VerdictInv, ControlType
  <1>2. row.attempts \in Nat
        /\ row.reconciliation \in {"none", "ambiguous", "checking", "retry", "stalled"}
    BY <1>1 DEF Row
  <1>3. /\ due.ring \in 0..RingSeconds \cup {Never}
        /\ due.max \in (-Grace)..MaxCallSeconds \cup {Never}
        /\ due.next \in 0..MaxBackoff \cup {Never}
    BY <1>1 DEF Due
  <1>4. token.callback \in 0..(MaxCallSeconds + RetryMargin) /\ token.stream \in 0..StreamTTL
    BY <1>1 DEF Token
  <1> QED BY <1>1, <1>2, <1>3, <1>4, Bounds DEF CALLBACK_TOKEN_TTL

\* The row of a live leg is open.
LEMMA LiveIsOpen ==
    ASSUME ControlInv, leg \in Live
    PROVE  ~row.terminal
  BY DEF ControlInv, VerdictInv, VerdictIsTheLegs, EndInv, Live, PreAnswer, PROVIDER_TERMINAL

\* What a live leg waits for is not over, or does not count.
LEMMA NotOver ==
    ASSUME ControlInv, TimeInv, row.sid, leg \in Live
    PROVE  NextRetry \in Nat /\ NextDate \in Nat
  BY Numbers DEF TimeInv, OverdueInv, NextRetry, NextDate

\* Steps that leave dates, tokens and attempts as they were: the leg may end, a socket
\* may take the row, the row may be closed with the leg.
LEMMA NothingDated ==
    ASSUME ControlInv, TimeInv, LegMoved, AttemptInv',
           UNCHANGED <<carrier, due, token, flow>>,
           row'.attempts = row.attempts, row'.sid = row.sid,
           row'.media => row.media \/ "answered" \in past,
           \/ row'.reconciliation = row.reconciliation
           \/ row'.reconciliation = "none" /\ leg' \notin Live,
           \/ dialer' = dialer
           \/ dialer' \in {"abandon", "done"} /\ leg' \notin Live,
           row'.reconciliation = "checking" => rec'.pc # "idle"
    PROVE  TimeInv' /\ (TokenInv => TokenInv')
  <1>1. /\ past \subseteq past'
        /\ leg \notin Live => leg' = leg
    BY MovedLeg DEF ControlInv, VerdictInv
  <1>2. leg' \in Live => leg \in Live /\ row'.reconciliation = row.reconciliation /\ dialer' = dialer
    BY <1>1
  <1>3. leg' \in PreAnswer => leg \in PreAnswer
    <2>1. leg' \in PreAnswer => leg' \in Live /\ "answered" \notin past
      BY <1>1 DEF AttemptInv, Live
    <2>2. leg = "answered" => "answered" \in past
      BY DEF ControlInv, VerdictInv, LegInv
    <2> QED BY <1>2, <2>1, <2>2 DEF Live
  <1>4. DatesInv'
    BY <1>1, <1>2 DEF TimeInv, DatesInv
  <1>5. OverdueInv'
    BY <1>2 DEF TimeInv, OverdueInv, NextRetry
  <1>6. CallbackInv => CallbackInv'
    BY <1>2 DEF CallbackInv, NextDate, NextRetry, Talking
  <1>7. StreamInv => StreamInv'
    BY <1>2, <1>3 DEF StreamInv, Live
  <1> QED BY <1>4, <1>5, <1>6, <1>7 DEF TimeInv, TokenInv

\* Twilio says that nobody has answered only of a leg that nobody has answered.
LEMMA AnswerIsSaid ==
    ASSUME carrier = "twilio", NEW state \in Live, NEW report \in Reports(state),
           normalize_status(report) \in {"queued", "ringing", "initiated"}
    PROVE  state \in PreAnswer
  <1>1. SUFFICES ASSUME state = "answered" PROVE FALSE
    BY DEF Live
  <1>2. report \in Says({"in-progress"}) /\ normalize_status(report) = report.word
    BY <1>1 DEF Reports, TwilioReports, normalize_status, TwilioStatusOf
  <1>3. report.word \in {"in-progress"}
    BY <1>2, SaidWords
  <1> QED BY <1>2, <1>3

\* A leg that moves, and the requests about it.
LEMMA LegMovesInTime ==
    ASSUME ControlInv, TimeInv,
           \/ CarrierMoves \/ DialerAbandons \/ RequestTerminal \/ RequestFails
           \/ \E verdict \in {"human", "machine"} : AmdWebhook(verdict)
    PROVE  TimeInv' /\ (TokenInv => TokenInv')
  <1>1. /\ ControlType /\ LegInv /\ DialInv /\ RecInv /\ AttemptInv /\ DatesInv /\ row \in Row
        /\ rec \in [pc : {"idle", "fetch", "request", "result"}, seen : Status]
    BY DEF ControlInv, VerdictInv, ControlType, TimeInv
  <1>2. row.attempts \in Nat /\ failures \in Nat
    BY Numbers
  <1>3. CASE CarrierMoves
    <2>1. LegMoved
      BY <1>1, <1>3 DEF CarrierMoves, BecomeLeg, LegMoved, LegInv, Live, PreAnswer, PROVIDER_TERMINAL
    <2>2. UNCHANGED <<carrier, row, due, token, flow, dialer, rec, failures, early>>
      BY <1>3 DEF CarrierMoves
    <2>3. AttemptInv'
      <3>1. leg \in Live /\ leg' # "none" /\ past \subseteq past'
            /\ (leg' \in PreAnswer => leg \in PreAnswer /\ past' = past \cup {"ringing"})
        BY <1>3 DEF CarrierMoves, BecomeLeg, Live, PreAnswer
      <3>2. Attempted' = Attempted
        BY <2>2 DEF Attempted
      <3>3. Crossed \in Nat /\ Crossed' \in Nat /\ Crossed' >= Crossed
        BY <2>2, <3>1 DEF Crossed
      <3>4. Attempted \in Nat
        BY <1>2 DEF Attempted
      <3>5. Attempted' <= failures' + Crossed'
        <4>1. Attempted <= failures + Crossed
          BY <1>1, <3>1 DEF AttemptInv
        <4>2. failures' = failures
          BY <2>2
        <4>3. \A a, f, c, d \in Nat : a <= f + c /\ d >= c => a <= f + d
          OBVIOUS
        <4>4. Attempted <= failures + Crossed'
          BY <1>2, <3>3, <3>4, <4>1, <4>3
        <4> QED BY <3>2, <4>2, <4>4
      <3>6. leg' \in PreAnswer => "answered" \notin past'
        BY <1>1, <3>1 DEF AttemptInv
      <3> QED BY <1>1, <2>2, <3>1, <3>5, <3>6 DEF AttemptInv
    <2>4. row'.reconciliation = "checking" => rec'.pc # "idle"
      BY <1>1, <2>2 DEF DatesInv
    <2> QED BY <2>1, <2>2, <2>3, <2>4, NothingDated
  <1>4. CASE DialerAbandons
    <2>1. leg \notin Live
      BY <1>1, <1>4 DEF DialerAbandons, DialInv
    <2>2. /\ LegMoved /\ UNCHANGED <<leg, past>>
      <3>1. request_terminal("completed") => UNCHANGED <<leg, past>>
        BY <2>1 DEF request_terminal, Terminal, TwilioTerminal, ExotelTerminal, TelerTerminal
      <3> QED BY <1>4, <3>1 DEF DialerAbandons, LegMoved
    <2>3. /\ UNCHANGED <<carrier, row, due, token, flow, rec, failures, early>>
          /\ dialer' = "done"
      BY <1>4 DEF DialerAbandons
    <2>4. AttemptInv'
      BY <1>1, <2>2, <2>3 DEF AttemptInv, Attempted, Crossed
    <2>5. row'.reconciliation = "checking" => rec'.pc # "idle"
      BY <1>1, <2>3 DEF DatesInv
    <2> QED BY <2>1, <2>2, <2>3, <2>4, <2>5, NothingDated
  <1>5. CASE RequestTerminal
    <2> DEFINE requested == terminal_request_for(rec.seen)
    <2>1. requested \in {"completed", "canceled"}
      BY DEF terminal_request_for
    <2>2. /\ carrier = "twilio" /\ requested = "completed" =>
                rec.seen \notin {"queued", "ringing", "initiated"}
          /\ carrier = "twilio" /\ requested = "canceled" =>
                rec.seen \in {"queued", "ringing", "initiated"}
      BY DEF terminal_request_for
    <2>3. request_terminal(requested) /\ rec.pc = "request"
          /\ UNCHANGED <<carrier, row, due, token, flow, dialer, failures, early>>
      BY <1>5 DEF RequestTerminal
    <2>4. rec'.pc = "result"
      BY <1>1, <1>5 DEF RequestTerminal
    <2> HIDE DEF requested
    <2>5. LegMoved
      BY <1>1, <2>1, <2>2, <2>3, RequestedLeg DEF RecInv
    <2>6. AttemptInv'
      <3>1. leg # "none"
        BY <1>1, <2>3 DEF RecInv, DialInv
      <3>2. CASE leg' \notin Live
        <4>1. leg' # "none"
          BY <1>1, <2>5, <3>1, MovedLeg
        <4> QED BY <3>2, <4>1 DEF AttemptInv, Live
      <3>3. CASE leg' \in Live
        <4>1. /\ UNCHANGED <<leg, past>> /\ leg = "answered"
              /\ carrier = "twilio" /\ requested = "canceled"
          <5>1. ~Terminal(requested)
            BY <2>1, <3>3 DEF Terminal, TwilioTerminal, ExotelTerminal, TelerTerminal, BecomeLeg,
                              Live, PreAnswer
          <5> QED BY <2>3, <3>3, <5>1 DEF request_terminal
        <4>2. row.attempts <= failures /\ "answered" \in past
          BY <1>1, <2>2, <2>3, <3>3, <4>1 DEF AttemptInv, LegInv
        <4>3. Attempted' = row.attempts + 1 /\ Crossed' = 1
          BY <2>3, <2>4, <4>1, <4>2 DEF Attempted, Crossed
        <4> QED BY <1>2, <2>3, <2>4, <3>3, <4>1, <4>2, <4>3 DEF AttemptInv, Live, PreAnswer
      <3> QED BY <3>2, <3>3
    <2> QED BY <2>3, <2>4, <2>5, <2>6, NothingDated
  <1>6. CASE RequestFails
    <2>1. /\ rec.pc \in {"fetch", "request"} /\ failures' = failures + 1
          /\ UNCHANGED <<carrier, leg, past, row, due, token, flow, dialer, early>>
          /\ rec'.pc = "result"
      BY <1>1, <1>6 DEF RequestFails
    <2>2. AttemptInv'
      <3>1. Attempted' = Attempted + 1 /\ Attempted = row.attempts
        BY <1>2, <2>1 DEF Attempted
      <3>2. Crossed' = Crossed /\ Crossed \in Nat
        BY <2>1 DEF Crossed
      <3> QED BY <1>1, <1>2, <2>1, <3>1, <3>2 DEF AttemptInv
    <2> QED BY <2>1, <2>2, NothingDated DEF LegMoved
  <1>7. CASE \E verdict \in {"human", "machine"} : AmdWebhook(verdict)
    <2>1. PICK verdict \in {"human", "machine"} : AmdWebhook(verdict)
      BY <1>7
    <2>2. /\ carrier = "twilio" /\ "answered" \in past
          /\ UNCHANGED <<carrier, due, token, flow, dialer, rec, failures, early>>
          /\ row'.attempts = row.attempts /\ row'.sid = row.sid /\ row'.media = row.media
          /\ row'.reconciliation = row.reconciliation
      BY <1>1, <2>1 DEF AmdWebhook, record_answered_by, Row
    <2>3. LegMoved
      <3>1. request_terminal("completed") => LegMoved
        BY <1>1, <2>2, RequestedLeg
      <3> QED BY <2>1, <3>1 DEF AmdWebhook, LegMoved
    <2>4. leg' \in Live => UNCHANGED <<leg, past>>
      <3>1. leg' \in Live => ~Terminal("completed")
        BY <2>2 DEF Terminal, TwilioTerminal, BecomeLeg, Live, PreAnswer
      <3> QED BY <2>1, <3>1 DEF AmdWebhook, request_terminal
    <2>5. AttemptInv'
      <3>1. leg # "none" /\ leg' # "none"
        BY <1>1, <2>2, <2>3, MovedLeg DEF LegInv
      <3> QED BY <1>1, <2>2, <2>4, <3>1 DEF AttemptInv, Attempted, Crossed, Live
    <2>6. row'.reconciliation = "checking" => rec'.pc # "idle"
      BY <1>1, <2>2 DEF DatesInv
    <2> QED BY <2>2, <2>3, <2>5, <2>6, NothingDated
  <1> QED BY <1>3, <1>4, <1>5, <1>6, <1>7

----------------------------------------------------------------------------
(* The dial, the webhooks and the media, in time                           *)

\* A dial begins with no attempt made and no date set.
LEMMA DialledInTime ==
    ASSUME ControlInv, TimeInv, dialer = "dial",
           UNCHANGED <<carrier, row, due, flow, rec, failures>>,
           \/ leg' = "queued" /\ past' = past \cup {"queued"}
           \/ UNCHANGED <<leg, past>>,
           dialer' \in {"bind", "reject", "ambiguous"}
    PROVE  TimeInv'
  <1>1. /\ DialInv /\ LegInv /\ RecInv /\ AttemptInv /\ DatesInv
    BY DEF ControlInv, VerdictInv, TimeInv
  <1>2. /\ leg = "none" /\ past = {} /\ due.max = Never
        /\ rec.pc = "idle" /\ row.reconciliation = "none" /\ ~row.sid /\ row.attempts = 0
    BY <1>1 DEF DialInv, LegInv, AttemptInv
  <1>3. failures \in Nat
    BY Numbers
  <1>4. AttemptInv'
    <2>1. Attempted' = 0
      BY <1>2 DEF Attempted
    <2>2. "answered" \notin past'
      BY <1>2
    <2>3. Crossed' = 0
      BY <2>2 DEF Crossed
    <2> QED BY <1>2, <1>3, <2>1, <2>2, <2>3 DEF AttemptInv
  <1>5. DatesInv' /\ OverdueInv'
    BY <1>1, <1>2 DEF DatesInv, OverdueInv
  <1> QED BY <1>4, <1>5 DEF TimeInv

\* The tokens are minted with the dial.
LEMMA DialInTime ==
    ASSUME ControlInv, TimeInv, NEW placed \in BOOLEAN,
           NEW reply \in {"id", "no id", "4xx", "5xx", "timeout"}, Dial(placed, reply)
    PROVE  TimeInv' /\ TokenInv'
  <1>1. Submit(placed, reply)
    BY DEF Dial, TwilioDial, ExotelDial, TelerDial
  <1>2. /\ dialer = "dial" /\ UNCHANGED <<carrier, row, due, flow, rec, failures, early>>
        /\ \/ leg' = "queued" /\ past' = past \cup {"queued"}
           \/ UNCHANGED <<leg, past>>
        /\ dialer' \in {"bind", "reject", "ambiguous"}
    BY <1>1 DEF Submit, BecomeLeg, classify_dial_error
  <1>3. TimeInv'
    BY <1>2, DialledInTime
  <1>4. token \in Token
    BY DEF ControlInv, VerdictInv, ControlType
  <1>5. /\ carrier = "exotel" => token'.callback = CALLBACK_TOKEN_TTL /\ token'.stream = StreamTTL
        /\ carrier = "teler" => token'.callback = CALLBACK_TOKEN_TTL
    <2>1. CASE carrier = "exotel"
      <3>1. token' = [token EXCEPT !.stream = media_stream_url, !.callback = status_callback_url]
        BY <2>1 DEF Dial, TwilioDial, ExotelDial, TelerDial
      <3> QED BY <1>4, <2>1, <3>1 DEF Token, media_stream_url, status_callback_url
    <2>2. CASE carrier = "teler"
      <3>1. token' = [token EXCEPT !.flow = teler_flow_url, !.callback = status_callback_url]
        BY <2>2 DEF Dial, TwilioDial, ExotelDial, TelerDial
      <3> QED BY <1>4, <2>2, <3>1 DEF Token, status_callback_url
    <2> QED BY <2>1, <2>2
  <1>6. carrier \in {"twilio", "exotel", "teler"}
    BY ControlAssumption DEF ControlInv, VerdictInv, ControlType
  <1>7. TokenInv'
    BY <1>2, <1>5, <1>6 DEF TokenInv, CallbackInv, StreamInv, CALLBACK_TOKEN_TTL
  <1> QED BY <1>3, <1>7

\* What becomes of the dates when the call's id is bound.
LEMMA BoundDates ==
    ASSUME row \in Row, due \in Due, bind_call_sid
    PROVE  /\ row'.attempts = row.attempts /\ row'.sid /\ row'.media = row.media
           /\ row'.reconciliation = "none"
           /\ due'.ring = RingSeconds /\ due'.max = MaxCallSeconds
           /\ due'.ring # Never /\ due'.max # Never
  BY Bounds DEF bind_call_sid, Row, Due

\* What _dial does after the carrier has answered.
LEMMA DialerInTime ==
    ASSUME ControlInv, TimeInv, DialerBinds \/ DialerGivesUp
    PROVE  TimeInv' /\ (TokenInv => TokenInv')
  <1>1. /\ DialInv /\ AttemptInv /\ DatesInv /\ OverdueInv /\ row \in Row /\ due \in Due
    BY DEF ControlInv, VerdictInv, ControlType, TimeInv
  <1>2. UNCHANGED <<carrier, leg, past, token, flow, rec, failures, early>>
    BY DEF DialerBinds, DialerGivesUp
  <1>3. row'.attempts = row.attempts => AttemptInv'
    BY <1>1, <1>2 DEF AttemptInv, Attempted, Crossed
  <1>4. row.terminal => leg \notin Live
    BY LiveIsOpen
  <1>5. CASE row.terminal \/ dialer = "reject"
    <2>1. /\ row'.attempts = row.attempts /\ row'.sid = row.sid /\ row'.media = row.media
          /\ row'.reconciliation = row.reconciliation /\ UNCHANGED due
      BY <1>1, <1>5 DEF DialerBinds, DialerGivesUp, mark_reconciliation, Row
    <2>2. leg \notin Live
      BY <1>1, <1>4, <1>5 DEF DialInv, Live, PreAnswer
    <2>3. dialer' \in {"abandon", "done", "unsure"}
      BY <1>1 DEF DialerBinds, DialerGivesUp
    <2>4. DatesInv' /\ OverdueInv'
      BY <1>1, <1>2, <2>1, <2>2 DEF DatesInv, OverdueInv
    <2>5. TokenInv'
      BY <1>2, <2>2, <2>3 DEF TokenInv, CallbackInv, StreamInv, Live
    <2> QED BY <1>3, <2>1, <2>4, <2>5 DEF TimeInv
  <1>6. CASE DialerBinds /\ ~row.terminal
    <2>1. dialer = "bind" /\ dialer' = "done" /\ bind_call_sid
      BY <1>6 DEF DialerBinds
    <2>2. /\ row'.attempts = row.attempts /\ row'.sid /\ row'.media = row.media
          /\ row'.reconciliation = "none"
          /\ due'.ring = RingSeconds /\ due'.max = MaxCallSeconds
          /\ due'.ring # Never /\ due'.max # Never
      BY <1>1, <2>1, BoundDates
    <2>3. row.attempts \in Nat /\ Backoffs(row.attempts) \in Nat
      BY Numbers, BackoffsGrow
    <2>4. DatesInv'
      BY <1>1, <1>2, <2>2 DEF DatesInv
    <2>5. OverdueInv'
      BY <2>2, <2>3, Bounds DEF OverdueInv, NextRetry
    <2>6. CallbackInv => CallbackInv'
      <3>1. NextDate' = IF Talking' THEN MaxCallSeconds ELSE RingSeconds
        BY <2>2 DEF NextDate
      <3>2. CALLBACK_TOKEN_TTL \in Int
        BY Numbers
      <3> QED BY <1>2, <2>1, <2>2, <2>3, <3>1, <3>2, Bounds DEF CallbackInv, Talking, CALLBACK_TOKEN_TTL
    <2>7. StreamInv => StreamInv'
      BY <1>2, <2>1, <2>2, Bounds DEF StreamInv
    <2> QED BY <1>3, <2>2, <2>4, <2>5, <2>6, <2>7 DEF TimeInv, TokenInv
  <1>7. CASE DialerGivesUp /\ dialer = "ambiguous" /\ ~row.terminal
    <2>1. /\ dialer' = "unsure"
          /\ row' = [row EXCEPT !.job = "needs_reconciliation", !.reconciliation = "ambiguous"]
          /\ due' = [due EXCEPT !.next = 0]
      BY <1>7 DEF DialerGivesUp, mark_reconciliation
    <2>2. /\ row'.attempts = row.attempts /\ row'.sid = row.sid /\ row'.media = row.media
          /\ row'.reconciliation = "ambiguous"
          /\ due'.next = 0 /\ due'.max = due.max /\ due'.ring = due.ring
      BY <1>1, <2>1 DEF Row, Due
    <2>3. row.attempts \in Nat /\ Backoffs(row.attempts) \in Nat /\ due.max \in Int
      BY Numbers, BackoffsGrow
    <2>4. DatesInv'
      BY <1>1, <1>2, <2>1, <2>2 DEF DatesInv
    <2>5. OverdueInv'
      <3>1. row.sid /\ leg \in Live => NextRetry \in Nat
        BY NotOver
      <3> QED BY <1>1, <1>2, <2>2, <2>3, <3>1 DEF OverdueInv, NextRetry
    <2>6. TokenInv'
      BY <2>1 DEF TokenInv, CallbackInv, StreamInv
    <2> QED BY <1>3, <2>2, <2>4, <2>5, <2>6 DEF TimeInv
  <1> QED BY <1>5, <1>6, <1>7 DEF DialerGivesUp

\* A status of the call, with the call's id if nobody knew it.
LEMMA WebhookInTime ==
    ASSUME ControlInv, TimeInv, leg # "none", NEW status \in Status \ {"none"},
           status \in PROVIDER_TERMINAL => leg = status, Webhook(status)
    PROVE  TimeInv' /\ (TokenInv => TokenInv')
  <1>1. /\ RecInv /\ AttemptInv /\ DatesInv /\ OverdueInv /\ row \in Row /\ due \in Due
    BY DEF ControlInv, VerdictInv, ControlType, TimeInv
  <1>2. /\ provider_status(status)
        /\ UNCHANGED <<carrier, leg, past, token, flow, dialer, rec, failures, early>>
    BY DEF Webhook
  <1>3. leg \in Live => status \notin PROVIDER_TERMINAL
    BY DEF Live, PreAnswer, PROVIDER_TERMINAL
  <1> DEFINE bound == IF row.sid THEN row ELSE [row EXCEPT !.sid = TRUE, !.job = "active"]
  <1>4. /\ bound \in Row /\ bound.sid /\ bound.attempts = row.attempts /\ bound.media = row.media
        /\ bound.reconciliation = row.reconciliation
        /\ row' = Statused(bound, status)
    BY <1>1, <1>2 DEF Row, provider_status
  <1> HIDE DEF bound
  <1>5. /\ row'.sid /\ row'.attempts = row.attempts /\ row'.media = row.media
        /\ \/ row'.reconciliation = row.reconciliation
           \/ row'.reconciliation = "none" /\ leg \notin Live
    BY <1>3, <1>4 DEF Statused, Row
  <1>6. AttemptInv'
    BY <1>1, <1>2, <1>5 DEF AttemptInv, Attempted, Crossed
  <1>7. CASE row.sid
    <2>1. UNCHANGED due
      BY <1>2, <1>7 DEF provider_status
    <2>2. row'.reconciliation = "checking" => rec'.pc # "idle"
      BY <1>1, <1>2, <1>5 DEF DatesInv
    <2> QED BY <1>2, <1>5, <1>6, <1>7, <2>1, <2>2, NothingDated DEF LegMoved
  <1>8. CASE ~row.sid
    <2>1. due' = [due EXCEPT !.ring = IF due.ring = Never THEN RingSeconds ELSE due.ring,
                             !.max = IF due.max = Never THEN MaxCallSeconds ELSE due.max]
      BY <1>2, <1>8 DEF provider_status
    <2>2. due'.ring # Never /\ due'.max = MaxCallSeconds /\ due'.max # Never /\ due'.next = due.next
      BY <1>1, <1>8, <2>1, Bounds DEF DatesInv, Due
    <2>3. row.reconciliation \in {"none", "ambiguous"} /\ ~(dialer = "done" /\ leg \in Live)
      BY <1>1, <1>8 DEF DatesInv
    <2>4. DatesInv'
      BY <1>1, <1>2, <1>5, <2>2, <2>3 DEF DatesInv
    <2>5. row.attempts \in Nat /\ Backoffs(row.attempts) \in Nat
      BY Numbers, BackoffsGrow
    <2>6. OverdueInv'
      BY <1>5, <2>2, <2>3, <2>5, Bounds DEF OverdueInv, NextRetry
    <2>7. TokenInv => TokenInv'
      BY <1>2, <2>3 DEF TokenInv, CallbackInv, StreamInv, Live
    <2> QED BY <1>6, <2>4, <2>6, <2>7 DEF TimeInv
  <1> QED BY <1>7, <1>8

\* The status webhooks of the three carriers.
LEMMA StatusInTime ==
    ASSUME ControlInv, TimeInv, TwilioStatus \/ ExotelStatus \/ TelerStatusWebhook
    PROVE  TimeInv' /\ (TokenInv => TokenInv')
  <1>1. leg # "none"
    BY TrueStatus
  <1>2. PICK status \in Status \ {"none"} :
          Webhook(status) /\ (status \in PROVIDER_TERMINAL => leg = status)
    BY TrueStatus
  <1> QED BY <1>1, <1>2, WebhookInTime

\* The request for instructions: the deadlines begin again.
LEMMA CorrelationInTime ==
    ASSUME ControlInv, TimeInv, TwimlWebhook \/ FlowWebhook
    PROVE  TimeInv' /\ (TokenInv => TokenInv')
  <1>1. /\ LegInv /\ DialInv /\ AttemptInv /\ DatesInv /\ OverdueInv
        /\ row \in Row /\ due \in Due /\ token \in Token
    BY DEF ControlInv, VerdictInv, ControlType, TimeInv
  <1>2. /\ carrier # "exotel" /\ "answered" \in past /\ ~flow
        /\ \E stream : Correlated(stream)
        /\ UNCHANGED <<carrier, leg, past, dialer, rec, failures, early>>
    BY DEF TwimlWebhook, FlowWebhook, Correlated
  <1>3. CASE row.terminal
    <2>1. /\ mark_reconciliation /\ UNCHANGED <<token, flow>>
      BY <1>2, <1>3 DEF Correlated
    <2>2. /\ UNCHANGED due /\ row'.attempts = row.attempts /\ row'.sid = row.sid
          /\ row'.reconciliation = row.reconciliation /\ row'.media = row.media
      BY <1>1, <1>3, <2>1 DEF mark_reconciliation, Row
    <2>3. AttemptInv'
      BY <1>1, <1>2, <2>2 DEF AttemptInv, Attempted, Crossed
    <2>4. row'.reconciliation = "checking" => rec'.pc # "idle"
      BY <1>1, <1>2, <2>2 DEF DatesInv
    <2> QED BY <1>2, <2>1, <2>2, <2>3, <2>4, NothingDated DEF LegMoved
  <1>4. CASE ~row.terminal
    <2>1. PICK stream : bind_call_sid /\ token' = [token EXCEPT !.stream = stream] /\ flow' = TRUE
      BY <1>2, <1>4 DEF Correlated
    <2>2. /\ row'.attempts = row.attempts /\ row'.sid /\ row'.media = row.media
          /\ row'.reconciliation = "none"
          /\ due'.ring = RingSeconds /\ due'.max = MaxCallSeconds
          /\ due'.ring # Never /\ due'.max # Never
      BY <1>1, <2>1, BoundDates
    <2>3. token'.callback = token.callback
      BY <1>1, <2>1 DEF Token
    <2>4. row.attempts \in Nat /\ Backoffs(row.attempts) \in Nat
      BY Numbers, BackoffsGrow
    <2>5. AttemptInv'
      BY <1>1, <1>2, <2>2 DEF AttemptInv, Attempted, Crossed
    <2>6. DatesInv'
      BY <1>1, <1>2, <2>2 DEF DatesInv
    <2>7. OverdueInv'
      BY <2>2, <2>4, Bounds DEF OverdueInv, NextRetry
    <2>8. CallbackInv => CallbackInv'
      <3>1. SUFFICES ASSUME CallbackInv, carrier # "twilio", dialer = "done", leg \in Live
                     PROVE  CALLBACK_TOKEN_TTL - token.callback + MaxCallSeconds
                              <= RingSeconds + MaxCallSeconds + Backoffs(row.attempts)
        BY <1>2, <2>1, <2>2, <2>3 DEF CallbackInv, NextDate, Talking, CALLBACK_TOKEN_TTL
      <3>2. row.sid
        BY <1>1, <3>1 DEF DatesInv
      <3>3. NextDate \in Nat
        BY <3>1, <3>2, NotOver
      <3>4. CALLBACK_TOKEN_TTL - token.callback + NextDate <= RingSeconds + Backoffs(row.attempts)
        BY <1>2, <2>4, <3>1, Bounds DEF CallbackInv, Talking
      <3> QED BY <2>4, <3>3, <3>4, Numbers, Bounds
    <2>9. StreamInv'
      BY <1>2 DEF StreamInv
    <2> QED BY <2>5, <2>6, <2>7, <2>8, <2>9 DEF TimeInv, TokenInv
  <1> QED BY <1>3, <1>4

\* A media socket that takes the row was opened by a phone that was answered.
LEMMA MediaInTime ==
    ASSUME ControlInv, TimeInv, TwilioMedia \/ ExotelMedia \/ TelerMedia
    PROVE  TimeInv' /\ (TokenInv => TokenInv')
  <1>1. AttemptInv /\ DatesInv /\ row \in Row
    BY DEF ControlInv, VerdictInv, ControlType, TimeInv
  <1>2. claim_media /\ (flow \/ "answered" \in past)
    BY DEF TwilioMedia, ExotelMedia, TelerMedia
  <1>3. /\ UNCHANGED <<carrier, leg, past, due, token, flow, dialer, rec, failures, early>>
        /\ row'.attempts = row.attempts /\ row'.sid = row.sid
        /\ row'.reconciliation = row.reconciliation
    BY <1>1, <1>2 DEF claim_media, Row
  <1>4. "answered" \in past
    BY <1>1, <1>2 DEF DatesInv
  <1>5. AttemptInv'
    BY <1>1, <1>3 DEF AttemptInv, Attempted, Crossed
  <1>6. row'.reconciliation = "checking" => rec'.pc # "idle"
    BY <1>1, <1>3 DEF DatesInv
  <1> QED BY <1>3, <1>4, <1>5, <1>6, NothingDated DEF LegMoved

----------------------------------------------------------------------------
(* The reconciler and the clock, in time                                   *)

\* The reconciler takes the call, or looks its status up.
LEMMA LookupInTime ==
    ASSUME ControlInv, TimeInv, ClaimAction \/ FetchStatus
    PROVE  TimeInv' /\ (TokenInv => TokenInv')
  <1>1. /\ LegInv /\ DialInv /\ RecInv /\ AttemptInv /\ DatesInv /\ OverdueInv
        /\ row \in Row /\ due \in Due
        /\ carrier \in Carriers /\ leg \in LegState
    BY DEF ControlInv, VerdictInv, ControlType, TimeInv
  <1>2. /\ UNCHANGED <<carrier, leg, past, due, token, flow, dialer, failures>>
    BY DEF ClaimAction, FetchStatus
  <1>3. row.attempts \in Nat /\ failures \in Nat /\ due.max \in Int /\ due.ring \in Int /\ due.ring >= 0
        /\ Backoffs(row.attempts) \in Nat /\ token.callback \in Int /\ token.stream \in Int
        /\ CALLBACK_TOKEN_TTL \in Int
    BY Numbers, BackoffsGrow
  <1>4. CASE ClaimAction
    <2>1. /\ rec.pc = "idle" /\ row.sid /\ rec'.pc = "fetch"
          /\ row' = [row EXCEPT !.reconciliation = "checking", !.job = "canceling"]
      BY <1>4 DEF ClaimAction, Actionable
    <2>2. /\ row'.attempts = row.attempts /\ row'.sid = row.sid /\ row'.media = row.media
          /\ row'.reconciliation = "checking"
      BY <1>1, <2>1 DEF Row
    <2>3. AttemptInv'
      <3>1. Attempted' = Attempted /\ Crossed' = Crossed
        BY <1>2, <2>1, <2>2 DEF Attempted, Crossed
      <3> QED BY <1>1, <1>2, <2>1, <2>2, <3>1 DEF AttemptInv
    <2>4. DatesInv'
      BY <1>1, <1>2, <2>1, <2>2 DEF DatesInv
    <2>5. leg \in Live => NextRetry \in Nat /\ NextDate \in Nat
      BY <2>1, NotOver
    <2>6. NextRetry' = 0 /\ NextDate' = 0
      BY <2>2 DEF NextRetry, NextDate
    <2>7. OverdueInv'
      BY <1>1, <1>2, <1>3, <2>1, <2>2, <2>5, <2>6 DEF OverdueInv
    <2>8. CallbackInv => CallbackInv'
      <3>1. Talking' = Talking
        BY <1>2 DEF Talking
      <3> QED BY <1>2, <1>3, <2>2, <2>5, <2>6, <3>1, Bounds DEF CallbackInv, CALLBACK_TOKEN_TTL
    <2>9. StreamInv => StreamInv'
      BY <1>2, <1>3, <2>2, Bounds DEF StreamInv
    <2> QED BY <2>3, <2>4, <2>7, <2>8, <2>9 DEF TimeInv, TokenInv
  <1>5. CASE FetchStatus
    <2>1. PICK report \in Reports(leg) :
            /\ rec.pc = "fetch" /\ UNCHANGED <<row, due, early>>
            /\ rec' = [pc |-> IF normalize_status(report) \in PROVIDER_TERMINAL
                              THEN "result" ELSE "request",
                       seen |-> normalize_status(report)]
      BY <1>5 DEF FetchStatus
    <2>2. leg \in Live \cup PROVIDER_TERMINAL
      BY <1>1, <2>1 DEF RecInv, DialInv, LegState
    <2>3. Told(leg, report)
      BY <1>1, <2>2, Words
    <2>4. leg \in Live => rec'.pc = "request" /\ rec'.seen = normalize_status(report)
      BY <2>1, <2>3 DEF Told, Live, PreAnswer, PROVIDER_TERMINAL
    <2>5. AttemptInv'
      <3>1. leg \in Live => Attempted' = Attempted /\ Crossed' = Crossed /\ Attempted = row.attempts
        BY <1>2, <1>3, <2>1, <2>4 DEF Attempted, Crossed
      <3>2. leg \in Live /\ carrier = "twilio" /\ rec'.seen \in {"queued", "ringing", "initiated"}
              => row.attempts <= failures
        <4>1. SUFFICES ASSUME leg \in Live, carrier = "twilio",
                              rec'.seen \in {"queued", "ringing", "initiated"}
                       PROVE  row.attempts <= failures
          OBVIOUS
        <4>2. leg \in PreAnswer
          BY <2>4, <4>1, AnswerIsSaid
        <4>3. Attempted <= failures + Crossed /\ Crossed = 0
          BY <1>1, <4>1, <4>2 DEF AttemptInv, Crossed
        <4> QED BY <1>3, <3>1, <4>1, <4>3
      <3> QED BY <1>1, <1>2, <2>1, <3>1, <3>2 DEF AttemptInv
    <2>6. row'.reconciliation = "checking" => rec'.pc # "idle"
      BY <2>1
    <2> QED BY <1>2, <2>1, <2>5, <2>6, NothingDated DEF LegMoved
  <1> QED BY <1>4, <1>5

\* The outcome of an attempt: a live leg is tried again.
LEMMA ResultInTime ==
    ASSUME EnoughAttempts, ControlInv, TimeInv, ReconciliationResult
    PROVE  TimeInv' /\ (TokenInv => TokenInv')
  <1>1. /\ LegInv /\ DialInv /\ RecInv /\ AttemptInv /\ DatesInv /\ OverdueInv
        /\ row \in Row /\ due \in Due
    BY DEF ControlInv, VerdictInv, ControlType, TimeInv
  <1>2. /\ UNCHANGED <<carrier, leg, past, token, flow, dialer, failures, early>>
        /\ rec.pc = "result" /\ rec'.pc = "idle"
    BY DEF ReconciliationResult
  <1>3. row.attempts \in Nat /\ failures \in Nat /\ due.max \in Int
        /\ failures <= MaxFailures /\ token.callback \in Int
        /\ CALLBACK_TOKEN_TTL \in Int
    BY Numbers
  <1>4. row.sid /\ leg # "none"
    BY <1>1, <1>2 DEF RecInv, DialInv
  <1>5. Attempted = row.attempts + 1
    BY <1>2 DEF Attempted
  <1>6. CASE rec.seen \in PROVIDER_TERMINAL \/ row.terminal
    <2>1. leg \notin Live
      <3>1. CASE row.terminal
        BY <3>1, LiveIsOpen
      <3>2. CASE rec.seen \in PROVIDER_TERMINAL
        BY <1>1, <3>2 DEF RecInv, Live, PreAnswer, PROVIDER_TERMINAL
      <3> QED BY <1>6, <3>1, <3>2
    <2>2. /\ UNCHANGED due /\ row'.attempts = row.attempts /\ row'.sid = row.sid
          /\ row'.media = row.media /\ row'.reconciliation = "none"
      BY <1>1, <1>6 DEF ReconciliationResult, Statused, Row
    <2>3. AttemptInv'
      BY <1>1, <1>2, <1>4, <2>1, <2>2 DEF AttemptInv, Live
    <2> QED BY <1>2, <2>1, <2>2, <2>3, NothingDated DEF LegMoved
  <1>7. CASE rec.seen \notin PROVIDER_TERMINAL /\ ~row.terminal
    <2>1. RetryOrStall
      BY <1>7 DEF ReconciliationResult
    <2>2. /\ row'.attempts = row.attempts + 1 /\ row'.sid = row.sid /\ row'.media = row.media
          /\ due'.ring = due.ring /\ due'.max = due.max
          /\ \/ row'.reconciliation = "stalled" /\ row.attempts + 1 >= MaxAttempts
             \/ row'.reconciliation = "retry" /\ due'.next = RetryIn(row.attempts + 1)
      BY <1>1, <2>1 DEF RetryOrStall, Row, Due
    <2>3. /\ Backoffs(row.attempts) \in Nat /\ RetryIn(row.attempts + 1) \in 1..MaxBackoff
          /\ Backoffs(row.attempts) + RetryIn(row.attempts + 1) <= Backoffs(row.attempts + 1)
          /\ Backoffs(row.attempts + 1) \in Nat
      BY <1>3, BackoffsGrow
    <2>4. leg \in Live => row'.reconciliation = "retry"
      <3>1. SUFFICES ASSUME leg \in Live PROVE ~(row.attempts + 1 >= MaxAttempts)
        BY <2>2
      <3>2. Attempted <= failures + Crossed /\ Crossed \in {0, 1}
        BY <1>1, <3>1 DEF AttemptInv, Crossed
      <3> QED BY <1>3, <1>5, <3>2, Bounds DEF EnoughAttempts
    <2>5. AttemptInv'
      <3>1. Attempted' = row.attempts + 1 /\ Crossed' = Crossed
        BY <1>2, <1>3, <2>2 DEF Attempted, Crossed
      <3> QED BY <1>1, <1>2, <1>4, <1>5, <3>1 DEF AttemptInv
    <2>6. DatesInv'
      <3>1. row'.reconciliation = "retry" => due'.next # Never /\ row'.attempts >= 1
        BY <1>3, <2>2, <2>3, Bounds
      <3>2. row'.reconciliation \in {"stalled", "retry"}
        BY <2>2
      <3> QED BY <1>1, <1>2, <1>4, <2>2, <2>4, <3>1, <3>2 DEF DatesInv
    <2>7. leg \in Live => /\ NextRetry \in Nat /\ NextDate \in Nat
                          /\ NextRetry' = RetryIn(row.attempts + 1) /\ NextDate' = NextRetry'
      BY <1>4, <2>2, <2>4, NotOver DEF NextRetry, NextDate
    <2>8. OverdueInv'
      <3>1. SUFFICES ASSUME leg \in Live PROVE NextRetry' - due.max <= Backoffs(row.attempts + 1)
        BY <1>2, <2>2, <2>4 DEF OverdueInv
      <3>2. NextRetry - due.max <= Backoffs(row.attempts)
        BY <1>1, <1>4, <3>1 DEF OverdueInv
      <3> QED BY <1>3, <2>3, <2>7, <3>1, <3>2
    <2>9. CallbackInv => CallbackInv'
      <3> DEFINE most == RingSeconds + (IF Talking THEN MaxCallSeconds ELSE 0)
      <3>1. Talking' = Talking /\ most \in Int
        BY <1>2, Bounds DEF Talking
      <3>2. SUFFICES ASSUME CallbackInv, carrier # "twilio", dialer = "done", leg \in Live
                     PROVE  CALLBACK_TOKEN_TTL - token.callback + NextDate'
                              <= most + Backoffs(row.attempts + 1)
        BY <1>2, <2>2, <3>1 DEF CallbackInv, CALLBACK_TOKEN_TTL
      <3>3. CALLBACK_TOKEN_TTL - token.callback + NextDate <= most + Backoffs(row.attempts)
        BY <3>2 DEF CallbackInv
      <3> HIDE DEF most
      <3> QED BY <1>3, <2>3, <2>7, <3>1, <3>2, <3>3
    <2>10. StreamInv => StreamInv'
      BY <1>2, <1>3, <2>2 DEF StreamInv
    <2> QED BY <2>5, <2>6, <2>8, <2>9, <2>10 DEF TimeInv, TokenInv
  <1> QED BY <1>6, <1>7

\* What the clock leaves of a deadline or of a token.
LEMMA SoonerThan ==
    ASSUME NEW floor \in Int, floor < Never, NEW t \in Int, t >= floor, t <= Never
    PROVE  /\ Sooner(t, floor) \in Int /\ Sooner(t, floor) >= t - 1
           /\ t # Never => Sooner(t, floor) # Never
           /\ t = Never \/ t = floor => Sooner(t, floor) = t
           /\ t # Never /\ t # floor => Sooner(t, floor) = t - 1
  BY Bounds DEF Sooner

\* Time passes over a live leg only while one of its dates is to come.
LEMMA TickInTime ==
    ASSUME EnoughAttempts, ControlInv, TimeInv, Tick
    PROVE  TimeInv' /\ (LastingTokens /\ TokenInv => TokenInv')
  <1>1. /\ LegInv /\ DialInv /\ AttemptInv /\ DatesInv /\ OverdueInv /\ SpareInv
        /\ token \in Token /\ carrier \in Carriers
    BY DEF ControlInv, VerdictInv, ControlType, TimeInv
  <1>2. /\ UNCHANGED <<carrier, leg, past, row, flow, dialer, rec, failures, early>>
        /\ dialer # "bind" /\ rec.pc = "idle" /\ ~Actionable
        /\ due' = [ring |-> Sooner(due.ring, 0), max |-> Sooner(due.max, -Grace),
                   next |-> Sooner(due.next, 0)]
        /\ token' = [t \in DOMAIN token |-> IF token[t] = 0 THEN 0 ELSE token[t] - 1]
    BY DEF Tick
  <1>3. /\ due.ring \in Int /\ due.ring >= 0 /\ due.max \in Int /\ due.next \in Int /\ due.next >= 0
        /\ row.attempts \in Nat /\ failures \in Nat /\ failures <= MaxFailures
        /\ token.callback \in Int /\ token.callback >= 0 /\ token.stream \in Int /\ token.stream >= 0
        /\ CALLBACK_TOKEN_TTL \in Int /\ CALLBACK_TOKEN_TTL = MaxCallSeconds + RetryMargin
        /\ row.reconciliation \in {"none", "ambiguous", "checking", "retry", "stalled"}
    BY Numbers
  <1>4. /\ due'.ring \in Int
        /\ due.ring # Never => due'.ring # Never
        /\ due.ring # Never /\ due.ring # 0 => due'.ring = due.ring - 1
    <2>1. due'.ring = Sooner(due.ring, 0)
      BY <1>2
    <2> QED BY <2>1, SoonerThan, Numbers, Bounds
  <1>5. /\ due'.max \in Int /\ due'.max >= due.max - 1
        /\ due.max # Never => due'.max # Never
        /\ due.max = Never => due'.max = Never
        /\ due.max # Never /\ due.max > 0 => due'.max = due.max - 1
    <2>1. due'.max = Sooner(due.max, -Grace)
      BY <1>2
    <2>2. -Grace \in Int /\ -Grace < Never /\ -Grace <= 0
      BY Bounds
    <2> QED BY <2>1, <2>2, SoonerThan, Numbers
  <1>6. /\ due'.next \in Int
        /\ due.next # Never => due'.next # Never
        /\ due.next = 0 => due'.next = 0
        /\ due.next # Never /\ due.next # 0 => due'.next = due.next - 1
    <2>1. due'.next = Sooner(due.next, 0)
      BY <1>2
    <2> QED BY <2>1, SoonerThan, Numbers, Bounds
  <1>7. /\ token'.callback = IF token.callback = 0 THEN 0 ELSE token.callback - 1
        /\ token'.stream = IF token.stream = 0 THEN 0 ELSE token.stream - 1
    BY <1>1, <1>2 DEF Token
  <1>8. AttemptInv'
    BY <1>1, <1>2 DEF AttemptInv, Attempted, Crossed
  <1>9. DatesInv'
    BY <1>1, <1>2, <1>4, <1>5, <1>6 DEF DatesInv
  <1>10. ASSUME row.sid, leg \in Live
         PROVE  \/ row.reconciliation = "none" /\ due.max > 0 /\ ~RingDue(row)
                \/ row.reconciliation = "retry" /\ due.next # 0 /\ due.next # Never
    <2>1. ~row.terminal
      BY <1>10, LiveIsOpen
    <2>2. row.reconciliation \notin {"checking", "ambiguous", "stalled"}
      BY <1>1, <1>2, <1>10, <2>1 DEF DatesInv, Actionable
    <2>3. row.reconciliation = "none" => ~(due.max <= 0) /\ ~RingDue(row)
      BY <1>2, <1>10, <2>1 DEF Actionable
    <2>4. row.reconciliation = "retry" => due.next # 0 /\ due.next # Never
      BY <1>1, <1>2, <1>10, <2>1 DEF Actionable, DatesInv
    <2> QED BY <1>3, <2>2, <2>3, <2>4
  <1>11. OverdueInv'
    <2>1. SUFFICES ASSUME row.sid, leg \in Live
                   PROVE  /\ row.reconciliation = "none" => due'.max >= 0
                          /\ NextRetry' - due'.max <= Backoffs(row.attempts)
      BY <1>2 DEF OverdueInv
    <2>2. Backoffs(row.attempts) \in Nat
      BY <1>3, BackoffsGrow
    <2>3. CASE row.reconciliation = "none"
      <3>1. due'.max >= 0
        BY <1>3, <1>5, <1>10, <2>1, <2>3, Bounds
      <3>2. NextRetry' = 0
        BY <1>2, <2>3 DEF NextRetry
      <3> QED BY <1>5, <2>2, <2>3, <3>1, <3>2
    <2>4. CASE row.reconciliation = "retry"
      <3>1. NextRetry' = NextRetry - 1 /\ NextRetry \in Int
        BY <1>2, <1>3, <1>6, <1>10, <2>1, <2>4 DEF NextRetry
      <3>2. NextRetry - due.max <= Backoffs(row.attempts)
        BY <1>1, <2>1 DEF OverdueInv
      <3> QED BY <1>3, <1>5, <2>2, <2>4, <3>1, <3>2
    <2> QED BY <1>10, <2>1, <2>3, <2>4
  <1>12. ASSUME LastingTokens, CallbackInv
         PROVE  CallbackInv'
    <2> DEFINE most == RingSeconds + (IF Talking THEN MaxCallSeconds ELSE 0)
    <2>1. Talking' = Talking /\ most \in Int /\ most <= RingSeconds + MaxCallSeconds
      BY <1>2, Bounds DEF Talking
    <2>2. SUFFICES ASSUME carrier # "twilio", dialer = "done", leg \in Live
                   PROVE  CALLBACK_TOKEN_TTL - token'.callback + NextDate'
                            <= most + Backoffs(row.attempts)
      BY <1>2, <2>1 DEF CallbackInv, CALLBACK_TOKEN_TTL
    <2>3. row.sid
      BY <1>1, <2>2 DEF DatesInv
    <2>4. CALLBACK_TOKEN_TTL - token.callback + NextDate <= most + Backoffs(row.attempts)
      BY <1>12, <2>2 DEF CallbackInv
    <2>5. NextDate \in Nat
      BY <2>2, <2>3, NotOver
    <2>6. NextDate' = NextDate - 1
      <3>1. CASE row.reconciliation = "retry"
        BY <1>2, <1>6, <1>10, <2>2, <2>3, <3>1 DEF NextDate, NextRetry
      <3>2. CASE row.reconciliation = "none" /\ Talking
        BY <1>1, <1>2, <1>5, <1>10, <2>1, <2>2, <2>3, <3>2 DEF NextDate, DatesInv
      <3>3. CASE row.reconciliation = "none" /\ ~Talking
        <4>1. ~row.media
          BY <1>1, <3>3 DEF SpareInv, Talking
        <4>2. due.ring # 0 /\ due.ring # Never
          BY <1>1, <1>10, <2>2, <2>3, <3>3, <4>1 DEF RingDue, DatesInv
        <4> QED BY <1>2, <1>4, <2>1, <3>3, <4>2 DEF NextDate
      <3> QED BY <1>10, <2>2, <2>3, <3>1, <3>2, <3>3
    <2>7. Backoffs(row.attempts) <= Backoffs(MaxFailures) /\ Backoffs(row.attempts) \in Nat
          /\ Backoffs(MaxFailures) \in Nat
      <3>1. row.attempts <= failures
        <4>1. Attempted = row.attempts /\ Crossed = 0
          BY <1>2, <1>3, <2>2 DEF Attempted, Crossed
        <4> QED BY <1>1, <1>3, <2>2, <4>1 DEF AttemptInv
      <3>2. row.attempts <= MaxFailures
        BY <1>3, <3>1, Bounds
      <3> QED BY <1>3, <3>2, BackoffsOrdered, BackoffsGrow, Bounds
    <2>8. RingSeconds + Backoffs(MaxFailures) < RetryMargin
      BY <1>12 DEF LastingTokens
    <2> HIDE DEF most
    <2>9. token.callback > 0
      BY <1>3, <2>1, <2>4, <2>5, <2>7, <2>8, Bounds
    <2> QED BY <1>3, <1>7, <2>1, <2>4, <2>5, <2>6, <2>7, <2>9
  <1>13. ASSUME LastingTokens, StreamInv
         PROVE  StreamInv'
    <2>1. SUFFICES ASSUME carrier = "exotel", dialer = "done", leg \in PreAnswer, row.attempts = 0
                   PROVE  StreamTTL - token'.stream
                            + (IF row.reconciliation = "none" THEN due'.ring ELSE 0) <= RingSeconds
      BY <1>2 DEF StreamInv
    <2>2. leg \in Live /\ row.sid /\ ~row.media
      BY <1>1, <2>1 DEF AttemptInv, DatesInv, Live
    <2>3. row.reconciliation = "none" /\ ~RingDue(row)
      BY <1>1, <1>10, <2>1, <2>2 DEF DatesInv
    <2>4. due.ring # 0 /\ due'.ring = due.ring - 1
      BY <1>1, <1>4, <2>2, <2>3 DEF RingDue, DatesInv
    <2>5. StreamTTL - token.stream + due.ring <= RingSeconds /\ RingSeconds < StreamTTL
      BY <1>13, <2>1, <2>3 DEF StreamInv, LastingTokens
    <2>6. token.stream > 0
      BY <1>3, <2>5, Bounds
    <2> QED BY <1>3, <1>7, <2>3, <2>4, <2>5, <2>6, Bounds
  <1> QED BY <1>8, <1>9, <1>11, <1>12, <1>13 DEF TimeInv, TokenInv

\* Before the dial nothing is dated.
LEMMA TimeStarts == ASSUME Init PROVE TimeInv /\ TokenInv
  <1>1. AttemptInv
    BY Bounds DEF Init, AttemptInv, Attempted, Crossed, Live, PreAnswer
  <1>2. DatesInv /\ OverdueInv /\ TokenInv
    BY DEF Init, DatesInv, OverdueInv, TokenInv, CallbackInv, StreamInv
  <1> QED BY <1>1, <1>2 DEF TimeInv

\* Every step keeps what is known of attempts and dates, and of the tokens.
LEMMA TimeIsKept ==
    ASSUME EnoughAttempts, ControlInv, TimeInv, [Next]_vars
    PROVE  TimeInv' /\ (LastingTokens /\ TokenInv => TokenInv')
  <1>1. ASSUME NEW placed \in BOOLEAN, NEW reply \in {"id", "no id", "4xx", "5xx", "timeout"},
               Dial(placed, reply)
        PROVE  TimeInv' /\ TokenInv'
    BY <1>1, DialInTime
  <1>2. CASE DialerBinds \/ DialerGivesUp
    BY <1>2, DialerInTime
  <1>3. CASE \/ DialerAbandons \/ CarrierMoves \/ RequestTerminal \/ RequestFails
             \/ \E verdict \in {"human", "machine"} : AmdWebhook(verdict)
    BY <1>3, LegMovesInTime
  <1>4. CASE TwilioStatus \/ ExotelStatus \/ TelerStatusWebhook
    BY <1>4, StatusInTime
  <1>5. CASE TwimlWebhook \/ FlowWebhook
    BY <1>5, CorrelationInTime
  <1>6. CASE TwilioMedia \/ ExotelMedia \/ TelerMedia
    BY <1>6, MediaInTime
  <1>7. CASE ClaimAction \/ FetchStatus
    BY <1>7, LookupInTime
  <1>8. CASE ReconciliationResult
    BY <1>8, ResultInTime
  <1>9. CASE Tick
    BY <1>9, TickInTime
  <1>10. CASE UNCHANGED vars
    BY <1>10 DEF vars, TimeInv, AttemptInv, Attempted, Crossed, DatesInv, OverdueInv, NextRetry,
                 TokenInv, CallbackInv, NextDate, Talking, StreamInv, CALLBACK_TOKEN_TTL
  <1> QED BY <1>1, <1>2, <1>3, <1>4, <1>5, <1>6, <1>7, <1>8, <1>9, <1>10 DEF Next, Reconcile

\* If the grace of the sweep is longer than the back-offs that MaxFailures failed
\* requests can cause, and the budget has an attempt to spare, the reconciler ends a
\* leg that has outlived its maximum-call deadline before quarantine_abandoned_jobs
\* would give it up, whatever was tried before the deadline.
THEOREM OverdueLegsEnd == ASSUME PatientSweep PROVE Spec => []OverdueLegIsEnded
  <1>1. EnoughAttempts
    BY DEF PatientSweep
  <1>2. Init => ControlInv /\ TimeInv
    BY ControlStarts, TimeStarts
  <1>3. (ControlInv /\ TimeInv) /\ [Next]_vars => (ControlInv /\ TimeInv)'
    BY <1>1, ControlIsKept, TimeIsKept
  <1>4. ControlInv /\ TimeInv => OverdueLegIsEnded
    <2>1. SUFFICES ASSUME ControlInv, TimeInv, row.sid, leg \in Live PROVE due.max > -Grace
      BY DEF OverdueLegIsEnded
    <2>2. NextRetry - due.max <= Backoffs(row.attempts) /\ NextRetry \in Nat
      BY <2>1, NotOver DEF TimeInv, OverdueInv
    <2>3. row.attempts \in Nat /\ failures \in Nat /\ failures <= MaxFailures /\ due.max \in Int
      BY <2>1, Numbers
    <2>4. row.attempts <= MaxFailures + 1
      <3>1. Attempted <= failures + Crossed
        BY <2>1 DEF TimeInv, AttemptInv
      <3>2. Attempted \in Int /\ row.attempts <= Attempted /\ Crossed \in {0, 1}
        BY <2>3 DEF Attempted, Crossed
      <3> QED BY <2>3, <3>1, <3>2, Bounds
    <2>5. Backoffs(row.attempts) <= Backoffs(MaxFailures + 1)
      BY <2>3, <2>4, BackoffsOrdered, Bounds
    <2>6. Backoffs(row.attempts) \in Nat /\ Backoffs(MaxFailures + 1) \in Nat
      BY <2>3, BackoffsGrow, Bounds
    <2>7. Backoffs(MaxFailures + 1) < Grace
      BY DEF PatientSweep
    <2> QED BY <2>2, <2>3, <2>5, <2>6, <2>7, Bounds
  <1> QED BY <1>2, <1>3, <1>4, PTL DEF Spec

\* If a stream token outlives the ring deadline, and the margin of a callback token the
\* ring deadline with the back-offs that MaxFailures failed requests can cause, then
\* while a leg bound by its dial lives its status callbacks are accepted, and while
\* Exotel's phone rings its media URL is good.
THEOREM TokensLast == ASSUME LastingTokens PROVE Spec => []TokensOutliveUse
  <1>1. EnoughAttempts
    BY DEF LastingTokens
  <1> DEFINE Inv == ControlInv /\ TimeInv /\ TokenInv
  <1>2. Init => Inv
    BY ControlStarts, TimeStarts
  <1>3. Inv /\ [Next]_vars => Inv'
    BY <1>1, ControlIsKept, TimeIsKept
  <1>4. Inv => TokensOutliveUse
    <2>1. SUFFICES ASSUME Inv, row.sid, dialer = "done", leg \in Live
                   PROVE  /\ carrier = "exotel" /\ leg \in PreAnswer /\ failures = 0
                               => token.stream > 0
                          /\ CallbackAccepted
      BY DEF TokensOutliveUse
    <2>2. /\ row.attempts \in Nat /\ failures \in Nat /\ failures <= MaxFailures
          /\ due.ring \in Int /\ due.ring >= 0
          /\ token.callback \in Int /\ token.stream \in Int
          /\ CALLBACK_TOKEN_TTL \in Int /\ CALLBACK_TOKEN_TTL = MaxCallSeconds + RetryMargin
      BY <2>1, Numbers
    <2>3. carrier # "twilio" => row.attempts <= failures
      <3>1. Attempted <= failures + Crossed
        BY <2>1 DEF TimeInv, AttemptInv
      <3>2. Attempted \in Int /\ row.attempts <= Attempted
        BY <2>2 DEF Attempted
      <3>3. carrier # "twilio" => Crossed = 0
        BY DEF Crossed
      <3> QED BY <2>2, <3>1, <3>2, <3>3
    <2>4. ASSUME carrier = "exotel", leg \in PreAnswer, failures = 0
          PROVE  token.stream > 0
      <3>1. row.attempts = 0
        BY <2>2, <2>3, <2>4
      <3>2. StreamTTL - token.stream + (IF row.reconciliation = "none" THEN due.ring ELSE 0)
              <= RingSeconds
        BY <2>1, <2>4, <3>1 DEF TokenInv, StreamInv
      <3>3. RingSeconds < StreamTTL
        BY DEF LastingTokens
      <3> QED BY <2>2, <3>2, <3>3, Bounds
    <2>5. carrier # "twilio" => token.callback > 0
      <3>1. SUFFICES ASSUME carrier # "twilio" PROVE token.callback > 0
        OBVIOUS
      <3> DEFINE most == RingSeconds + (IF Talking THEN MaxCallSeconds ELSE 0)
      <3>2. CALLBACK_TOKEN_TTL - token.callback + NextDate <= most + Backoffs(row.attempts)
        BY <2>1, <3>1 DEF TokenInv, CallbackInv
      <3>3. most \in Int /\ most <= RingSeconds + MaxCallSeconds
        BY Bounds
      <3>4. NextDate \in Nat
        BY <2>1, NotOver
      <3>5. Backoffs(row.attempts) <= Backoffs(MaxFailures) /\ Backoffs(row.attempts) \in Nat
            /\ Backoffs(MaxFailures) \in Nat
        <4>1. row.attempts <= MaxFailures
          BY <2>2, <2>3, <3>1, Bounds
        <4> QED BY <2>2, <4>1, BackoffsOrdered, BackoffsGrow, Bounds
      <3>6. RingSeconds + Backoffs(MaxFailures) < RetryMargin
        BY DEF LastingTokens
      <3> HIDE DEF most
      <3> QED BY <2>2, <3>2, <3>3, <3>4, <3>5, <3>6, Bounds
    <2>6. carrier \in {"twilio", "exotel", "teler"}
      BY <2>1, ControlAssumption DEF ControlInv, VerdictInv, ControlType
    <2>7. CallbackAccepted
      BY <2>5, <2>6 DEF CallbackAccepted, valid_exotel_callback_token, valid_teler_callback_token
    <2> QED BY <2>4, <2>7
  <1> QED BY <1>2, <1>3, <1>4, PTL DEF Spec
=============================================================================
