--------------------------- MODULE CarrierControl ---------------------------
(***************************************************************************)
(* One call at a carrier, with the carrier's own words and with a clock:   *)
(* the control planes (app/telephony/providers), the webhooks that they    *)
(* answer with (twilio_routes, exotel_routes, teler_routes), the tokens in *)
(* the URLs given to the carrier (callback_urls.py), and the deadlines     *)
(* that the coordinator acts on.  CallPipeline has many calls, workers,    *)
(* leases, crashes and the sweep, one word per fact, and no clock.         *)
(*                                                                         *)
(* A deadline, or the life of a token, is how many ticks are left of it,   *)
(* and Never when there is none.  Time does not pass while the coordinator *)
(* has something due: its loop is fast against a tick (README 4).          *)
(* Bounds: MaxFailures, one TwiML or flow request that is served, one      *)
(* media socket.                                                           *)
(***************************************************************************)
EXTENDS Integers

CONSTANTS
    Carriers,       \* the carriers looked at
    RingSeconds,    \* CALL_AGENT_RING_TIMEOUT_SECONDS, in ticks like the rest
    MaxCallSeconds, \* CALL_AGENT_MAX_CALL_SECONDS
    Grace,          \* CALL_AGENT_ABANDONED_JOB_GRACE_SECONDS
    StreamTTL,      \* STREAM_TOKEN_TTL_SECONDS
    RetryMargin,    \* what CALLBACK_TOKEN_TTL_SECONDS adds to the longest call
    MaxAttempts,    \* CALL_AGENT_RECONCILIATION_MAX_ATTEMPTS
    MaxBackoff,     \* 300 seconds
    MaxFailures     \* bound: requests of the reconciler that fail

ASSUME ControlAssumption ==
    /\ Carriers \subseteq {"twilio", "exotel", "teler"}
    /\ {RingSeconds, MaxCallSeconds, StreamTTL, MaxAttempts, MaxBackoff} \subseteq 1..98
    /\ {Grace, RetryMargin, MaxFailures} \subseteq Nat

VARIABLES
    carrier,    \* calls.provider
    leg,        \* the carrier's call
    past,       \* history: what the leg has been
    row,        \* the columns of calls and call_jobs that a guard reads
    due,        \* ring_deadline, max_call_deadline, next_reconciliation_at
    token,      \* the tokens in the URLs that the carrier holds
    flow,       \* TwiML, or the stream flow, has been served
    dialer,     \* where _dial is suspended
    rec,        \* where _reconcile is suspended, and the status it was told
    failures,   \* failed requests so far
    early       \* history: an attempt began before there was a conversation

vars == <<carrier, leg, past, row, due, token, flow, dialer, rec, failures, early>>

Never == 99
PROVIDER_TERMINAL == {"completed", "failed", "busy", "no-answer", "canceled"}
PreAnswer == {"queued", "ringing"}
Live == PreAnswer \cup {"answered"}
Status == PROVIDER_TERMINAL \cup {"none", "initiated", "queued", "ringing", "in-progress"}

TypeOK ==
    /\ carrier \in Carriers
    /\ leg \in Live \cup PROVIDER_TERMINAL \cup {"none"}
    /\ past \subseteq Live \cup PROVIDER_TERMINAL
    /\ row \in
        [job : {"claimed", "active", "canceling", "needs_reconciliation", "terminal"},
         sid : BOOLEAN,                                     \* call_sid is known
         status : Status,                                   \* provider_status
         terminal : BOOLEAN,                                \* provider_terminal_at
         reconciliation : {"none", "ambiguous", "checking", "retry", "stalled"},
         attempts : Nat,
         media : BOOLEAN,                                   \* media_connected, media_owner
         answered_by : {"none", "human", "machine"}]
    /\ due \in [ring : 0..RingSeconds \cup {Never},
               max : (-Grace)..MaxCallSeconds \cup {Never},
               next : 0..MaxBackoff \cup {Never}]
    /\ token \in [stream : 0..StreamTTL,
                 callback : 0..(MaxCallSeconds + RetryMargin),
                 flow : 0..(MaxCallSeconds + RetryMargin)]
    /\ flow \in BOOLEAN
    /\ dialer \in {"dial", "bind", "ambiguous", "reject", "abandon", "done", "unsure"}
    /\ rec \in [pc : {"idle", "fetch", "request", "result"}, seen : Status]
    /\ failures \in 0..MaxFailures
    /\ early \in BOOLEAN

Init ==
    /\ carrier \in Carriers
    /\ leg = "none" /\ past = {}
    /\ row = [job |-> "claimed", sid |-> FALSE, status |-> "none", terminal |-> FALSE,
              reconciliation |-> "none", attempts |-> 0, media |-> FALSE, answered_by |-> "none"]
    /\ due = [ring |-> Never, max |-> Never, next |-> Never]
    /\ token = [stream |-> 0, callback |-> 0, flow |-> 0]
    /\ flow = FALSE
    /\ dialer = "dial"
    /\ rec = [pc |-> "idle", seen |-> "none"]
    /\ failures = 0
    /\ early = FALSE

----------------------------------------------------------------------------
(* Vocabulary                                                              *)

\* The words a carrier has for a state of a leg, and for Teler the reason.
Report == [word : STRING, reason : STRING]
Says(words) == {[word |-> w, reason |-> ""] : w \in words}

TwilioReports(state) ==
    CASE state = "queued" -> Says({"queued", "initiated"})
      [] state = "answered" -> Says({"in-progress"})
      [] OTHER -> Says({state})

ExotelReports(state) ==
    CASE state \in PreAnswer -> Says({"queued", "in-progress", "a new word"})
      [] state = "answered" -> Says({"in-progress", "in progress", "a new word"})
      [] state = "no-answer" -> Says({"no-answer", "noanswer"})
      [] state = "canceled" -> Says({"canceled", "cancelled"})
      [] OTHER -> Says({state})

TelerReports(state) ==
    CASE state = "queued" -> Says({"initiated"})
      [] state \in {"ringing", "answered"} -> Says({state, "a new word"})
      [] state = "completed" -> {[word |-> "completed", reason |-> "callee_hangup"]}
      [] state = "busy" -> {[word |-> "failed", reason |-> "user_busy"]}
      [] state = "no-answer" -> {[word |-> "failed", reason |-> "no_answer"]}
      [] state = "canceled" -> {[word |-> "failed", reason |-> "cancelled"]}
      [] OTHER -> {[word |-> "failed", reason |-> "network"]}

Reports(state) ==
    CASE carrier = "twilio" -> TwilioReports(state)
      [] carrier = "exotel" -> ExotelReports(state)
      [] carrier = "teler" -> TelerReports(state)

UNKNOWN_STATUS == "in-progress"

EXOTEL_STATUS_MAP(word) ==
    CASE word = "noanswer" -> "no-answer"
      [] word = "cancelled" -> "canceled"
      [] word \in PROVIDER_TERMINAL \cup {"queued"} -> word
      [] OTHER -> UNKNOWN_STATUS

TELER_STATUS_MAP(word) ==
    CASE word = "initiated" -> "queued"
      [] word \in {"ringing", "completed", "failed"} -> word
      [] OTHER -> UNKNOWN_STATUS

\* Only a failure is refined by its reason.
TELER_FAILURE_REASON_MAP(reason) ==
    CASE reason = "user_busy" -> "busy"
      [] reason = "no_answer" -> "no-answer"
      [] reason = "cancelled" -> "canceled"
      [] OTHER -> "failed"

TelerStatus(report) ==
    IF report.word = "failed" THEN TELER_FAILURE_REASON_MAP(report.reason)
    ELSE TELER_STATUS_MAP(report.word)

\* Twilio's words are the store's own.
TwilioStatusOf(report) == report.word

normalize_status(report) ==
    CASE carrier = "twilio" -> TwilioStatusOf(report)
      [] carrier = "exotel" -> EXOTEL_STATUS_MAP(report.word)
      [] carrier = "teler" -> TelerStatus(report)

\* Teler's other events come to the same URL; they are not about the call.
NotOfTheCall == {"stream.completed", "recording.failed"}

\* Variant that is wrong: what follows the dot is the status.
StripsThePrefix(report) ==
    IF report.word = "stream.completed" THEN "completed"
    ELSE IF report.word = "recording.failed" THEN "failed"
    ELSE TelerStatus(report)

\* "none" is None.
normalize_event(report) ==
    IF report.word \in NotOfTheCall \cup {"a new word"} THEN "none" ELSE TelerStatus(report)

\* Variant that is wrong: nobody has answered yet.
NeverAnswered(status) == "canceled"

terminal_request_for(status) ==
    LET pre_answer == CASE carrier = "twilio" -> {"queued", "ringing", "initiated"}
                        [] carrier = "exotel" -> {"queued"}
                        [] carrier = "teler" -> {"queued", "ringing"}
    IN  IF status \in pre_answer THEN "canceled" ELSE "completed"

----------------------------------------------------------------------------
(* The leg                                                                 *)

BecomeLeg(state) == leg' = state /\ past' = past \cup {state}

CarrierMoves ==
    /\ \/ leg = "queued" /\ BecomeLeg("ringing")
       \/ leg \in PreAnswer /\ \E s \in {"answered", "busy", "no-answer", "failed"} : BecomeLeg(s)
       \/ leg = "answered" /\ \E s \in {"completed", "failed"} : BecomeLeg(s)
    /\ UNCHANGED <<carrier, row, due, token, flow, dialer, rec, failures, early>>

\* Twilio is asked for a state: it cancels only what is not answered yet, and
\* records what it was asked for.
TwilioTerminal(requested) ==
    leg \in Live /\ ~(requested = "canceled" /\ leg = "answered") /\ BecomeLeg(requested)

\* Exotel deletes the call, Teler hangs it up: there is one way to end it.
ExotelTerminal == leg \in Live /\ BecomeLeg(IF leg = "answered" THEN "completed" ELSE "canceled")
TelerTerminal == leg \in Live /\ BecomeLeg(IF leg = "answered" THEN "completed" ELSE "canceled")

Terminal(requested) ==
    \/ carrier = "twilio" /\ TwilioTerminal(requested)
    \/ carrier = "exotel" /\ ExotelTerminal
    \/ carrier = "teler" /\ TelerTerminal

\* A request that finds nothing to end changes nothing.
request_terminal(requested) ==
    \/ Terminal(requested)
    \/ /\ leg \in Live => carrier = "twilio" /\ requested = "canceled" /\ leg = "answered"
       /\ UNCHANGED <<leg, past>>

----------------------------------------------------------------------------
(* The store                                                               *)

bind_call_sid ==
    /\ row' = [row EXCEPT !.job = "active", !.sid = TRUE, !.reconciliation = "none",
                          !.status = IF @ = "none" THEN "initiated" ELSE @]
    /\ due' = [due EXCEPT !.ring = RingSeconds, !.max = MaxCallSeconds]

mark_reconciliation ==
    IF row.terminal
    THEN row' = [row EXCEPT !.job = "needs_reconciliation"] /\ UNCHANGED due
    ELSE /\ row' = [row EXCEPT !.job = "needs_reconciliation", !.reconciliation = "ambiguous"]
         /\ due' = [due EXCEPT !.next = 0]

\* provider_status: a webhook brings the SID, a lookup does not.
Statused(r, status) ==
    IF status \in PROVIDER_TERMINAL
    THEN [r EXCEPT !.status = status, !.terminal = TRUE, !.job = "terminal",
                   !.reconciliation = "none"]
    ELSE IF r.terminal THEN r ELSE [r EXCEPT !.status = status]

provider_status(status) ==
    IF row.sid THEN row' = Statused(row, status) /\ UNCHANGED due
    ELSE /\ row' = Statused([row EXCEPT !.sid = TRUE, !.job = "active"], status)
         /\ due' = [due EXCEPT !.ring = IF @ = Never THEN RingSeconds ELSE @,
                               !.max = IF @ = Never THEN MaxCallSeconds ELSE @]

----------------------------------------------------------------------------
(* callback_urls.py: a token is minted with its URL, and is worth what is  *)
(* left of its life.                                                       *)

\* Variant that is wrong: one lifetime for both kinds of token.
SameTTL == StreamTTL

CALLBACK_TOKEN_TTL == MaxCallSeconds + RetryMargin
NoToken == 0

\* Exotel's media URL goes out with the dial, the others' with their TwiML or flow.
media_stream_url == IF carrier = "exotel" THEN StreamTTL ELSE NoToken
teler_media_stream_url == StreamTTL

\* Twilio signs its callbacks.
status_callback_url == IF carrier = "twilio" THEN NoToken ELSE CALLBACK_TOKEN_TTL
teler_flow_url == CALLBACK_TOKEN_TTL

valid_stream_token == token.stream > 0
valid_exotel_stream_token == token.stream > 0
valid_teler_stream_token == token.stream > 0
valid_teler_flow_token == token.flow > 0
valid_exotel_callback_token == token.callback > 0
valid_teler_callback_token == token.callback > 0

----------------------------------------------------------------------------
(* _dial                                                                   *)

\* Only a proven refusal is one: a timeout, a 5xx, and a 2xx without the call's
\* id leave open whether there is a leg.
classify_dial_error(reply) == IF reply = "4xx" THEN "rejected" ELSE "ambiguous"

Submit(placed, reply) ==
    /\ dialer = "dial"
    /\ reply = "id" => placed
    /\ reply = "4xx" => ~placed
    /\ IF placed THEN BecomeLeg("queued") ELSE UNCHANGED <<leg, past>>
    /\ dialer' = IF reply = "id" THEN "bind"
                 ELSE IF classify_dial_error(reply) = "rejected" THEN "reject" ELSE "ambiguous"
    /\ UNCHANGED <<carrier, row, due, flow, rec, failures, early>>

\* A call that Twilio creates has its id.
TwilioDial(placed, reply) ==
    /\ carrier = "twilio" /\ reply # "no id"
    /\ Submit(placed, reply)
    /\ UNCHANGED token

\* An answer that is neither a call nor a refusal comes with a 200.
ExotelDial(placed, reply) ==
    /\ carrier = "exotel"
    /\ Submit(placed, reply)
    /\ token' = [token EXCEPT !.stream = media_stream_url, !.callback = status_callback_url]

TelerDial(placed, reply) ==
    /\ carrier = "teler"
    /\ Submit(placed, reply)
    /\ token' = [token EXCEPT !.flow = teler_flow_url, !.callback = status_callback_url]

Dial(placed, reply) ==
    TwilioDial(placed, reply) \/ ExotelDial(placed, reply) \/ TelerDial(placed, reply)

DialerBinds ==
    /\ dialer = "bind"
    /\ IF row.terminal THEN mark_reconciliation /\ dialer' = "abandon"
       ELSE bind_call_sid /\ dialer' = "done"
    /\ UNCHANGED <<carrier, leg, past, token, flow, rec, failures, early>>

DialerGivesUp ==
    /\ \/ dialer = "ambiguous" /\ mark_reconciliation
       \/ /\ dialer = "reject"
          /\ row' = [row EXCEPT !.terminal = TRUE, !.job = "terminal"] /\ UNCHANGED due
    /\ dialer' = IF dialer = "ambiguous" THEN "unsure" ELSE "done"
    /\ UNCHANGED <<carrier, leg, past, token, flow, rec, failures, early>>

\* _abandon: a failure is logged.
DialerAbandons ==
    /\ dialer = "abandon"
    /\ request_terminal("completed") \/ UNCHANGED <<leg, past>>
    /\ dialer' = "done"
    /\ UNCHANGED <<carrier, row, due, token, flow, rec, failures, early>>

----------------------------------------------------------------------------
(* Webhooks.  A fact about the leg may be reported late, again, or never.  *)

CallbackAccepted ==
    CASE carrier = "twilio" -> TRUE
      [] carrier = "exotel" -> valid_exotel_callback_token
      [] carrier = "teler" -> valid_teler_callback_token

\* What a carrier was asked to report: Exotel the end only, Teler has one URL for
\* everything.
TwilioEvents == past
ExotelEvents == past \cap PROVIDER_TERMINAL
TelerEvents == past

Webhook(status) ==
    /\ CallbackAccepted
    /\ provider_status(status)
    /\ UNCHANGED <<carrier, leg, past, token, flow, dialer, rec, failures, early>>

TwilioStatus ==
    /\ carrier = "twilio"
    /\ \E state \in TwilioEvents : \E report \in Reports(state) : Webhook(TwilioStatusOf(report))

ExotelStatus ==
    /\ carrier = "exotel"
    /\ \E state \in ExotelEvents : \E report \in Reports(state) : Webhook(normalize_status(report))

TelerStatusWebhook ==
    /\ carrier = "teler"
    /\ \E report \in (UNION {Reports(state) : state \in TelerEvents})
                        \cup (IF flow THEN Says(NotOfTheCall) ELSE {}) :
        /\ normalize_event(report) # "none"
        /\ Webhook(normalize_event(report))

\* Once the leg is answered, the carrier asks what to do with it: the deadlines
\* start again, and a reconciliation that was pending is dropped.
Correlated(stream_token) ==
    /\ "answered" \in past /\ ~flow
    /\ IF row.terminal THEN mark_reconciliation /\ UNCHANGED <<token, flow>>
       ELSE /\ bind_call_sid
            /\ token' = [token EXCEPT !.stream = stream_token] /\ flow' = TRUE
    /\ UNCHANGED <<carrier, leg, past, dialer, rec, failures, early>>

TwimlWebhook == carrier = "twilio" /\ Correlated(StreamTTL)

FlowWebhook == carrier = "teler" /\ valid_teler_flow_token /\ Correlated(teler_media_stream_url)

\* claim_media has the last word on every media socket.
claim_media ==
    /\ row.sid /\ ~row.media /\ ~row.terminal
    /\ row' = [row EXCEPT !.media = TRUE, !.status = IF @ = "none" THEN "in-progress" ELSE @]
    /\ UNCHANGED <<carrier, leg, past, due, token, flow, dialer, rec, failures, early>>

TwilioMedia == carrier = "twilio" /\ flow /\ valid_stream_token /\ claim_media
ExotelMedia == carrier = "exotel" /\ "answered" \in past /\ valid_exotel_stream_token /\ claim_media
TelerMedia == carrier = "teler" /\ flow /\ valid_teler_stream_token /\ claim_media

\* The first verdict stands, and nothing else of the row changes.
record_answered_by(verdict) ==
    row' = IF row.answered_by = "none" THEN [row EXCEPT !.answered_by = verdict] ELSE row

\* Each verdict that says "machine" asks Twilio to end the call, which may fail.
AmdWebhook(verdict) ==
    /\ carrier = "twilio" /\ "answered" \in past
    /\ record_answered_by(verdict)
    /\ \/ verdict = "machine" /\ request_terminal("completed")
       \/ UNCHANGED <<leg, past>>
    /\ UNCHANGED <<carrier, due, token, flow, dialer, rec, failures, early>>

----------------------------------------------------------------------------
(* claim_due_action and _reconcile                                         *)

\* Variant that is wrong: the ring deadline is not dropped when media connects.
RingAlways(r) == due.ring = 0

RingDue(r) == ~r.media /\ due.ring = 0

Actionable ==
    /\ row.sid /\ ~row.terminal
    /\ \/ row.reconciliation = "none" /\ (RingDue(row) \/ due.max <= 0)
       \/ row.reconciliation # "none" /\ due.next = 0

ClaimAction ==
    /\ rec.pc = "idle" /\ Actionable
    /\ row' = [row EXCEPT !.reconciliation = "checking", !.job = "canceling"]
    /\ rec' = [pc |-> "fetch", seen |-> "none"]
    /\ early' = (early \/ ~row.media)
    /\ UNCHANGED <<carrier, leg, past, due, token, flow, dialer, failures>>

FetchStatus ==
    /\ rec.pc = "fetch"
    /\ \E report \in Reports(leg) :
        LET status == normalize_status(report) IN
        rec' = [pc |-> IF status \in PROVIDER_TERMINAL THEN "result" ELSE "request",
                seen |-> status]
    /\ UNCHANGED <<carrier, leg, past, row, due, token, flow, dialer, failures, early>>

RequestTerminal ==
    /\ rec.pc = "request"
    /\ request_terminal(terminal_request_for(rec.seen))
    /\ rec' = [rec EXCEPT !.pc = "result"]
    /\ UNCHANGED <<carrier, row, due, token, flow, dialer, failures, early>>

RequestFails ==
    /\ rec.pc \in {"fetch", "request"} /\ failures < MaxFailures
    /\ failures' = failures + 1
    /\ rec' = [rec EXCEPT !.pc = "result"]
    /\ UNCHANGED <<carrier, leg, past, row, due, token, flow, dialer, early>>

\* Variant that is wrong: the back-off has no limit.
Doubled(attempts) == 2 ^ (attempts - 1)

\* min(300, 5 * 2 ** min(attempts, 6)) seconds, a tick being ten.
RetryIn(attempts) ==
    LET delay == 2 ^ ((IF attempts < 6 THEN attempts ELSE 6) - 1)
    IN  IF delay > MaxBackoff THEN MaxBackoff ELSE delay

\* reconciliation_result: a terminal status is written first, by provider_status.
RetryOrStall ==
    IF row.attempts + 1 >= MaxAttempts
    THEN /\ row' = [row EXCEPT !.reconciliation = "stalled", !.attempts = @ + 1,
                               !.job = "needs_reconciliation"]
         /\ due' = [due EXCEPT !.next = Never]
    ELSE /\ row' = [row EXCEPT !.reconciliation = "retry", !.attempts = @ + 1, !.job = "active"]
         /\ due' = [due EXCEPT !.next = RetryIn(row.attempts + 1)]

ReconciliationResult ==
    /\ rec.pc = "result"
    /\ IF rec.seen \in PROVIDER_TERMINAL THEN row' = Statused(row, rec.seen) /\ UNCHANGED due
       ELSE IF row.terminal THEN row' = [row EXCEPT !.reconciliation = "none"] /\ UNCHANGED due
       ELSE RetryOrStall
    /\ rec' = [pc |-> "idle", seen |-> "none"]
    /\ UNCHANGED <<carrier, leg, past, token, flow, dialer, failures, early>>

Reconcile ==
    ClaimAction \/ FetchStatus \/ RequestTerminal \/ RequestFails \/ ReconciliationResult

----------------------------------------------------------------------------

Sooner(t, floor) == IF t \in {Never, floor} THEN t ELSE t - 1

Tick ==
    /\ dialer \in {"dial", "done", "unsure"} /\ rec.pc = "idle" /\ ~Actionable
    /\ due' = [ring |-> Sooner(due.ring, 0), max |-> Sooner(due.max, -Grace),
               next |-> Sooner(due.next, 0)]
    /\ token' = [t \in DOMAIN token |-> IF token[t] = 0 THEN 0 ELSE token[t] - 1]
    /\ UNCHANGED <<carrier, leg, past, row, flow, dialer, rec, failures, early>>

Next ==
    \/ \E placed \in BOOLEAN : \E reply \in {"id", "no id", "4xx", "5xx", "timeout"} :
            Dial(placed, reply)
    \/ DialerBinds \/ DialerGivesUp \/ DialerAbandons
    \/ CarrierMoves
    \/ TwilioStatus \/ ExotelStatus \/ TelerStatusWebhook
    \/ TwimlWebhook \/ FlowWebhook
    \/ TwilioMedia \/ ExotelMedia \/ TelerMedia
    \/ \E verdict \in {"human", "machine"} : AmdWebhook(verdict)
    \/ Reconcile
    \/ Tick

Spec == Init /\ [][Next]_vars

----------------------------------------------------------------------------
(* Properties                                                              *)

\* What a terminal row says is what the leg did, in every carrier's words: there
\* is no leg where the dial was rejected, and where there was one it is over, as
\* the row says; it is "completed" only if somebody answered.
VerdictIsTheLegs ==
    row.terminal =>
        IF row.status = "none" THEN leg = "none"
        ELSE /\ leg = row.status
             /\ leg = "completed" => "answered" \in past

\* The reconciler hangs up on a conversation only at its maximum-call deadline,
\* with two exceptions that the code allows (README 5): an attempt that began
\* before media connected is not called off, nor is its retry; and a dial whose
\* answer was lost marks the row although a webhook has bound it since.
ConversationIsSpared ==
    [][RequestTerminal /\ row.media => due.max <= 0 \/ early \/ dialer = "unsure"]_vars

\* A token given to the carrier lives as long as the leg that was bound by its
\* dial: status callbacks are accepted to the end, and the media URL that Exotel
\* and the flow URL that Teler got with the dial work when the phone is answered.
TokensOutliveUse ==
    row.sid /\ dialer = "done" /\ leg \in Live =>
        /\ carrier = "exotel" /\ leg \in PreAnswer /\ failures = 0 => token.stream > 0
        /\ CallbackAccepted

\* A bound leg that outlives its maximum-call deadline is ended before the sweep
\* would give it up, although MaxFailures requests fail, earlier attempts have
\* used up part of the budget, and the carrier has its own word for its state.
OverdueLegIsEnded == row.sid /\ leg \in Live => due.max > -Grace
=============================================================================
