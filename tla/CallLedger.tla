----------------------------- MODULE CallLedger -----------------------------
(***************************************************************************)
(* What the queue, the coordinators and the webhooks together promise of   *)
(* the calls, when no operator overrides or deletes anything: a phone has  *)
(* one open call at a time, an open call is submitted to the carrier at    *)
(* most once, and it is closed once, for good, on the carrier's word and   *)
(* with a verdict that explains how the leg ended.                         *)
(***************************************************************************)

CONSTANTS
    Calls,
    PhoneOf,     \* the phone of each call
    Explains     \* the verdicts that may stand for each end of a leg

VARIABLES
    record,      \* record[c]: "none", "open" or "closed"
    line,        \* line[c]: the carrier's leg
    verdict      \* verdict[c]: how the closed call is reported

Endings == DOMAIN Explains \ {"refused"}

Init ==
    /\ record = [c \in Calls |-> "none"]
    /\ line = [c \in Calls |-> "none"]
    /\ verdict = [c \in Calls |-> "none"]

Open(c) ==
    /\ record[c] = "none"
    /\ \A d \in Calls : PhoneOf[d] = PhoneOf[c] => record[d] # "open"
    /\ record' = [record EXCEPT ![c] = "open"]
    /\ UNCHANGED <<line, verdict>>

\* The one submission: it reaches the carrier, is refused, or is lost.
Dial(c) ==
    /\ record[c] = "open"
    /\ line[c] = "none"
    /\ \E answer \in {"ringing", "refused", "lost"} : line' = [line EXCEPT ![c] = answer]
    /\ UNCHANGED <<record, verdict>>

Answer(c) ==
    /\ line[c] = "ringing"
    /\ line' = [line EXCEPT ![c] = "answered"]
    /\ UNCHANGED <<record, verdict>>

End(c) ==
    /\ line[c] \in {"ringing", "answered"}
    /\ \E s \in Endings : line' = [line EXCEPT ![c] = s]
    /\ UNCHANGED <<record, verdict>>

Close(c) ==
    /\ record[c] = "open"
    /\ line[c] \in DOMAIN Explains
    /\ record' = [record EXCEPT ![c] = "closed"]
    /\ \E v \in Explains[line[c]] : verdict' = [verdict EXCEPT ![c] = v]
    /\ UNCHANGED line

Next == \E c \in Calls : Open(c) \/ Dial(c) \/ Answer(c) \/ End(c) \/ Close(c)

Spec == Init /\ [][Next]_<<record, line, verdict>>
=============================================================================
