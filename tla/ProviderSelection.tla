-------------------------- MODULE ProviderSelection --------------------------
(***************************************************************************)
(* Which carrier a call is queued on (app/storage/sqlite_store.py,         *)
(* app/main.py).  The operator's choice is one row of the settings table;  *)
(* every worker process keeps what it last read of it for TTL.  A request  *)
(* runs on a thread of its worker: it looks at the cache, reads the row    *)
(* when the cache is too old, and fills the cache, with other threads,     *)
(* other workers and the operator between any two of these steps.          *)
(*                                                                         *)
(* retired is a history variable.  Bounds: MaxNow, MaxChanges.             *)
(***************************************************************************)
EXTENDS Integers, Sequences

CONSTANTS
    Worker,         \* the processes that share the database
    Request,        \* enqueue and settings requests, one thread each
    Configured,     \* the carriers whose credentials are set
    Seeds,          \* bound: what the environment may name
    TTL,            \* PROVIDER_SETTING_TTL_SECONDS
    MaxNow,         \* bound: ticks of the clock
    MaxChanges      \* bound: choices the operator saves

PROVIDER_NAMES == <<"twilio", "exotel", "teler">>
Provider == {"twilio", "exotel", "teler"}
SELECTABLE_PROVIDERS == Provider \cup {"auto"}
DEFAULT_PROVIDER == "twilio"

ASSUME SelectionAssumption ==
    /\ Configured \subseteq Provider
    /\ Seeds \subseteq SELECTABLE_PROVIDERS \cup {"unknown"}
    /\ TTL \in Nat \ {0}
    /\ MaxNow \in Nat
    /\ MaxChanges \in Nat

VARIABLES
    setting,    \* the row active_telephony_provider, "unset" before the seed
    trail,      \* settings_events: what each save replaced, and by what
    cache,      \* cache[w]: _provider_setting_cache of worker w
    thread,     \* thread[r]: where request r is suspended
    now,        \* time.monotonic()
    retired     \* retired[v]: when v was last in force, if it no longer is

vars == <<setting, trail, cache, thread, now, retired>>

Never == -1
NoEntry == [value |-> DEFAULT_PROVIDER, at |-> Never]

\* A value this build does not know, left by another build or by the
\* environment.
Unknown == "unknown"
Stored == SELECTABLE_PROVIDERS \cup {Unknown, "unset"}

Known(v) == IF v \in SELECTABLE_PROVIDERS THEN v ELSE DEFAULT_PROVIDER

Entry == [value : SELECTABLE_PROVIDERS, at : Nat \cup {Never}]

Thread ==
    [pc : {"idle", "lookup", "read", "fill", "resolved", "forget", "done"},
     worker : Worker,
     from : Nat,                                \* now, as the request saw it
     value : SELECTABLE_PROVIDERS,              \* the choice it works with
     provider : Provider \cup {"none"}]         \* calls.provider

TypeOK ==
    /\ setting \in Stored
    /\ trail \in Seq([old : Stored, new : SELECTABLE_PROVIDERS])
    /\ cache \in [Worker -> Entry]
    /\ thread \in [Request -> Thread]
    /\ now \in Nat
    /\ retired \in [SELECTABLE_PROVIDERS -> Nat \cup {Never}]

Init ==
    /\ setting = "unset"
    /\ trail = <<>>
    /\ cache = [w \in Worker |-> NoEntry]
    /\ thread \in [Request -> [pc : {"idle"}, worker : Worker, from : {0},
                               value : {DEFAULT_PROVIDER}, provider : {"none"}]]
    /\ now = 0
    /\ retired = [v \in SELECTABLE_PROVIDERS |-> Never]

\* The last moment at which a choice was in force.
LastInForce(v) == IF v = Known(setting) THEN now ELSE retired[v]

\* The row becomes v; the choice it replaces retires now.
Store(v) ==
    /\ setting' = v
    /\ retired' = [retired EXCEPT ![Known(setting)] = now]

At(r, pc) == thread[r].pc = pc

Goto(r, pc) == thread' = [thread EXCEPT ![r].pc = pc]

----------------------------------------------------------------------------
(* Start-up                                                                *)

\* INSERT .. ON CONFLICT DO NOTHING: the environment is a seed only.
SeedSetting(v) ==
    /\ setting = "unset"
    /\ Store(v)
    /\ UNCHANGED <<trail, cache, thread, now>>

----------------------------------------------------------------------------
(* active_provider_setting                                                 *)

Begin(r) ==
    /\ At(r, "idle")
    /\ thread' = [thread EXCEPT ![r].pc = "lookup", ![r].from = now]
    /\ UNCHANGED <<setting, trail, cache, now, retired>>

\* An entry is as old as the read that filled it, seen from the moment this
\* request looked at the clock.
FreshFor(entry, from) == entry.at # Never /\ from - entry.at < TTL

Lookup(r) ==
    LET entry == cache[thread[r].worker] IN
    /\ At(r, "lookup")
    /\ \/ /\ FreshFor(entry, thread[r].from)
          /\ thread' = [thread EXCEPT ![r].pc = "resolved", ![r].value = entry.value]
       \/ /\ ~FreshFor(entry, thread[r].from)
          /\ Goto(r, "read")
    /\ UNCHANGED <<setting, trail, cache, now, retired>>

ReadSetting(r) ==
    /\ At(r, "read")
    /\ thread' = [thread EXCEPT ![r].pc = "fill", ![r].value = Known(setting)]
    /\ UNCHANGED <<setting, trail, cache, now, retired>>

\* Variant that is wrong: the entry is dated when it is stored.
StoredAt(r) == now

\* The entry is dated before the read, not after it.
ReadAt(r) == thread[r].from

FillCache(r) ==
    /\ At(r, "fill")
    /\ cache' = [cache EXCEPT ![thread[r].worker] =
                    [value |-> thread[r].value, at |-> ReadAt(r)]]
    /\ Goto(r, "resolved")
    /\ UNCHANGED <<setting, trail, now, retired>>

----------------------------------------------------------------------------
(* resolve_provider and enqueue_call                                       *)

\* The first configured carrier in the registry's order after the default, or
\* the default when nothing is configured.
FallbackProvider(unavailable) ==
    LET candidates == <<DEFAULT_PROVIDER>> \o PROVIDER_NAMES
        usable == {i \in 1..4 : candidates[i] \in Configured \ {unavailable}}
    IN  IF usable = {} THEN DEFAULT_PROVIDER
        ELSE candidates[CHOOSE i \in usable : \A j \in usable : i <= j]

Preferred(selected, indian) ==
    IF selected # "auto" THEN selected
    ELSE IF indian THEN "exotel" ELSE DEFAULT_PROVIDER

ResolveProvider(selected, indian) ==
    LET preferred == Preferred(selected, indian) IN
    IF preferred \in Configured THEN preferred ELSE FallbackProvider(preferred)

\* The carrier is written to the call's row and never resolved again.
EnqueueCall(r, indian) ==
    /\ At(r, "resolved")
    /\ thread' = [thread EXCEPT ![r].pc = "done",
                                ![r].provider = ResolveProvider(thread[r].value, indian)]
    /\ UNCHANGED <<setting, trail, cache, now, retired>>

----------------------------------------------------------------------------
(* POST /api/settings/telephony                                            *)

\* The handler refuses a choice that cannot dial.
Usable(v) == IF v = "auto" THEN Configured # {} ELSE v \in Configured

\* One transaction: the row and its audit record, which names what the row
\* held and not what this worker's cache says.  (The handler's own reading of
\* the previous choice, a request like any other, goes to the log only.)
SetActiveProvider(r, v) ==
    /\ At(r, "resolved")
    /\ Len(trail) < MaxChanges
    /\ Usable(v)
    /\ trail' = Append(trail,
                       [old |-> IF setting = "unset" THEN DEFAULT_PROVIDER ELSE setting,
                        new |-> v])
    /\ Store(v)
    /\ Goto(r, "forget")
    /\ UNCHANGED <<cache, now>>

\* Only this worker's cache is dropped, after the commit.
ForgetCache(r) ==
    /\ At(r, "forget")
    /\ cache' = [cache EXCEPT ![thread[r].worker] = NoEntry]
    /\ Goto(r, "done")
    /\ UNCHANGED <<setting, trail, now, retired>>

Tick ==
    /\ now < MaxNow
    /\ now' = now + 1
    /\ UNCHANGED <<setting, trail, cache, thread, retired>>

Next ==
    \/ \E v \in Seeds : SeedSetting(v)
    \/ \E r \in Request :
        \/ Begin(r) \/ Lookup(r) \/ ReadSetting(r) \/ FillCache(r)
        \/ \E indian \in BOOLEAN : EnqueueCall(r, indian)
        \/ \E v \in SELECTABLE_PROVIDERS : SetActiveProvider(r, v)
        \/ ForgetCache(r)
    \/ Tick

Spec == Init /\ [][Next]_vars

----------------------------------------------------------------------------
(* Properties                                                              *)

Decided(r) == thread[r].pc \in {"resolved", "forget", "done"}

\* Workers cannot disagree for long: the choice a request works with was in
\* force less than TTL before the request began - also when a thread read the
\* row before a change, and filled the cache after the change had cleared it.
ChoiceIsFresh ==
    \A r \in Request : Decided(r) => LastInForce(thread[r].value) > thread[r].from - TTL

\* No call is queued on a carrier that cannot dial while there is one that can.
CallIsDialable ==
    \A r \in Request :
        thread[r].provider # "none" /\ Configured # {} => thread[r].provider \in Configured
=============================================================================
