--------------------------- MODULE SelectionProofs ---------------------------
(***************************************************************************)
(* ProviderSelection, for every set of workers and requests, every TTL and *)
(* every history of choices: the types, how old the choice a call is       *)
(* queued on can be, and that the carrier chosen can dial.                 *)
(*                                                                         *)
(* A choice read from a cache is fresh because an entry is never younger   *)
(* than its value: LastInForce of the value is at least the entry's date.  *)
(* That holds of an entry because it holds of the request that filled it,  *)
(* which took its date before it read the row.                             *)
(***************************************************************************)
EXTENDS ProviderSelection, SequenceTheorems, TLAPS

SettingAction(r) ==
    \/ Begin(r) \/ Lookup(r) \/ ReadSetting(r) \/ FillCache(r)
    \/ \E indian \in BOOLEAN : EnqueueCall(r, indian)
    \/ \E v \in SELECTABLE_PROVIDERS : SetActiveProvider(r, v)
    \/ ForgetCache(r)

\* FallbackProvider's list, position by position.
LEMMA Candidates ==
    LET candidates == <<DEFAULT_PROVIDER>> \o PROVIDER_NAMES IN
    /\ candidates[1] = "twilio" /\ candidates[2] = "twilio"
    /\ candidates[3] = "exotel" /\ candidates[4] = "teler"
<1> DEFINE default == <<DEFAULT_PROVIDER>>
<1>1. default \in Seq(Provider) /\ Len(default) = 1 /\ default[1] = "twilio"
  BY DEF DEFAULT_PROVIDER, Provider
<1>2. /\ PROVIDER_NAMES \in Seq(Provider) /\ Len(PROVIDER_NAMES) = 3
      /\ PROVIDER_NAMES[1] = "twilio" /\ PROVIDER_NAMES[2] = "exotel"
      /\ PROVIDER_NAMES[3] = "teler"
  BY DEF PROVIDER_NAMES, Provider
<1> DEFINE candidates == default \o PROVIDER_NAMES
<1> HIDE DEF default
<1>3. \A i \in 1..(Len(default) + Len(PROVIDER_NAMES)) :
        candidates[i]
          = IF i <= Len(default) THEN default[i] ELSE PROVIDER_NAMES[i - Len(default)]
  BY <1>1, <1>2, ConcatProperties, Zenon
<1> HIDE DEF candidates
<1>4. \A i \in 1..4 : candidates[i] = IF i <= 1 THEN default[i] ELSE PROVIDER_NAMES[i - 1]
  BY <1>1, <1>2, <1>3
<1>5. candidates[1] = default[1] /\ candidates[2] = PROVIDER_NAMES[1]
  BY <1>4
<1>6. candidates[3] = PROVIDER_NAMES[2] /\ candidates[4] = PROVIDER_NAMES[3]
  BY <1>4
<1>7. /\ candidates[1] = "twilio" /\ candidates[2] = "twilio"
      /\ candidates[3] = "exotel" /\ candidates[4] = "teler"
  BY <1>1, <1>2, <1>5, <1>6
<1> QED
  BY <1>7, Zenon DEF candidates, default

\* A nonempty set of positions has a first one.
LEMMA FirstPosition ==
    ASSUME NEW U \in SUBSET (1..4), U # {}
    PROVE  \E i \in U : \A j \in U : i <= j
<1>1. CASE 1 \in U
  BY <1>1
<1>2. CASE 1 \notin U /\ 2 \in U
  BY <1>2
<1>3. CASE 1 \notin U /\ 2 \notin U /\ 3 \in U
  BY <1>3
<1>4. CASE 1 \notin U /\ 2 \notin U /\ 3 \notin U
  <2>1. PICK i \in U : TRUE
    OBVIOUS
  <2>2. \A j \in U : j = 4
    BY <1>4
  <2> QED
    BY <2>1, <2>2
<1> QED
  BY <1>1, <1>2, <1>3, <1>4

\* What FallbackProvider returns, whether or not anything is configured.
LEMMA Fallback ==
    ASSUME NEW unavailable \in Provider
    PROVE  /\ FallbackProvider(unavailable) \in Provider
           /\ Configured \ {unavailable} # {} =>
                FallbackProvider(unavailable) \in Configured
<1> DEFINE candidates == <<DEFAULT_PROVIDER>> \o PROVIDER_NAMES
           usable == {i \in 1..4 : candidates[i] \in Configured \ {unavailable}}
           first == CHOOSE i \in usable : \A j \in usable : i <= j
<1>1. /\ candidates[1] = "twilio" /\ candidates[2] = "twilio"
      /\ candidates[3] = "exotel" /\ candidates[4] = "teler"
  BY Candidates
<1> HIDE DEF candidates
<1>2. \A i \in 1..4 : candidates[i] \in Provider
  BY <1>1 DEF Provider
<1>3. \A p \in Provider : \E i \in 1..4 : candidates[i] = p
  BY <1>1 DEF Provider
<1>4. Configured \ {unavailable} # {} => usable # {}
  BY <1>3, SelectionAssumption
<1>5. usable # {} => first \in usable
  <2>1. usable \in SUBSET (1..4)
    OBVIOUS
  <2>2. usable # {} => \E i \in usable : \A j \in usable : i <= j
    BY <2>1, FirstPosition
  <2> QED
    BY <2>2
<1>6. usable # {} => candidates[first] \in Configured
  BY <1>5
<1>7. FallbackProvider(unavailable)
        = IF usable = {} THEN DEFAULT_PROVIDER ELSE candidates[first]
  BY DEF FallbackProvider, candidates
<1>8. DEFAULT_PROVIDER \in Provider
  BY DEF DEFAULT_PROVIDER, Provider
<1> QED
  BY <1>4, <1>6, <1>7, <1>8, SelectionAssumption

\* resolve_provider: a carrier, and one that can dial if there is one.
LEMMA Resolved ==
    ASSUME NEW selected \in SELECTABLE_PROVIDERS, NEW indian \in BOOLEAN
    PROVE  /\ ResolveProvider(selected, indian) \in Provider
           /\ Configured # {} => ResolveProvider(selected, indian) \in Configured
<1>1. Preferred(selected, indian) \in Provider
  BY DEF Preferred, SELECTABLE_PROVIDERS, Provider, DEFAULT_PROVIDER
<1>2. CASE Preferred(selected, indian) \in Configured
  BY <1>1, <1>2 DEF ResolveProvider
<1>3. CASE Preferred(selected, indian) \notin Configured
  <2>1. Configured \ {Preferred(selected, indian)} = Configured
    BY <1>3
  <2> QED
    BY <1>1, <1>3, <2>1, Fallback DEF ResolveProvider
<1> QED
  BY <1>2, <1>3

----------------------------------------------------------------------------
(* Types                                                                   *)

\* The value in force is always one a request can work with.
LEMMA KnownIsSelectable == \A v : Known(v) \in SELECTABLE_PROVIDERS
  BY DEF Known, SELECTABLE_PROVIDERS, Provider, DEFAULT_PROVIDER

LEMMA StoreTyped ==
    ASSUME TypeOK, NEW v \in Stored, Store(v)
    PROVE  setting' \in Stored /\ retired' \in [SELECTABLE_PROVIDERS -> Nat \cup {Never}]
  BY KnownIsSelectable DEF TypeOK, Store

\* One request's step keeps the shape of its thread.
LEMMA RequestTyped ==
    ASSUME TypeOK, NEW r \in Request, SettingAction(r)
    PROVE  TypeOK'
<1>1. thread \in [Request -> Thread] /\ now \in Nat /\ cache \in [Worker -> Entry]
  BY DEF TypeOK
<1>2. thread[r].worker \in Worker /\ thread[r].value \in SELECTABLE_PROVIDERS
  BY <1>1 DEF Thread
<1>3. CASE Begin(r)
  <2>1. thread' \in [Request -> Thread]
    BY <1>1, <1>3, ZenonT(40) DEF Begin, Thread
  <2> QED
    BY <2>1, <1>3 DEF Begin, TypeOK
<1>4. CASE Lookup(r)
  <2>1. cache[thread[r].worker].value \in SELECTABLE_PROVIDERS
    BY <1>1, <1>2 DEF Entry
  <2>2. thread' \in [Request -> Thread]
    BY <1>1, <1>4, <2>1 DEF Lookup, Goto, Thread
  <2> QED
    BY <2>2, <1>4 DEF Lookup, TypeOK
<1>5. CASE ReadSetting(r)
  <2>1. thread' \in [Request -> Thread]
    BY <1>1, <1>5, KnownIsSelectable, ZenonT(40) DEF ReadSetting, Thread
  <2> QED
    BY <2>1, <1>5 DEF ReadSetting, TypeOK
<1>6. CASE FillCache(r)
  <2>1. ReadAt(r) \in Nat
    BY <1>1 DEF ReadAt, Thread
  <2>2. cache' \in [Worker -> Entry]
    BY <1>1, <1>2, <1>6, <2>1 DEF FillCache, Entry
  <2>3. thread' \in [Request -> Thread]
    BY <1>1, <1>6 DEF FillCache, Goto, Thread
  <2> QED
    BY <2>2, <2>3, <1>6 DEF FillCache, TypeOK
<1>7. ASSUME NEW indian \in BOOLEAN, EnqueueCall(r, indian)
      PROVE  TypeOK'
  <2>1. ResolveProvider(thread[r].value, indian) \in Provider
    BY <1>2, Resolved
  <2>2. thread' \in [Request -> Thread]
    BY <1>1, <1>7, <2>1, ZenonT(40) DEF EnqueueCall, Thread
  <2> QED
    BY <2>2, <1>7 DEF EnqueueCall, TypeOK
<1>8. ASSUME NEW v \in SELECTABLE_PROVIDERS, SetActiveProvider(r, v)
      PROVE  TypeOK'
  <2>1. v \in Stored /\ DEFAULT_PROVIDER \in Stored
    BY DEF Stored, SELECTABLE_PROVIDERS, Provider, DEFAULT_PROVIDER
  <2>2. setting' \in Stored /\ retired' \in [SELECTABLE_PROVIDERS -> Nat \cup {Never}]
    BY <1>8, <2>1, StoreTyped DEF SetActiveProvider
  <2>3. trail' \in Seq([old : Stored, new : SELECTABLE_PROVIDERS])
    BY <1>8, <2>1 DEF SetActiveProvider, TypeOK
  <2>4. thread' \in [Request -> Thread]
    BY <1>1, <1>8 DEF SetActiveProvider, Goto, Thread
  <2> QED
    BY <2>2, <2>3, <2>4, <1>8 DEF SetActiveProvider, TypeOK
<1>9. CASE ForgetCache(r)
  <2>1. NoEntry \in Entry
    BY DEF NoEntry, Entry, SELECTABLE_PROVIDERS, Provider, DEFAULT_PROVIDER
  <2>2. cache' \in [Worker -> Entry]
    BY <1>1, <1>9, <2>1 DEF ForgetCache
  <2>3. thread' \in [Request -> Thread]
    BY <1>1, <1>9 DEF ForgetCache, Goto, Thread
  <2> QED
    BY <2>2, <2>3, <1>9 DEF ForgetCache, TypeOK
<1> QED
  BY <1>3, <1>4, <1>5, <1>6, <1>7, <1>8, <1>9 DEF SettingAction

LEMMA InitTyped == Init => TypeOK
<1> SUFFICES ASSUME Init PROVE TypeOK
  OBVIOUS
<1>1. NoEntry \in Entry /\ DEFAULT_PROVIDER \in SELECTABLE_PROVIDERS
  BY DEF NoEntry, Entry, SELECTABLE_PROVIDERS, Provider, DEFAULT_PROVIDER
<1>2. thread \in [Request -> Thread]
  BY <1>1 DEF Init, Thread
<1>3. cache \in [Worker -> Entry] /\ setting \in Stored
  BY <1>1 DEF Init, Stored
<1> QED
  BY <1>2, <1>3 DEF Init, TypeOK

LEMMA StepTyped == TypeOK /\ [Next]_vars => TypeOK'
<1> SUFFICES ASSUME TypeOK, [Next]_vars PROVE TypeOK'
  OBVIOUS
<1>1. ASSUME NEW v \in Seeds, SeedSetting(v)
      PROVE  TypeOK'
  <2>1. v \in Stored
    BY SelectionAssumption DEF Stored, Unknown
  <2>2. setting' \in Stored /\ retired' \in [SELECTABLE_PROVIDERS -> Nat \cup {Never}]
    BY <1>1, <2>1, StoreTyped DEF SeedSetting
  <2> QED
    BY <1>1, <2>2 DEF SeedSetting, TypeOK
<1>2. ASSUME NEW r \in Request, SettingAction(r)
      PROVE  TypeOK'
  BY <1>2, RequestTyped
<1>3. CASE Tick
  BY <1>3 DEF Tick, TypeOK
<1>4. CASE UNCHANGED vars
  BY <1>4 DEF vars, TypeOK
<1> QED
  BY <1>1, <1>2, <1>3, <1>4 DEF Next, SettingAction

\* Every variable keeps its type, whatever the workers and requests.
THEOREM TypeCorrect == Spec => []TypeOK
  BY InitTyped, StepTyped, PTL DEF Spec

----------------------------------------------------------------------------
(* Freshness                                                               *)

\* LastInForce as a function, so that it can be primed apart from its argument.
InForce == [v \in SELECTABLE_PROVIDERS |-> LastInForce(v)]

\* No choice has retired in the future.
Past == now \in Nat /\ \A v \in SELECTABLE_PROVIDERS : retired[v] <= now

\* The value of a cache entry was still in force when the entry was dated.
EntriesHold ==
    \A w \in Worker : cache[w].at # Never => InForce[cache[w].value] >= cache[w].at

\* So it is with what a request has read and not yet put into the cache.
ReadingsHold ==
    \A r \in Request :
        /\ thread[r].from <= now
        /\ At(r, "fill") => InForce[thread[r].value] >= thread[r].from

\* And with what a request has decided on, less TTL.
ChoicesHold ==
    \A r \in Request : Decided(r) => InForce[thread[r].value] > thread[r].from - TTL

FreshInv == TypeOK /\ Past /\ EntriesHold /\ ReadingsHold /\ ChoicesHold

\* A choice that was in force at some moment was in force then for good.
LEMMA Monotone ==
    ASSUME TypeOK, Past, TypeOK', [Next]_vars,
           NEW v \in SELECTABLE_PROVIDERS
    PROVE  /\ InForce'[v] \in Int /\ InForce[v] \in Int
           /\ InForce'[v] >= InForce[v]
           /\ now' >= now
           /\ Past'
<1>1. /\ now \in Nat /\ now' \in Nat
      /\ \A x \in SELECTABLE_PROVIDERS : retired[x] \in Int /\ retired'[x] \in Int
  BY DEF TypeOK, Never
<1>2. LastInForce(v)' \in Int /\ LastInForce(v) \in Int
  BY <1>1 DEF LastInForce
<1>3. \/ \E x \in Stored : Store(x) /\ now' = now
      \/ now' >= now /\ UNCHANGED <<setting, retired>>
  <2>1. ASSUME NEW x \in Seeds, SeedSetting(x)
        PROVE  x \in Stored /\ Store(x) /\ now' = now
    BY <2>1, SelectionAssumption DEF SeedSetting, Stored, Unknown
  <2>2. ASSUME NEW r \in Request, NEW x \in SELECTABLE_PROVIDERS, SetActiveProvider(r, x)
        PROVE  x \in Stored /\ Store(x) /\ now' = now
    BY <2>2 DEF SetActiveProvider, Stored
  <2>3. ASSUME NEW r \in Request,
               \/ Begin(r) \/ Lookup(r) \/ ReadSetting(r) \/ FillCache(r) \/ ForgetCache(r)
               \/ \E indian \in BOOLEAN : EnqueueCall(r, indian)
        PROVE  UNCHANGED <<setting, retired, now>>
    BY <2>3 DEF Begin, Lookup, ReadSetting, FillCache, ForgetCache, EnqueueCall
  <2>4. CASE Tick
    BY <2>4, <1>1 DEF Tick
  <2>5. CASE UNCHANGED vars
    BY <2>5, <1>1 DEF vars
  <2> QED
    BY <2>1, <2>2, <2>3, <2>4, <2>5, <1>1 DEF Next
<1>4. ASSUME NEW x \in Stored, Store(x), now' = now
      PROVE  LastInForce(v)' >= LastInForce(v) /\ now' >= now /\ Past'
  <2>1. Known(setting) \in SELECTABLE_PROVIDERS /\ retired \in [SELECTABLE_PROVIDERS -> Nat \cup {Never}]
    BY KnownIsSelectable DEF TypeOK
  <2>2. retired' = [retired EXCEPT ![Known(setting)] = now]
    BY <1>4 DEF Store
  <2>3. \A y \in SELECTABLE_PROVIDERS :
          retired'[y] = IF y = Known(setting) THEN now ELSE retired[y]
    BY <2>1, <2>2
  <2>4. Past'
    BY <1>1, <1>4, <2>3 DEF Past
  <2>5. LastInForce(v)' = IF v = Known(setting') THEN now ELSE retired'[v]
    BY <1>4 DEF LastInForce
  <2>6. LastInForce(v) <= now
    BY <1>1 DEF LastInForce, Past
  <2>7. LastInForce(v) = IF v = Known(setting) THEN now ELSE retired[v]
    BY DEF LastInForce
  <2> QED
    BY <1>1, <1>4, <2>3, <2>4, <2>5, <2>6, <2>7
<1>5. ASSUME now' >= now, UNCHANGED <<setting, retired>>
      PROVE  LastInForce(v)' >= LastInForce(v) /\ Past'
  <2>1. Past'
    BY <1>1, <1>5 DEF Past
  <2>2. Known(setting') = Known(setting)
    BY <1>5
  <2>3. LastInForce(v)' = IF v = Known(setting') THEN now' ELSE retired'[v]
    BY DEF LastInForce
  <2>4. LastInForce(v) = IF v = Known(setting) THEN now ELSE retired[v]
    BY DEF LastInForce
  <2> QED
    BY <1>1, <1>5, <2>1, <2>2, <2>3, <2>4
<1>6. InForce'[v] = LastInForce(v)' /\ InForce[v] = LastInForce(v)
  BY DEF InForce
<1> QED
  BY <1>1, <1>2, <1>3, <1>4, <1>5, <1>6

\* What a step may do to a cache entry: nothing, drop it, or fill it with what
\* a request has read.
LEMMA EntrySteps ==
    ASSUME TypeOK, [Next]_vars, NEW w \in Worker
    PROVE  \/ cache'[w] = cache[w]
           \/ cache'[w].at = Never
           \/ \E r \in Request :
                /\ At(r, "fill")
                /\ cache'[w] = [value |-> thread[r].value, at |-> thread[r].from]
<1>1. cache \in [Worker -> Entry]
  BY DEF TypeOK
<1>2. ASSUME NEW r \in Request, FillCache(r)
      PROVE  \/ cache'[w] = cache[w]
             \/ cache'[w] = [value |-> thread[r].value, at |-> thread[r].from]
  BY <1>1, <1>2 DEF FillCache, ReadAt
<1>3. ASSUME NEW r \in Request, ForgetCache(r)
      PROVE  cache'[w] = cache[w] \/ cache'[w].at = Never
  BY <1>1, <1>3 DEF ForgetCache, NoEntry
<1>4. ASSUME NEW r \in Request,
             \/ Begin(r) \/ Lookup(r) \/ ReadSetting(r)
             \/ \E indian \in BOOLEAN : EnqueueCall(r, indian)
             \/ \E v \in SELECTABLE_PROVIDERS : SetActiveProvider(r, v)
      PROVE  cache' = cache
  BY <1>4 DEF Begin, Lookup, ReadSetting, EnqueueCall, SetActiveProvider
<1>5. ASSUME NEW v \in Seeds, SeedSetting(v)
      PROVE  cache' = cache
  BY <1>5 DEF SeedSetting
<1>6. CASE Tick
  BY <1>6 DEF Tick
<1>7. CASE UNCHANGED vars
  BY <1>7 DEF vars
<1>8. ASSUME NEW r \in Request, FillCache(r)
      PROVE  At(r, "fill")
  BY <1>8 DEF FillCache
<1> QED
  BY <1>2, <1>3, <1>4, <1>5, <1>6, <1>7, <1>8 DEF Next

\* What a step may do to a request.
RequestStep(r) ==
    LET old == thread[r]
        new == thread'[r]
        entry == cache[thread[r].worker]
    IN  \/ new = old
        \/ new.pc = "lookup" /\ new.from = now
        \/ new.pc = "read" /\ new.from = old.from
        \/ /\ new.pc = "fill" /\ new.from = old.from /\ new.value = Known(setting)
           /\ UNCHANGED <<setting, now>>
        \/ /\ new.pc = "resolved" /\ new.from = old.from /\ new.value = entry.value
           /\ FreshFor(entry, old.from)
        \/ /\ At(r, "fill") \/ Decided(r)
           /\ new.pc \in {"resolved", "forget", "done"}
           /\ new.from = old.from /\ new.value = old.value

LEMMA RequestSteps ==
    ASSUME TypeOK, [Next]_vars, NEW r \in Request
    PROVE  RequestStep(r)
<1>1. thread \in [Request -> Thread]
  BY DEF TypeOK
<1>2. ASSUME NEW s \in Request, Begin(s)
      PROVE  RequestStep(r)
  BY <1>1, <1>2 DEF RequestStep, Begin, Thread
<1>3. ASSUME NEW s \in Request, Lookup(s)
      PROVE  RequestStep(r)
  BY <1>1, <1>3 DEF RequestStep, Lookup, Goto, Thread
<1>4. ASSUME NEW s \in Request, ReadSetting(s)
      PROVE  RequestStep(r)
  BY <1>1, <1>4 DEF RequestStep, ReadSetting, Thread
<1>5. ASSUME NEW s \in Request, FillCache(s)
      PROVE  RequestStep(r)
  BY <1>1, <1>5 DEF RequestStep, FillCache, Goto, Thread, At
<1>6. ASSUME NEW s \in Request, NEW indian \in BOOLEAN, EnqueueCall(s, indian)
      PROVE  RequestStep(r)
  BY <1>1, <1>6 DEF RequestStep, EnqueueCall, Thread, At, Decided
<1>7. ASSUME NEW s \in Request, NEW v \in SELECTABLE_PROVIDERS, SetActiveProvider(s, v)
      PROVE  RequestStep(r)
  BY <1>1, <1>7 DEF RequestStep, SetActiveProvider, Goto, Thread, At, Decided
<1>8. ASSUME NEW s \in Request, ForgetCache(s)
      PROVE  RequestStep(r)
  BY <1>1, <1>8 DEF RequestStep, ForgetCache, Goto, Thread, At, Decided
<1>9. ASSUME NEW v \in Seeds, SeedSetting(v)
      PROVE  RequestStep(r)
  BY <1>9 DEF RequestStep, SeedSetting
<1>10. CASE Tick
  BY <1>10 DEF RequestStep, Tick
<1>11. CASE UNCHANGED vars
  BY <1>11 DEF RequestStep, vars
<1> QED
  BY <1>2, <1>3, <1>4, <1>5, <1>6, <1>7, <1>8, <1>9, <1>10, <1>11 DEF Next

\* A choice keeps the moment until which it was in force, from now on.
LEMMA FreshStep == FreshInv /\ [Next]_vars => FreshInv'
<1> SUFFICES ASSUME FreshInv, [Next]_vars PROVE FreshInv'
  OBVIOUS
<1>1. TypeOK /\ TypeOK' /\ Past
  BY StepTyped DEF FreshInv
<1>2. \A v \in SELECTABLE_PROVIDERS :
        /\ InForce'[v] \in Int /\ InForce[v] \in Int
        /\ InForce'[v] >= InForce[v] /\ now' >= now /\ Past'
  BY <1>1, Monotone
<1>3. /\ thread \in [Request -> Thread] /\ cache \in [Worker -> Entry] /\ now \in Nat
      /\ thread' \in [Request -> Thread] /\ cache' \in [Worker -> Entry] /\ now' \in Nat
  BY <1>1 DEF TypeOK
<1>4. \A r \in Request :
        /\ thread[r].value \in SELECTABLE_PROVIDERS /\ thread[r].from \in Nat
        /\ thread[r].worker \in Worker
  BY <1>3 DEF Thread
<1>5. \A w \in Worker : cache[w].value \in SELECTABLE_PROVIDERS /\ cache[w].at \in Int
  BY <1>3 DEF Entry, Never
<1>6. TTL \in Nat /\ TTL > 0
  BY SelectionAssumption
<1>7. Past' /\ now' >= now
  BY <1>2 DEF SELECTABLE_PROVIDERS
<1>8. EntriesHold'
  <2> SUFFICES ASSUME NEW w \in Worker, cache'[w].at # Never
               PROVE  InForce'[cache'[w].value] >= cache'[w].at
    BY DEF EntriesHold
  <2>1. CASE cache'[w] = cache[w]
    <3>1. InForce[cache[w].value] >= cache[w].at
      BY <2>1 DEF FreshInv, EntriesHold
    <3>2. InForce'[cache[w].value] >= cache[w].at
      BY <3>1, <1>2, <1>5
    <3> QED
      BY <3>2, <2>1
  <2>2. ASSUME NEW r \in Request, At(r, "fill"),
               cache'[w] = [value |-> thread[r].value, at |-> thread[r].from]
        PROVE  InForce'[cache'[w].value] >= cache'[w].at
    <3>1. InForce[thread[r].value] >= thread[r].from
      BY <2>2 DEF FreshInv, ReadingsHold
    <3>2. InForce'[thread[r].value] >= thread[r].from
      BY <3>1, <1>2, <1>4
    <3> QED
      BY <3>2, <2>2
  <2> QED
    BY <2>1, <2>2, <1>1, EntrySteps
<1>9. ReadingsHold'
  <2> SUFFICES ASSUME NEW r \in Request
               PROVE  /\ thread'[r].from <= now'
                      /\ thread'[r].pc = "fill" =>
                           InForce'[thread'[r].value] >= thread'[r].from
    BY DEF ReadingsHold, At
  <2>1. thread[r].from <= now
    BY DEF FreshInv, ReadingsHold
  <2>2. CASE thread'[r] = thread[r] /\ thread[r].pc = "fill"
    <3>1. InForce[thread[r].value] >= thread[r].from
      BY <2>2 DEF FreshInv, ReadingsHold, At
    <3>2. InForce'[thread[r].value] >= thread[r].from
      BY <3>1, <1>2, <1>4
    <3> QED
      BY <3>2, <2>1, <2>2, <1>3, <1>4, <1>7
  <2>3. CASE /\ thread'[r].pc = "fill" /\ thread'[r].from = thread[r].from
             /\ thread'[r].value = Known(setting) /\ UNCHANGED <<setting, now>>
    <3>1. InForce'[Known(setting)] = now
      BY <2>3, KnownIsSelectable DEF InForce, LastInForce
    <3> QED
      BY <3>1, <2>1, <2>3
  <2>4. CASE /\ thread'[r].pc # "fill"
             /\ thread'[r].from = thread[r].from \/ thread'[r].from = now
    BY <2>1, <2>4, <1>3, <1>4, <1>7
  <2> QED
    BY <2>1, <2>2, <2>3, <2>4, <1>1, RequestSteps DEF RequestStep
<1>10. ChoicesHold'
  <2> SUFFICES ASSUME NEW r \in Request, thread'[r].pc \in {"resolved", "forget", "done"}
               PROVE  InForce'[thread'[r].value] > thread'[r].from - TTL
    BY DEF ChoicesHold, Decided
  <2>1. CASE /\ At(r, "fill") \/ Decided(r)
             /\ thread'[r].from = thread[r].from /\ thread'[r].value = thread[r].value
    <3>1. InForce[thread[r].value] > thread[r].from - TTL
      <4>1. CASE At(r, "fill")
        BY <4>1, <1>4, <1>6, <1>2 DEF FreshInv, ReadingsHold
      <4>2. CASE Decided(r)
        BY <4>2 DEF FreshInv, ChoicesHold
      <4> QED
        BY <4>1, <4>2, <2>1
    <3>2. InForce'[thread[r].value] > thread[r].from - TTL
      BY <3>1, <1>2, <1>4, <1>6
    <3> QED
      BY <3>2, <2>1
  <2>2. CASE /\ thread'[r].from = thread[r].from
             /\ thread'[r].value = cache[thread[r].worker].value
             /\ FreshFor(cache[thread[r].worker], thread[r].from)
    <3> DEFINE entry == cache[thread[r].worker]
    <3>1. entry.at # Never /\ thread[r].from - entry.at < TTL
      BY <2>2 DEF FreshFor
    <3>2. InForce[entry.value] >= entry.at
      BY <3>1, <1>4 DEF FreshInv, EntriesHold
    <3>3. entry.value \in SELECTABLE_PROVIDERS /\ entry.at \in Int
      BY <1>4, <1>5
    <3> HIDE DEF entry
    <3>4. InForce'[entry.value] > thread[r].from - TTL
      BY <3>1, <3>2, <3>3, <1>2, <1>4, <1>6
    <3> QED
      BY <3>4, <2>2 DEF entry
  <2>3. CASE thread'[r] = thread[r]
    <3>1. Decided(r)
      BY <2>3 DEF Decided
    <3> QED
      BY <3>1, <2>1, <2>3
  <2> QED
    BY <2>1, <2>2, <2>3, <1>1, RequestSteps DEF RequestStep
<1> QED
  BY <1>1, <1>7, <1>8, <1>9, <1>10 DEF FreshInv

LEMMA FreshInit == Init => FreshInv
<1> SUFFICES ASSUME Init PROVE FreshInv
  OBVIOUS
<1>1. TypeOK
  BY InitTyped
<1>2. Past
  BY DEF Init, Past, Never
<1>3. EntriesHold
  BY DEF Init, EntriesHold, NoEntry
<1>4. \A r \in Request : thread[r].pc = "idle" /\ thread[r].from = 0
  BY DEF Init
<1>5. ReadingsHold /\ ChoicesHold
  BY <1>4 DEF Init, ReadingsHold, ChoicesHold, Decided, At
<1> QED
  BY <1>1, <1>2, <1>3, <1>5 DEF FreshInv

\* The choice a request works with was in force less than TTL before the
\* request began, with any number of workers, threads and changes.
THEOREM ChoiceFresh == Spec => []ChoiceIsFresh
<1>1. FreshInv => ChoiceIsFresh
  <2> SUFFICES ASSUME FreshInv, NEW r \in Request, Decided(r)
               PROVE  LastInForce(thread[r].value) > thread[r].from - TTL
    BY DEF ChoiceIsFresh
  <2>1. thread[r].value \in SELECTABLE_PROVIDERS
    BY DEF FreshInv, TypeOK, Thread
  <2> QED
    BY <2>1 DEF FreshInv, ChoicesHold, InForce
<1> QED
  BY <1>1, FreshInit, FreshStep, PTL DEF Spec

----------------------------------------------------------------------------
(* The carrier                                                             *)

LEMMA DialableStep == TypeOK /\ CallIsDialable /\ [Next]_vars => CallIsDialable'
<1> SUFFICES ASSUME TypeOK, CallIsDialable, [Next]_vars, NEW r \in Request,
                    thread'[r].provider # "none", Configured # {}
             PROVE  thread'[r].provider \in Configured
  BY DEF CallIsDialable
<1>1. thread \in [Request -> Thread]
  BY DEF TypeOK
<1>2. ASSUME NEW s \in Request, NEW indian \in BOOLEAN, EnqueueCall(s, indian)
      PROVE  thread'[r].provider \in Configured
  <2>1. ResolveProvider(thread[s].value, indian) \in Configured
    BY <1>1, Resolved DEF Thread
  <2> QED
    BY <1>1, <1>2, <2>1 DEF EnqueueCall, Thread, CallIsDialable
<1>3. ASSUME NEW s \in Request,
             \/ Begin(s) \/ Lookup(s) \/ ReadSetting(s) \/ FillCache(s) \/ ForgetCache(s)
             \/ \E v \in SELECTABLE_PROVIDERS : SetActiveProvider(s, v)
      PROVE  thread'[r].provider = thread[r].provider
  <2>1. CASE Begin(s) \/ ReadSetting(s)
    BY <1>1, <2>1 DEF Begin, ReadSetting, Thread
  <2>2. CASE Lookup(s)
    BY <1>1, <2>2 DEF Lookup, Goto, Thread
  <2>3. CASE FillCache(s) \/ ForgetCache(s)
    BY <1>1, <2>3 DEF FillCache, ForgetCache, Goto, Thread
  <2>4. CASE \E v \in SELECTABLE_PROVIDERS : SetActiveProvider(s, v)
    BY <1>1, <2>4 DEF SetActiveProvider, Goto, Thread
  <2> QED
    BY <1>3, <2>1, <2>2, <2>3, <2>4
<1>4. ASSUME NEW v \in Seeds, SeedSetting(v)
      PROVE  thread' = thread
  BY <1>4 DEF SeedSetting
<1>5. CASE Tick
  BY <1>5 DEF Tick, CallIsDialable
<1>6. CASE UNCHANGED vars
  BY <1>6 DEF vars, CallIsDialable
<1> QED
  BY <1>2, <1>3, <1>4, <1>5, <1>6 DEF Next, CallIsDialable

\* With any carrier configured, no call is queued on one that is not.
THEOREM DialableCalls == Spec => []CallIsDialable
<1>1. Init => CallIsDialable
  BY DEF Init, CallIsDialable
<1> QED
  BY <1>1, InitTyped, StepTyped, DialableStep, PTL DEF Spec
=============================================================================
