---------------------------- MODULE FeatureFlags ----------------------------
(***************************************************************************)
(* Feature flags that come from an HTTP service, with the configuration as *)
(* a fallback.                                                             *)
(*                                                                         *)
(* Any thread that asks for a flag runs ExternalFeatureFlagProvider.snapshot. *)
(* The last answer of the service is cached for a time to live.  The clock *)
(* is read first; the cache and its expiry are two attributes, assigned    *)
(* without a lock, so threads that fetch at the same time may leave the    *)
(* answer of one of them with the expiry of the other.                     *)
(***************************************************************************)
EXTENDS Naturals

CONSTANTS
    Threads,      \* threads that ask for flags
    TTL,          \* cache_ttl_seconds, in ticks
    Lag,          \* the longest time a call takes: the request, and the time for
                  \* which the thread does not run
    Config,       \* the snapshot of the configuration
    Nothing,      \* no snapshot
    MaxTime,      \* bound: ticks
    MaxVersion    \* bound: changes of flags at the service

\* Snapshots of the service are told apart by their number.
Versions == 0 .. MaxVersion

ASSUME TimesAreNatural == TTL \in Nat /\ Lag \in Nat /\ MaxTime \in Nat
ASSUME VersionsAreBounded == MaxVersion \in Nat
ASSUME SourcesDiffer == Config \notin Nat /\ Nothing \notin Nat /\ Config # Nothing

VARIABLES
    clock,      \* time.monotonic()
    version,    \* what the service answers
    replaced,   \* history: when a version was replaced
    cache,      \* _cache
    expires,    \* _cache_expires_at
    filled,     \* history: the clock of the call that filled the cache
    stored,     \* history: the clocks of the calls that filled it and set its expiry
    pc,         \* next step of each thread
    at,         \* the clock it read
    got,        \* what it has fetched or found
    before      \* history: stored, when the call began

threadVars == <<pc, at, got, before>>
cacheVars == <<cache, expires, filled, stored>>
vars == <<clock, version, replaced, cacheVars, threadVars>>

Steps == {"idle", "look", "use", "fetch", "store", "expiry", "return"}

TypeOK ==
    /\ clock \in 0 .. MaxTime
    /\ version \in Versions
    /\ replaced \in [Versions -> 0 .. MaxTime]
    /\ cache \in Versions \cup {Nothing}
    /\ expires \in 0 .. MaxTime + TTL
    /\ filled \in 0 .. MaxTime
    /\ stored \in SUBSET (0 .. MaxTime)
    /\ pc \in [Threads -> Steps]
    /\ at \in [Threads -> 0 .. MaxTime]
    /\ got \in [Threads -> Versions \cup {Config, Nothing}]
    /\ before \in [Threads -> SUBSET (0 .. MaxTime)]

Init ==
    /\ clock = 0
    /\ version = 0
    /\ replaced = [v \in Versions |-> 0]
    /\ cache = Nothing /\ expires = 0
    /\ filled = 0 /\ stored = {}
    /\ pc = [t \in Threads |-> "idle"]
    /\ at = [t \in Threads |-> 0]
    /\ got = [t \in Threads |-> Nothing]
    /\ before = [t \in Threads |-> {}]

-----------------------------------------------------------------------------
GoOn(t, step) == pc' = [pc EXCEPT ![t] = step]

\* get_bool, get_string and snapshot begin by reading the clock.
ReadClock(t) ==
    /\ pc[t] = "idle"
    /\ GoOn(t, "look")
    /\ at' = [at EXCEPT ![t] = clock]
    /\ before' = [before EXCEPT ![t] = stored]
    /\ UNCHANGED <<clock, version, replaced, cacheVars, got>>

\* A cache that was filled once is good for ever.
BugValid(t) == cache # Nothing

Valid(t) == cache # Nothing /\ at[t] < expires

Look(t) ==
    /\ pc[t] = "look"
    /\ GoOn(t, IF Valid(t) THEN "use" ELSE "fetch")
    /\ UNCHANGED <<clock, version, replaced, cacheVars, at, got, before>>

\* The cache is read again for the answer: it may be another one by now.
Use(t) ==
    /\ pc[t] = "use"
    /\ got' = [got EXCEPT ![t] = cache]
    /\ GoOn(t, "return")
    /\ UNCHANGED <<clock, version, replaced, cacheVars, at, before>>

\* The service answers; its answer is on its way until StoreCache.
Fetch(t) ==
    /\ pc[t] = "fetch"
    /\ got' = [got EXCEPT ![t] = version]
    /\ GoOn(t, "store")
    /\ UNCHANGED <<clock, version, replaced, cacheVars, at, before>>

\* The failure is taken for an answer, and cached.
BugFetchFails(t) ==
    /\ pc[t] = "fetch"
    /\ got' = [got EXCEPT ![t] = Config]
    /\ GoOn(t, "store")
    /\ UNCHANGED <<clock, version, replaced, cacheVars, at, before>>

\* The failure empties the cache.
BugFailureEmpties(t) ==
    /\ pc[t] = "fetch"
    /\ got' = [got EXCEPT ![t] = Config]
    /\ GoOn(t, "return")
    /\ cache' = Nothing
    /\ UNCHANGED <<clock, version, replaced, expires, filled, stored, at, before>>

\* Refused, timed out, not JSON, not an object: the flags of the configuration
\* are the answer, and the cache stays as it is.
FetchFails(t) ==
    /\ pc[t] = "fetch"
    /\ got' = [got EXCEPT ![t] = Config]
    /\ GoOn(t, "return")
    /\ UNCHANGED <<clock, version, replaced, cacheVars, at, before>>

StoreCache(t) ==
    /\ pc[t] = "store"
    /\ cache' = got[t]
    /\ filled' = at[t]
    /\ GoOn(t, "expiry")
    /\ UNCHANGED <<clock, version, replaced, expires, stored, at, got, before>>

StoreExpiry(t) ==
    /\ pc[t] = "expiry"
    /\ expires' = at[t] + TTL
    /\ stored' = stored \cup {at[t]}
    /\ GoOn(t, "return")
    /\ UNCHANGED <<clock, version, replaced, cache, filled, at, got, before>>

Return(t) ==
    /\ pc[t] = "return"
    /\ GoOn(t, "idle")
    /\ at' = [at EXCEPT ![t] = 0]
    /\ got' = [got EXCEPT ![t] = Nothing]
    /\ before' = [before EXCEPT ![t] = {}]
    /\ UNCHANGED <<clock, version, replaced, cacheVars>>

\* Somebody changes the flags at the service.
Publish ==
    /\ version < MaxVersion
    /\ version' = version + 1
    /\ replaced' = [replaced EXCEPT ![version] = clock]
    /\ UNCHANGED <<clock, cacheVars, threadVars>>

\* No call takes longer than Lag.
Tick ==
    /\ clock < MaxTime
    /\ \A t \in Threads : pc[t] # "idle" => clock < at[t] + Lag
    /\ clock' = clock + 1
    /\ UNCHANGED <<version, replaced, cacheVars, threadVars>>

\* The process is started again, without a cache.
Restart ==
    /\ cache' = Nothing /\ expires' = 0
    /\ filled' = 0 /\ stored' = {}
    /\ pc' = [t \in Threads |-> "idle"]
    /\ at' = [t \in Threads |-> 0]
    /\ got' = [t \in Threads |-> Nothing]
    /\ before' = [t \in Threads |-> {}]
    /\ UNCHANGED <<clock, version, replaced>>

Call(t) ==
    \/ ReadClock(t) \/ Look(t) \/ Use(t) \/ Fetch(t) \/ FetchFails(t)
    \/ StoreCache(t) \/ StoreExpiry(t) \/ Return(t)

Next == (\E t \in Threads : Call(t)) \/ Publish \/ Tick \/ Restart

Spec == Init /\ [][Next]_vars

-----------------------------------------------------------------------------
(* Properties.                                                             *)

\* v is what the service answers, or was until at most d ago.
InForceWithin(v, d) == v = version \/ clock <= replaced[v] + d

\* A call never returns flags that were replaced at the service longer ago than
\* the time to live and the length of two calls: the one that filled the cache
\* may have been overtaken by the one that set the expiry.
FlagsAreFresh ==
    \A t \in Threads :
        pc[t] = "return" /\ got[t] \in Versions =>
            InForceWithin(got[t], TTL + 2 * Lag)

\* An outage is not noticed as long as an answer that was stored before the call
\* lives: flags go back to the configuration only when all of these have
\* expired, but for the length of one call.
OutageIsBridged ==
    \A t \in Threads :
        pc[t] = "return" /\ got[t] = Config =>
            \A b \in before[t] : b + TTL <= at[t] + Lag
=============================================================================
