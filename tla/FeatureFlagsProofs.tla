-------------------------- MODULE FeatureFlagsProofs --------------------------
(***************************************************************************)
(* Proofs about FeatureFlags, for any number of threads, any time to live  *)
(* and any length of a call.                                               *)
(*                                                                         *)
(* Every inequality rests on ClockInv: a call under way began at most Lag  *)
(* ago.  Whoever fills the cache, or sets its expiry, uses a clock that is *)
(* that recent, so the expiry and the age of the cache, and the expiry and *)
(* any earlier call that was stored, are at most Lag apart.                *)
(***************************************************************************)
EXTENDS FeatureFlags, TLAPS

\* v is what the service answered at time x, or was put there later.
InForceAt(v, x) == v = version \/ x <= replaced[v]

Typed ==
    /\ TypeOK
    /\ \A t \in Threads : pc[t] \in {"store", "expiry"} => got[t] \in Versions

ClockInv == \A t \in Threads : pc[t] # "idle" => at[t] <= clock /\ clock <= at[t] + Lag

CacheInv ==
    /\ expires <= clock + TTL
    /\ cache # Nothing => /\ filled <= clock
                          /\ InForceAt(cache, filled)
                          /\ expires <= filled + Lag + TTL

AnswerInv ==
    \A t \in Threads :
        /\ pc[t] \in {"store", "expiry"} => InForceAt(got[t], at[t])
        /\ pc[t] = "expiry" => cache # Nothing /\ at[t] <= filled + Lag
        /\ pc[t] = "use" => cache # Nothing /\ at[t] <= filled + Lag + TTL
        /\ pc[t] = "return" /\ got[t] \in Versions =>
              \/ got[t] = version
              \/ at[t] <= replaced[got[t]] + Lag + TTL
        /\ pc[t] = "return" => got[t] # Nothing

StoredInv == \A b \in stored : b <= clock /\ b + TTL <= expires + Lag /\ cache # Nothing

Lapsed(t) == \A b \in before[t] : b + TTL <= at[t] + Lag

BeforeInv ==
    \A t \in Threads :
        /\ before[t] \subseteq stored
        /\ pc[t] = "fetch" => Lapsed(t)
        /\ pc[t] = "return" /\ got[t] = Config => Lapsed(t)

IInv == Typed /\ ClockInv /\ CacheInv /\ AnswerInv /\ StoredInv /\ BeforeInv

-----------------------------------------------------------------------------
LEMMA LaterBound == \A a, b, c, d \in Nat : a <= b + c /\ b <= d => a <= d + c
OBVIOUS

LEMMA LooserBound ==
    \A a, b, c, d, e \in Nat : a <= b /\ b <= c + d => a <= c + d /\ a <= c + d + e
OBVIOUS

LEMMA TypeInit == Init => Typed
BY TimesAreNatural, VersionsAreBounded DEF Init, Typed, TypeOK, Versions, Steps

\* What a thread leaves alone.
LEMMA CallFrame ==
    ASSUME NEW t \in Threads, Call(t), TypeOK
    PROVE  /\ UNCHANGED <<clock, version, replaced>>
           /\ \A u \in Threads : u # t => /\ pc'[u] = pc[u]
                                         /\ at'[u] = at[u]
                                         /\ got'[u] = got[u]
                                         /\ before'[u] = before[u]
<1> USE DEF TypeOK, GoOn, cacheVars
<1>1. CASE ReadClock(t) \/ Look(t)
  BY <1>1 DEF ReadClock, Look
<1>2. CASE Use(t) \/ Fetch(t) \/ FetchFails(t)
  BY <1>2 DEF Use, Fetch, FetchFails
<1>3. CASE StoreCache(t) \/ StoreExpiry(t)
  BY <1>3 DEF StoreCache, StoreExpiry
<1>4. CASE Return(t)
  BY <1>4 DEF Return
<1> QED BY <1>1, <1>2, <1>3, <1>4 DEF Call

\* What it does to its own step and to the cache.
LEMMA CallEffect ==
    ASSUME NEW t \in Threads, Call(t), TypeOK
    PROVE  \/ /\ pc[t] = "idle" /\ pc'[t] = "look"
              /\ at'[t] = clock /\ before'[t] = stored
              /\ UNCHANGED cacheVars
           \/ /\ pc[t] = "look" /\ pc'[t] = (IF Valid(t) THEN "use" ELSE "fetch")
              /\ UNCHANGED <<cacheVars, at[t], got[t], before[t]>>
           \/ /\ pc[t] = "use" /\ pc'[t] = "return" /\ got'[t] = cache
              /\ UNCHANGED <<cacheVars, at[t], before[t]>>
           \/ /\ pc[t] = "fetch" /\ pc'[t] = "store" /\ got'[t] = version
              /\ UNCHANGED <<cacheVars, at[t], before[t]>>
           \/ /\ pc[t] = "fetch" /\ pc'[t] = "return" /\ got'[t] = Config
              /\ UNCHANGED <<cacheVars, at[t], before[t]>>
           \/ /\ pc[t] = "store" /\ pc'[t] = "expiry"
              /\ cache' = got[t] /\ filled' = at[t]
              /\ UNCHANGED <<expires, stored, at[t], got[t], before[t]>>
           \/ /\ pc[t] = "expiry" /\ pc'[t] = "return"
              /\ expires' = at[t] + TTL /\ stored' = stored \cup {at[t]}
              /\ UNCHANGED <<cache, filled, at[t], got[t], before[t]>>
           \/ /\ pc[t] = "return" /\ pc'[t] = "idle" /\ before'[t] = {}
              /\ UNCHANGED cacheVars
<1> USE DEF TypeOK, GoOn, cacheVars
<1>1. CASE ReadClock(t)
  BY <1>1 DEF ReadClock
<1>2. CASE Look(t)
  BY <1>2 DEF Look
<1>3. CASE Use(t)
  BY <1>3 DEF Use
<1>4. CASE Fetch(t)
  BY <1>4 DEF Fetch
<1>5. CASE FetchFails(t)
  BY <1>5 DEF FetchFails
<1>6. CASE StoreCache(t)
  BY <1>6 DEF StoreCache
<1>7. CASE StoreExpiry(t)
  BY <1>7 DEF StoreExpiry
<1>8. CASE Return(t)
  BY <1>8 DEF Return
<1> QED BY <1>1, <1>2, <1>3, <1>4, <1>5, <1>6, <1>7, <1>8 DEF Call

\* Values that arithmetic is done with.
LEMMA Numbers ==
    ASSUME Typed
    PROVE  /\ clock \in Nat /\ expires \in Nat /\ filled \in Nat
           /\ TTL \in Nat /\ Lag \in Nat
           /\ version \in Nat /\ \A v \in Versions : replaced[v] \in Nat
           /\ \A b \in stored : b \in Nat
           /\ \A t \in Threads : at[t] \in Nat /\ \A b \in before[t] : b \in Nat
           /\ cache # Nothing => cache \in Versions
           /\ version \in Versions
           /\ \A v \in Versions : v # Config /\ v # Nothing
BY TimesAreNatural, VersionsAreBounded, SourcesDiffer DEF Typed, TypeOK, Versions

LEMMA TypeNext == Typed /\ [Next]_vars => Typed'
<1> SUFFICES ASSUME Typed, [Next]_vars PROVE Typed'
  OBVIOUS
<1> USE TimesAreNatural, VersionsAreBounded
<1>1. ASSUME NEW t \in Threads, Call(t)
      PROVE  Typed'
  <2>1. TypeOK'
    <3> USE DEF TypeOK, GoOn, Steps, cacheVars
    <3>1. CASE ReadClock(t)
      BY <3>1 DEF ReadClock, Typed
    <3>2. CASE Look(t)
      BY <3>2 DEF Look, Typed
    <3>3. CASE Use(t)
      BY <3>3 DEF Use, Typed
    <3>4. CASE Fetch(t)
      BY <3>4 DEF Fetch, Typed
    <3>5. CASE FetchFails(t)
      BY <3>5 DEF FetchFails, Typed
    <3>6. CASE StoreCache(t)
      <4>1. got[t] \in Versions
        BY <3>6 DEF StoreCache, Typed
      <4> QED BY <3>6, <4>1 DEF StoreCache, Typed
    <3>7. CASE StoreExpiry(t)
      <4>1. at[t] + TTL \in 0 .. MaxTime + TTL
        BY DEF Typed
      <4> QED BY <3>7, <4>1 DEF StoreExpiry, Typed
    <3>8. CASE Return(t)
      BY <3>8 DEF Return, Typed
    <3> QED BY <1>1, <3>1, <3>2, <3>3, <3>4, <3>5, <3>6, <3>7, <3>8 DEF Call
  <2>2. \A u \in Threads : u # t => pc'[u] = pc[u] /\ got'[u] = got[u]
    BY <1>1, CallFrame DEF Typed
  <2>3. pc'[t] \in {"store", "expiry"} => got'[t] \in Versions
    BY <1>1, CallEffect, Numbers DEF Typed
  <2> QED BY <2>1, <2>2, <2>3 DEF Typed
<1>2. CASE Publish
  BY <1>2 DEF Typed, TypeOK, Publish, Versions, cacheVars, threadVars
<1>3. CASE Tick
  BY <1>3 DEF Typed, TypeOK, Tick, cacheVars, threadVars
<1>4. CASE Restart
  BY <1>4 DEF Typed, TypeOK, Restart, Steps
<1>5. CASE UNCHANGED vars
  BY <1>5 DEF Typed, TypeOK, vars, cacheVars, threadVars
<1> QED BY <1>1, <1>2, <1>3, <1>4, <1>5 DEF Next

-----------------------------------------------------------------------------
LEMMA ClockNext == Typed /\ ClockInv /\ [Next]_vars => ClockInv'
<1> SUFFICES ASSUME Typed, ClockInv, [Next]_vars,
                    NEW u \in Threads, pc'[u] # "idle"
             PROVE  at'[u] <= clock' /\ clock' <= at'[u] + Lag
  BY DEF ClockInv
<1>1. clock \in Nat /\ Lag \in Nat /\ at[u] \in Nat
  BY Numbers
<1>2. ASSUME NEW t \in Threads, Call(t)
      PROVE  at'[u] <= clock' /\ clock' <= at'[u] + Lag
  <2>1. clock' = clock /\ (u # t => pc'[u] = pc[u] /\ at'[u] = at[u])
    BY <1>2, CallFrame DEF Typed
  <2>2. u = t => at'[u] = clock \/ (pc[u] # "idle" /\ at'[u] = at[u])
    BY <1>2, CallEffect DEF Typed
  <2> QED BY <1>1, <2>1, <2>2 DEF ClockInv
<1>3. CASE Tick
  BY <1>1, <1>3 DEF Tick, threadVars, ClockInv
<1>4. CASE UNCHANGED <<clock, threadVars>>
  BY <1>4 DEF ClockInv, threadVars
<1>5. CASE Restart
  BY <1>5 DEF Restart
<1> QED BY <1>2, <1>3, <1>4, <1>5 DEF Next, Publish, vars

\* What was in force at a time that has come stays so.
LEMMA InForceStays ==
    ASSUME Typed, NEW v \in Versions, NEW x \in Nat, x <= clock, InForceAt(v, x), [Next]_vars
    PROVE  v = version' \/ x <= replaced'[v]
<1>1. CASE UNCHANGED <<version, replaced>>
  BY <1>1 DEF InForceAt
<1>2. CASE Publish
  BY <1>2, Numbers DEF InForceAt, Publish, Typed, TypeOK
<1>3. \A t \in Threads : Call(t) => UNCHANGED <<version, replaced>>
  BY CallFrame DEF Typed
<1> QED BY <1>1, <1>2, <1>3 DEF Next, Tick, Restart, vars

LEMMA CacheNext ==
    Typed /\ ClockInv /\ CacheInv /\ AnswerInv /\ [Next]_vars => CacheInv'
<1> SUFFICES ASSUME Typed, ClockInv, CacheInv, AnswerInv, [Next]_vars PROVE CacheInv'
  OBVIOUS
<1>1. clock \in Nat /\ expires \in Nat /\ filled \in Nat /\ TTL \in Nat /\ Lag \in Nat
  BY Numbers
<1>2. cache # Nothing => cache = version' \/ filled <= replaced'[cache]
  BY <1>1, Numbers, InForceStays DEF CacheInv
<1>3. ASSUME UNCHANGED cacheVars, clock' >= clock, clock' \in Nat
      PROVE  CacheInv'
  <2>1. /\ cache' = cache /\ expires' = expires /\ filled' = filled
        /\ clock' >= clock /\ clock' \in Nat
    BY <1>3 DEF cacheVars
  <2>2. expires' <= clock' + TTL
    <3>1. expires <= clock + TTL
      BY DEF CacheInv
    <3>2. clock' \in Nat /\ clock <= clock' /\ expires' = expires
      BY <2>1
    <3>3. expires <= clock' + TTL
      BY <1>1, <3>1, <3>2, LaterBound
    <3> QED BY <3>2, <3>3
  <2>3. cache # Nothing => filled <= clock' /\ expires <= filled + Lag + TTL
    <3>1. cache # Nothing => filled <= clock /\ expires <= filled + Lag + TTL
      BY DEF CacheInv
    <3> QED BY <1>1, <2>1, <3>1
  <2> QED BY <1>2, <2>1, <2>2, <2>3 DEF CacheInv, InForceAt
<1>4. ASSUME NEW t \in Threads, Call(t)
      PROVE  CacheInv'
  <2>1. UNCHANGED <<clock, version, replaced>>
    BY <1>4, CallFrame DEF Typed
  <2>2. CASE UNCHANGED cacheVars
    BY <1>1, <1>3, <2>1, <2>2
  <2>3. CASE /\ pc[t] = "store" /\ cache' = got[t] /\ filled' = at[t]
             /\ UNCHANGED expires
    <3>1. at[t] \in Nat /\ at[t] <= clock /\ clock <= at[t] + Lag /\ InForceAt(got[t], at[t])
      BY <2>3, Numbers DEF ClockInv, AnswerInv
    <3> QED BY <1>1, <2>1, <2>3, <3>1 DEF CacheInv, InForceAt
  <2>4. CASE /\ pc[t] = "expiry" /\ expires' = at[t] + TTL
             /\ UNCHANGED <<cache, filled>>
    <3>1. at[t] \in Nat /\ at[t] <= clock /\ cache # Nothing /\ at[t] <= filled + Lag
      BY <2>4, Numbers DEF ClockInv, AnswerInv
    <3> QED BY <1>1, <2>1, <2>4, <3>1 DEF CacheInv, InForceAt
  <2> QED BY <1>4, <2>2, <2>3, <2>4, CallEffect DEF Typed
<1>5. CASE Tick
  BY <1>1, <1>3, <1>5 DEF Tick
<1>6. CASE Publish
  BY <1>1, <1>3, <1>6 DEF Publish
<1>7. CASE Restart
  BY <1>1, <1>7 DEF Restart, CacheInv
<1>8. CASE UNCHANGED vars
  BY <1>1, <1>3, <1>8 DEF vars
<1> QED BY <1>4, <1>5, <1>6, <1>7, <1>8 DEF Next

LEMMA AnswerNext ==
    Typed /\ ClockInv /\ CacheInv /\ AnswerInv /\ [Next]_vars => AnswerInv'
<1> SUFFICES ASSUME Typed, ClockInv, CacheInv, AnswerInv, [Next]_vars, NEW u \in Threads
             PROVE  /\ pc'[u] \in {"store", "expiry"} => InForceAt(got[u], at[u])'
                    /\ pc'[u] = "expiry" => cache' # Nothing /\ at'[u] <= filled' + Lag
                    /\ pc'[u] = "use" => cache' # Nothing /\ at'[u] <= filled' + Lag + TTL
                    /\ pc'[u] = "return" /\ got'[u] \in Versions =>
                          \/ got'[u] = version'
                          \/ at'[u] <= replaced'[got'[u]] + Lag + TTL
                    /\ pc'[u] = "return" => got'[u] # Nothing
  BY DEF AnswerInv
<1> DEFINE Fetched == pc'[u] \in {"store", "expiry"} => InForceAt(got[u], at[u])'
           Timely  == /\ pc'[u] = "expiry" => cache' # Nothing /\ at'[u] <= filled' + Lag
                      /\ pc'[u] = "use" => cache' # Nothing /\ at'[u] <= filled' + Lag + TTL
           Fresh   == /\ pc'[u] = "return" /\ got'[u] \in Versions =>
                             \/ got'[u] = version'
                             \/ at'[u] <= replaced'[got'[u]] + Lag + TTL
                      /\ pc'[u] = "return" => got'[u] # Nothing
<1>1. /\ clock \in Nat /\ expires \in Nat /\ filled \in Nat /\ TTL \in Nat /\ Lag \in Nat
      /\ at[u] \in Nat /\ version \in Versions
      /\ \A v \in Versions : replaced[v] \in Nat
  BY Numbers
<1>2. pc[u] # "idle" => at[u] <= clock /\ clock <= at[u] + Lag
  BY DEF ClockInv
<1>3. ASSUME UNCHANGED <<cache, filled, pc[u], at[u], got[u]>>, ~ UNCHANGED <<version, replaced>> => Publish
      PROVE  Fetched /\ Timely /\ Fresh
  <2>1. Timely
    BY <1>3 DEF AnswerInv
  <2>2. \A v \in Versions : v # version => replaced'[v] = replaced[v]
    BY <1>3 DEF Publish, Typed, TypeOK
  <2>3. UNCHANGED <<version, replaced>> \/ replaced'[version] = clock
    BY <1>3 DEF Publish, Typed, TypeOK
  <2>4. pc[u] = "return" => Fresh
    BY <1>1, <1>2, <1>3, <2>2, <2>3 DEF AnswerInv
  <2>5. pc[u] \in {"store", "expiry"} => Fetched
    BY <1>1, <1>2, <1>3, <2>2, <2>3 DEF AnswerInv, InForceAt, Typed
  <2> QED BY <1>3, <2>1, <2>4, <2>5
<1>4. ASSUME NEW t \in Threads, Call(t)
      PROVE  Fetched /\ Timely /\ Fresh
  <2>1. UNCHANGED <<clock, version, replaced>>
    BY <1>4, CallFrame DEF Typed
  <2>2. CASE u # t
    <3>1. UNCHANGED <<pc[u], at[u], got[u]>>
      BY <1>4, <2>2, CallFrame DEF Typed
    <3>2. CASE UNCHANGED <<cache, filled>>
      BY <1>3, <2>1, <3>1, <3>2
    <3>3. CASE pc[t] = "store" /\ cache' = got[t] /\ filled' = at[t]
      <4>1. /\ cache' # Nothing /\ clock <= filled' + Lag /\ filled' \in Nat
        BY <3>3, Numbers DEF ClockInv, Typed
      <4>2. pc'[u] = pc[u] /\ at'[u] = at[u]
        BY <3>1
      <4>3. pc[u] # "idle" => at[u] <= filled' + Lag /\ at[u] <= filled' + Lag + TTL
        BY <1>1, <1>2, <4>1, LooserBound
      <4>4. Timely
        BY <4>1, <4>2, <4>3
      <4> QED BY <2>1, <3>1, <4>4 DEF AnswerInv, InForceAt
    <3> QED BY <1>4, <3>2, <3>3, CallEffect DEF Typed, cacheVars
  <2>3. CASE u = t
    <3>1. CASE pc[u] = "look" /\ pc'[u] = (IF Valid(u) THEN "use" ELSE "fetch") /\ UNCHANGED <<cache, filled, at[u]>>
      BY <1>1, <3>1 DEF CacheInv, Valid
    <3>2. CASE pc[u] = "use" /\ pc'[u] = "return" /\ got'[u] = cache /\ UNCHANGED at[u]
      <4>1. cache \in Versions /\ at[u] <= filled + Lag + TTL /\ InForceAt(cache, filled)
        BY <3>2, Numbers DEF AnswerInv, CacheInv
      <4>2. got'[u] # Nothing
        BY <3>2, <4>1, Numbers
      <4> QED BY <1>1, <2>1, <3>2, <4>1, <4>2 DEF InForceAt
    <3>3. CASE pc[u] = "fetch" /\ pc'[u] = "store" /\ got'[u] = version
      BY <2>1, <3>3 DEF InForceAt
    <3>4. CASE pc[u] = "fetch" /\ pc'[u] = "return" /\ got'[u] = Config
      BY <3>4, Numbers, SourcesDiffer
    <3>5. CASE pc[u] = "store" /\ pc'[u] = "expiry" /\ cache' = got[u] /\ filled' = at[u] /\ UNCHANGED <<at[u], got[u]>>
      <4>1. cache' # Nothing
        BY <3>5, Numbers DEF Typed
      <4> QED BY <1>1, <2>1, <3>5, <4>1 DEF AnswerInv, InForceAt
    <3>6. CASE pc[u] = "expiry" /\ pc'[u] = "return" /\ UNCHANGED <<at[u], got[u]>>
      <4>1. got'[u] # Nothing
        BY <3>6, Numbers DEF Typed
      <4> QED BY <1>1, <2>1, <3>6, <4>1 DEF AnswerInv, InForceAt
    <3>7. CASE pc'[u] \in {"idle", "look"}
      BY <3>7
    <3> QED BY <1>4, <2>3, <3>1, <3>2, <3>3, <3>4, <3>5, <3>6, <3>7, CallEffect DEF Typed, cacheVars
  <2> QED BY <2>2, <2>3
<1>5. CASE Tick
  BY <1>3, <1>5 DEF Tick, cacheVars, threadVars
<1>6. CASE Publish
  BY <1>3, <1>6 DEF Publish, cacheVars, threadVars
<1>7. CASE Restart
  BY <1>7 DEF Restart
<1>8. CASE UNCHANGED vars
  BY <1>3, <1>8 DEF vars, cacheVars, threadVars
<1> QED BY <1>4, <1>5, <1>6, <1>7, <1>8 DEF Next

LEMMA StoredNext ==
    Typed /\ ClockInv /\ AnswerInv /\ StoredInv /\ [Next]_vars => StoredInv'
<1> SUFFICES ASSUME Typed, ClockInv, AnswerInv, StoredInv, [Next]_vars, NEW b \in stored'
             PROVE  b <= clock' /\ b + TTL <= expires' + Lag /\ cache' # Nothing
  BY DEF StoredInv
<1>1. clock \in Nat /\ expires \in Nat /\ TTL \in Nat /\ Lag \in Nat
  BY Numbers
<1>2. b \in stored => b \in Nat /\ b <= clock /\ b + TTL <= expires + Lag /\ cache # Nothing
  BY Numbers DEF StoredInv
<1>3. ASSUME UNCHANGED cacheVars, clock' \in Nat, clock' >= clock
      PROVE  b <= clock' /\ b + TTL <= expires' + Lag /\ cache' # Nothing
  BY <1>1, <1>2, <1>3 DEF cacheVars
<1>4. ASSUME NEW t \in Threads, Call(t)
      PROVE  b <= clock' /\ b + TTL <= expires' + Lag /\ cache' # Nothing
  <2>1. UNCHANGED clock
    BY <1>4, CallFrame DEF Typed
  <2>2. CASE UNCHANGED cacheVars
    BY <1>1, <1>3, <2>1, <2>2
  <2>3. CASE pc[t] = "store" /\ cache' = got[t] /\ UNCHANGED <<expires, stored>>
    <3>1. cache' # Nothing
      BY <2>3, Numbers DEF Typed
    <3> QED BY <1>2, <2>1, <2>3, <3>1
  <2>4. CASE /\ pc[t] = "expiry" /\ expires' = at[t] + TTL /\ stored' = stored \cup {at[t]}
             /\ UNCHANGED cache
    <3>1. at[t] \in Nat /\ at[t] <= clock /\ clock <= at[t] + Lag /\ cache # Nothing
      BY <2>4, Numbers DEF ClockInv, AnswerInv
    <3>2. b \in stored \/ b = at[t]
      BY <2>4
    <3> QED BY <1>1, <1>2, <2>1, <2>4, <3>1, <3>2
  <2> QED BY <1>4, <2>2, <2>3, <2>4, CallEffect DEF Typed
<1>5. CASE Tick
  BY <1>1, <1>3, <1>5 DEF Tick
<1>6. CASE Publish
  BY <1>1, <1>3, <1>6 DEF Publish
<1>7. CASE Restart
  BY <1>7 DEF Restart
<1>8. CASE UNCHANGED vars
  BY <1>1, <1>3, <1>8 DEF vars
<1> QED BY <1>4, <1>5, <1>6, <1>7, <1>8 DEF Next

LEMMA BeforeNext ==
    Typed /\ AnswerInv /\ StoredInv /\ BeforeInv /\ [Next]_vars => BeforeInv'
<1> SUFFICES ASSUME Typed, AnswerInv, StoredInv, BeforeInv, [Next]_vars, NEW u \in Threads
             PROVE  /\ before'[u] \subseteq stored'
                    /\ pc'[u] = "fetch" => Lapsed(u)'
                    /\ pc'[u] = "return" /\ got'[u] = Config => Lapsed(u)'
  BY DEF BeforeInv
<1>1. /\ before[u] \subseteq stored
      /\ pc[u] = "fetch" => Lapsed(u)
      /\ pc[u] = "return" /\ got[u] = Config => Lapsed(u)
  BY DEF BeforeInv
<1>2. ASSUME UNCHANGED <<stored, threadVars>>
      PROVE  /\ before'[u] \subseteq stored'
             /\ pc'[u] = "fetch" => Lapsed(u)'
             /\ pc'[u] = "return" /\ got'[u] = Config => Lapsed(u)'
  BY <1>1, <1>2 DEF threadVars, Lapsed
<1>3. ASSUME NEW t \in Threads, Call(t)
      PROVE  /\ before'[u] \subseteq stored'
             /\ pc'[u] = "fetch" => Lapsed(u)'
             /\ pc'[u] = "return" /\ got'[u] = Config => Lapsed(u)'
  <2>1. stored \subseteq stored'
    BY <1>3, CallEffect DEF Typed, cacheVars
  <2>2. CASE u # t
    BY <1>1, <1>3, <2>1, <2>2, CallFrame DEF Typed, Lapsed
  <2>3. CASE u = t
    <3>1. CASE pc[u] = "look" /\ pc'[u] = (IF Valid(u) THEN "use" ELSE "fetch") /\ UNCHANGED <<at[u], before[u]>>
      <4>1. ASSUME ~ Valid(u), NEW b \in before[u]
            PROVE  b + TTL <= at[u] + Lag
        <5>1. b \in Nat /\ b + TTL <= expires + Lag /\ cache # Nothing
          BY <1>1, Numbers DEF StoredInv
        <5> QED BY <4>1, <5>1, Numbers DEF Valid
      <4> QED BY <1>1, <2>1, <3>1, <4>1 DEF Lapsed
    <3>2. CASE pc[u] = "use" /\ pc'[u] = "return" /\ got'[u] = cache /\ UNCHANGED before[u]
      <4>1. cache # Config
        BY <3>2, Numbers DEF AnswerInv
      <4> QED BY <1>1, <2>1, <3>2, <4>1
    <3>3. CASE pc[u] = "fetch" /\ pc'[u] \in {"store", "return"} /\ UNCHANGED <<at[u], before[u]>>
      BY <1>1, <2>1, <3>3 DEF Lapsed
    <3>4. CASE pc'[u] = "expiry" /\ UNCHANGED before[u]
      BY <1>1, <2>1, <3>4
    <3>5. CASE pc[u] = "expiry" /\ UNCHANGED <<got[u], before[u]>> /\ pc'[u] = "return"
      <4>1. got[u] # Config
        BY <3>5, Numbers DEF Typed
      <4> QED BY <1>1, <2>1, <3>5, <4>1
    <3>6. CASE pc'[u] \in {"idle", "look"} /\ before'[u] \in {stored, {}}
      BY <2>1, <3>6
    <3> QED BY <1>3, <2>3, <3>1, <3>2, <3>3, <3>4, <3>5, <3>6, CallEffect DEF Typed, cacheVars
  <2> QED BY <2>2, <2>3
<1>4. CASE Restart
  BY <1>4 DEF Restart
<1>5. \/ UNCHANGED <<stored, threadVars>> \/ Restart \/ \E t \in Threads : Call(t)
  BY DEF Next, Publish, Tick, vars, cacheVars
<1> QED BY <1>2, <1>3, <1>4, <1>5

-----------------------------------------------------------------------------
LEMMA InvInit == Init => IInv
<1> SUFFICES ASSUME Init PROVE IInv
  OBVIOUS
<1>1. Typed
  BY TypeInit
<1>2. ClockInv /\ AnswerInv /\ StoredInv
  BY DEF Init, ClockInv, AnswerInv, StoredInv
<1>3. CacheInv
  BY TimesAreNatural DEF Init, CacheInv
<1>4. BeforeInv
  BY DEF Init, BeforeInv
<1> QED BY <1>1, <1>2, <1>3, <1>4 DEF IInv

LEMMA InvNext == IInv /\ [Next]_vars => IInv'
BY TypeNext, ClockNext, CacheNext, AnswerNext, StoredNext, BeforeNext DEF IInv

THEOREM Invariance == Spec => []IInv
BY InvInit, InvNext, PTL DEF Spec

\* TypeOK: the variables keep their types, for any number of threads.
THEOREM TypeCorrect == Spec => []TypeOK
<1>1. IInv => TypeOK
  BY DEF IInv, Typed
<1> QED BY Invariance, <1>1, PTL

\* snapshot looks at the cache twice, to test it and to return it, while other
\* threads assign it: what a call returns is a snapshot all the same, of the
\* service or of the configuration, and never the empty cache.
THEOREM AnswersAreThere ==
    Spec => [](\A t \in Threads : pc[t] = "return" => got[t] \in Versions \cup {Config})
<1>1. IInv => \A t \in Threads : pc[t] = "return" => got[t] \in Versions \cup {Config}
  BY DEF IInv, AnswerInv, Typed, TypeOK
<1> QED BY Invariance, <1>1, PTL

\* FlagsAreFresh: whatever the interleaving of the threads that fill the cache, no
\* call returns flags that were replaced longer ago than the time to live and the
\* length of two calls.
THEOREM FlagsStayFresh == Spec => []FlagsAreFresh
<1>1. IInv => FlagsAreFresh
  <2> SUFFICES ASSUME IInv, NEW t \in Threads, pc[t] = "return", got[t] \in Versions
               PROVE  got[t] = version \/ clock <= replaced[got[t]] + (TTL + 2 * Lag)
    BY DEF FlagsAreFresh, InForceWithin
  <2>1. clock <= at[t] + Lag
    BY DEF IInv, ClockInv
  <2>2. got[t] = version \/ at[t] <= replaced[got[t]] + Lag + TTL
    BY DEF IInv, AnswerInv
  <2>3. /\ clock \in Nat /\ TTL \in Nat /\ Lag \in Nat /\ at[t] \in Nat
        /\ replaced[got[t]] \in Nat
    BY Numbers DEF IInv
  <2> HIDE DEF IInv
  <2> QED BY <2>1, <2>2, <2>3
<1> QED BY Invariance, <1>1, PTL

\* OutageIsBridged: the flags go back to the configuration only when every answer
\* stored before the call has expired, but for the length of one call.
THEOREM OutagesAreBridged == Spec => []OutageIsBridged
<1>1. IInv => OutageIsBridged
  BY DEF IInv, BeforeInv, Lapsed, OutageIsBridged
<1> QED BY Invariance, <1>1, PTL

=============================================================================
