----------------------------- MODULE RateLimit -----------------------------
(***************************************************************************)
(* The sliding-window rate limiter in front of POST /v1/generations.       *)
(*                                                                         *)
(* A request, in a thread of the pool, gets or creates the bucket of its   *)
(* tenant, reads the clock, and only then takes the lock of the bucket:    *)
(* threads may record their times out of order.  Time is counted in ticks, *)
(* TicksPerSecond of them to a second.                                     *)
(***************************************************************************)
EXTENDS Naturals, Sequences

CONSTANTS
    Tenants, Threads,
    MaxRequests,     \* MaxRequests[t]: RateLimitPolicy.max_requests
    WindowSeconds,   \* WindowSeconds[t]: RateLimitPolicy.window_seconds
    TicksPerSecond,
    Lag,             \* ticks between reading the clock and having the lock
    MaxTime,         \* bound: the clock stops there
    MaxGrants        \* bound: requests granted to a tenant

ASSUME PoliciesArePositive ==
    /\ MaxRequests \in [Tenants -> Nat \ {0}]
    /\ WindowSeconds \in [Tenants -> Nat \ {0}]
ASSUME TicksAreNatural ==
    TicksPerSecond \in Nat \ {0} /\ Lag \in Nat /\ MaxTime \in Nat /\ MaxGrants \in Nat

Window(t) == WindowSeconds[t] * TicksPerSecond
Never == MaxTime + 1

VARIABLES
    clock,        \* time.monotonic()
    bucket,       \* bucket[t]: _timestamps, empty until it is created
    pc, tenant,   \* threads
    now,          \* now[h]: the time the thread read
    granted,      \* history: when the requests of t were granted, in order
    retryAt       \* history: when a denied client was told to come back, if
                  \* nobody was granted since; the earliest one

vars == <<clock, bucket, pc, tenant, now, granted, retryAt>>

Times == 0 .. MaxTime

TypeOK ==
    /\ clock \in Times
    /\ bucket \in [Tenants -> Seq(Times)]
    /\ \A t \in Tenants : Len(bucket[t]) <= MaxRequests[t]
    /\ pc \in [Threads -> {"idle", "read", "lock"}]
    /\ tenant \in [Threads -> Tenants]
    /\ now \in [Threads -> Times]
    /\ granted \in [Tenants -> Seq(Times)]
    /\ retryAt \in [Tenants -> Nat]
    /\ \A h \in Threads : pc[h] = "lock" => now[h] <= clock /\ clock <= now[h] + Lag

Init ==
    /\ clock = 0
    /\ bucket = [t \in Tenants |-> <<>>]
    /\ pc = [h \in Threads |-> "idle"]
    /\ tenant \in [Threads -> Tenants]
    /\ now = [h \in Threads |-> 0]
    /\ granted = [t \in Tenants |-> <<>>]
    /\ retryAt = [t \in Tenants |-> Never]

-----------------------------------------------------------------------------
\* The request is denied when n others are in the window.
Full(t, n) == n >= MaxRequests[t]

\* A request just as old as the window is dropped too.
BugExpired(t, stamp, time) == stamp + Window(t) <= time

\* stamp < now - window_seconds.
Expired(t, stamp, time) == stamp + Window(t) < time

\* The fraction of a second is not rounded up.
BugRetrySeconds(t, oldest, time) ==
    LET left == (oldest + Window(t) - time) \div TicksPerSecond
    IN  IF left > 1 THEN left ELSE 1

\* max(1, int(oldest - window_start) + 1).
RetrySeconds(t, oldest, time) ==
    LET left == (oldest + Window(t) - time) \div TicksPerSecond + 1
    IN  IF left > 1 THEN left ELSE 1

\* The first n entries, and no more, are the ones dropped from the left.
Drops(t, time, n) ==
    LET q == bucket[t] IN
    /\ \A i \in 1 .. n : Expired(t, q[i], time)
    /\ n < Len(q) => ~ Expired(t, q[n + 1], time)

-----------------------------------------------------------------------------
\* The bucket is found or made under the provider's lock.
Arrive(h, t) ==
    /\ pc[h] = "idle"
    /\ pc' = [pc EXCEPT ![h] = "read"]
    /\ tenant' = [tenant EXCEPT ![h] = t]
    /\ UNCHANGED <<clock, bucket, now, granted, retryAt>>

ReadClock(h) ==
    /\ pc[h] = "read"
    /\ now' = [now EXCEPT ![h] = clock]
    /\ pc' = [pc EXCEPT ![h] = "lock"]
    /\ UNCHANGED <<clock, bucket, tenant, granted, retryAt>>

\* What follows happens while the bucket is locked.
Allow(h) ==
    LET t == tenant[h] IN
    /\ pc[h] = "lock"
    /\ Len(granted[t]) < MaxGrants
    /\ \E n \in 0 .. Len(bucket[t]) :
          /\ Drops(t, now[h], n)
          /\ ~ Full(t, Len(bucket[t]) - n)
          /\ bucket' = [bucket EXCEPT ![t] =
                           Append(SubSeq(@, n + 1, Len(@)), now[h])]
    /\ granted' = [granted EXCEPT ![t] = Append(@, clock)]
    /\ retryAt' = [retryAt EXCEPT ![t] = Never]
    /\ pc' = [pc EXCEPT ![h] = "idle"]
    /\ UNCHANGED <<clock, tenant, now>>

\* 429 with Retry-After.
Deny(h) ==
    LET t == tenant[h] IN
    /\ pc[h] = "lock"
    /\ \E n \in 0 .. Len(bucket[t]) :
          /\ Drops(t, now[h], n)
          /\ Full(t, Len(bucket[t]) - n)
          /\ bucket' = [bucket EXCEPT ![t] = SubSeq(@, n + 1, Len(@))]
          /\ retryAt' = [retryAt EXCEPT ![t] =
                LET told == now[h]
                        + RetrySeconds(t, bucket[t][n + 1], now[h]) * TicksPerSecond
                IN  IF told < @ THEN told ELSE @]
    /\ pc' = [pc EXCEPT ![h] = "idle"]
    /\ UNCHANGED <<clock, tenant, now, granted>>

\* No thread waits for its lock longer than Lag.
Tick ==
    /\ clock < MaxTime
    /\ \A h \in Threads : pc[h] = "lock" => clock < now[h] + Lag
    /\ clock' = clock + 1
    /\ UNCHANGED <<bucket, pc, tenant, now, granted, retryAt>>

Next ==
    \/ \E h \in Threads : \/ ReadClock(h) \/ Allow(h) \/ Deny(h)
                          \/ \E t \in Tenants : Arrive(h, t)
    \/ Tick

Spec == Init /\ [][Next]_vars

-----------------------------------------------------------------------------
(* Properties.                                                             *)

\* However threads overtake one another between reading the clock and taking
\* the lock, max_requests + 1 grants never fall into one window, shortened by
\* the time a thread can be held up: the limit is exact without hold-ups.
WindowLimit ==
    \A t \in Tenants : \A i \in 1 .. Len(granted[t]) :
        i + MaxRequests[t] <= Len(granted[t]) =>
            granted[t][i + MaxRequests[t]] + Lag > granted[t][i] + Window(t)

\* A client that comes back when Retry-After told it to is not denied, unless
\* somebody else's request was granted in between.
RetryIsHonoured ==
    [][\A h \in Threads : Deny(h) => now[h] < retryAt[tenant[h]]]_vars
=============================================================================
