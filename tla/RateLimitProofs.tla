-------------------------- MODULE RateLimitProofs --------------------------
(***************************************************************************)
(* Proofs about RateLimit, for every policy, lag and number of threads.    *)
(*                                                                         *)
(* The requests granted to a tenant are those dropped from its bucket      *)
(* followed by those still in it.  The former are older than the window,   *)
(* the latter are recorded with the time they were granted, less the lag:  *)
(* that is what GrantsTracked adds to the properties.                      *)
(***************************************************************************)
EXTENDS RateLimit, SequenceTheorems, TLAPS

\* How many of the grants of t have left the bucket.
Dropped(t) == Len(granted[t]) - Len(bucket[t])

GrantsTracked ==
    \A t \in Tenants :
        /\ Dropped(t) \in Nat
        /\ \A i \in 1 .. Dropped(t) : granted[t][i] + Window(t) < clock + Lag
        /\ \A j \in 1 .. Len(bucket[t]) :
              granted[t][Dropped(t) + j] <= bucket[t][j] + Lag

\* A client is told to come back when the oldest entry has expired.
RetryTracked ==
    \A t \in Tenants : retryAt[t] < Never =>
        /\ bucket[t] # <<>>
        /\ bucket[t][1] + Window(t) < retryAt[t]

IInv == TypeOK /\ GrantsTracked /\ WindowLimit /\ RetryTracked

-----------------------------------------------------------------------------
\* Rounding a time up to whole seconds, and one second more at a boundary,
\* passes it.
LEMMA RoundedUp ==
    ASSUME NEW a \in Nat, NEW b \in Nat \ {0}
    PROVE  a \div b \in Nat /\ a < (a \div b + 1) * b
<1>1. /\ a \div b \in Int /\ a % b \in 0 .. b - 1
      /\ a = b * (a \div b) + (a % b)
  BY Z3
<1>2. (a \div b + 1) * b = b * (a \div b) + b
  BY <1>1
<1>3. a \div b >= 0
  BY Z3
<1> QED BY <1>1, <1>2, <1>3

LEMMA WindowNat ==
    ASSUME NEW t \in Tenants
    PROVE  Window(t) \in Nat /\ MaxRequests[t] \in Nat \ {0}
BY PoliciesArePositive, TicksAreNatural DEF Window

\* The delay a denied client is told reaches past the oldest entry's window.
LEMMA RetryReaches ==
    ASSUME NEW t \in Tenants, NEW oldest \in Nat, NEW time \in Nat,
           time <= oldest + Window(t)
    PROVE  /\ RetrySeconds(t, oldest, time) * TicksPerSecond \in Nat
           /\ oldest + Window(t)
                < time + RetrySeconds(t, oldest, time) * TicksPerSecond
<1> DEFINE a == oldest + Window(t) - time
           s == a \div TicksPerSecond + 1
<1>1. a \in Nat
  BY WindowNat
<1>2. TicksPerSecond \in Nat \ {0}
  BY TicksAreNatural
<1>3. s \in Nat /\ a < s * TicksPerSecond /\ s >= 1
  BY <1>1, <1>2, RoundedUp
<1>4. RetrySeconds(t, oldest, time) = s
  BY <1>3 DEF RetrySeconds
<1>5. s * TicksPerSecond \in Nat
  BY <1>2, <1>3
<1> HIDE DEF s
<1> QED BY <1>1, <1>3, <1>4, <1>5, WindowNat

\* What a bucket holds after dropping n entries and appending one.
LEMMA DropAppend ==
    ASSUME NEW S, NEW q \in Seq(S), NEW n \in 0 .. Len(q), NEW x \in S
    PROVE  LET r == Append(SubSeq(q, n + 1, Len(q)), x) IN
           /\ r \in Seq(S)
           /\ Len(r) = Len(q) - n + 1
           /\ \A j \in 1 .. Len(q) - n : r[j] = q[n + j]
           /\ r[Len(q) - n + 1] = x
<1> DEFINE p == SubSeq(q, n + 1, Len(q))
<1>1. \A i \in n + 1 .. Len(q) : q[i] \in S
  BY ElementOfSeq
<1>2. Len(q) \in Nat
  BY LenProperties
<1>3. /\ p \in Seq(S)
      /\ Len(p) = IF n + 1 <= Len(q) THEN Len(q) - (n + 1) + 1 ELSE 0
      /\ \A i \in 1 .. Len(q) - (n + 1) + 1 : p[i] = q[n + 1 + i - 1]
  BY <1>1, <1>2, SubSeqProperties
<1>4. Len(p) = Len(q) - n /\ \A j \in 1 .. Len(q) - n : p[j] = q[n + j]
  BY <1>2, <1>3
<1> HIDE DEF p
<1>5. /\ Append(p, x) \in Seq(S)
      /\ Len(Append(p, x)) = Len(p) + 1
      /\ \A i \in 1 .. Len(p) : Append(p, x)[i] = p[i]
      /\ Append(p, x)[Len(p) + 1] = x
  BY <1>3, AppendProperties
<1> QED BY <1>2, <1>4, <1>5 DEF p
-----------------------------------------------------------------------------
\* Everything the properties speak of starts empty.
LEMMA InitEstablishes == Init => IInv
<1> SUFFICES ASSUME Init PROVE IInv
  OBVIOUS
<1>1. TypeOK
  BY PoliciesArePositive, TicksAreNatural, EmptySeq DEF Init, TypeOK, Times, Never
<1>2. \A t \in Tenants : Len(granted[t]) = 0 /\ Len(bucket[t]) = 0
  BY EmptySeq DEF Init
<1>3. GrantsTracked
  <2> SUFFICES ASSUME NEW t \in Tenants
               PROVE  /\ Dropped(t) \in Nat
                      /\ 1 .. Dropped(t) = {} /\ 1 .. Len(bucket[t]) = {}
    BY DEF GrantsTracked
  <2>1. Len(granted[t]) = 0 /\ Len(bucket[t]) = 0
    BY <1>2
  <2>2. Dropped(t) = 0
    BY <2>1 DEF Dropped
  <2> QED BY <2>1, <2>2
<1>4. WindowLimit
  BY <1>2 DEF WindowLimit
<1>5. RetryTracked
  BY TicksAreNatural DEF Init, RetryTracked, Never
<1> QED BY <1>1, <1>3, <1>4, <1>5 DEF IInv

\* The bucket of one tenant, and what was granted to it, in a form the steps use.
LEMMA TenantFacts ==
    ASSUME IInv, NEW t \in Tenants
    PROVE  /\ bucket[t] \in Seq(Times) /\ granted[t] \in Seq(Times)
           /\ Len(bucket[t]) \in Nat /\ Len(granted[t]) \in Nat
           /\ Len(bucket[t]) <= MaxRequests[t]
           /\ Dropped(t) \in Nat
           /\ \A i \in 1 .. Len(bucket[t]) : bucket[t][i] \in Times
           /\ \A i \in 1 .. Len(granted[t]) : granted[t][i] \in Times
<1>1. bucket[t] \in Seq(Times) /\ granted[t] \in Seq(Times)
  BY DEF IInv, TypeOK
<1>2. Len(bucket[t]) \in Nat /\ Len(granted[t]) \in Nat
  BY <1>1, LenProperties
<1>3. /\ \A i \in 1 .. Len(bucket[t]) : bucket[t][i] \in Times
      /\ \A i \in 1 .. Len(granted[t]) : granted[t][i] \in Times
  BY <1>1, ElementOfSeq
<1>4. Len(bucket[t]) <= MaxRequests[t] /\ Dropped(t) \in Nat
  BY DEF IInv, TypeOK, GrantsTracked
<1> QED BY <1>1, <1>2, <1>3, <1>4

\* A bucket is full only when nothing was dropped from it.
LEMMA FullMeansKept ==
    ASSUME IInv, NEW t \in Tenants, NEW n \in 0 .. Len(bucket[t]),
           Full(t, Len(bucket[t]) - n)
    PROVE  n = 0 /\ bucket[t] # <<>> /\ Len(bucket[t]) = MaxRequests[t]
<1>1. Len(bucket[t]) \in Nat /\ Len(bucket[t]) <= MaxRequests[t]
  BY TenantFacts
<1>2. n = 0 /\ Len(bucket[t]) = MaxRequests[t]
  BY <1>1, WindowNat DEF Full
<1>3. Len(bucket[t]) # 0
  BY <1>2, WindowNat
<1> QED BY <1>2, <1>3, EmptySeq

\* A grant at a, stamped b at most lag earlier, has left a window w at time c.
LEMMA HeldUp ==
    ASSUME NEW a \in Nat, NEW b \in Nat, NEW c \in Nat, NEW d \in Nat,
           NEW lag \in Nat, NEW w \in Nat,
           a <= b + lag, b + w < c, c <= d
    PROVE  a + w < d + lag
OBVIOUS

-----------------------------------------------------------------------------
\* A grant is recorded at the end of a bucket with room for it.
LEMMA AllowPreserves ==
    ASSUME IInv, NEW h \in Threads, Allow(h)
    PROVE  IInv'
<1>0. PICK t \in Tenants : t = tenant[h]
  BY DEF IInv, TypeOK
<1> DEFINE b == bucket[t]
           g == granted[t]
<1>1. now[h] \in Times /\ clock \in Times /\ Lag \in Nat
  BY TicksAreNatural DEF IInv, TypeOK
<1>2. pc[h] = "lock" /\ now[h] <= clock /\ clock <= now[h] + Lag
  BY DEF Allow, IInv, TypeOK
<1>3. PICK n \in 0 .. Len(b) :
          /\ Drops(t, now[h], n)
          /\ ~ Full(t, Len(b) - n)
          /\ bucket' = [bucket EXCEPT ![t] =
                           Append(SubSeq(@, n + 1, Len(@)), now[h])]
  BY <1>0 DEF Allow
<1>4. /\ granted' = [granted EXCEPT ![t] = Append(@, clock)]
      /\ retryAt' = [retryAt EXCEPT ![t] = Never]
      /\ pc' = [pc EXCEPT ![h] = "idle"]
      /\ clock' = clock /\ tenant' = tenant /\ now' = now
  BY <1>0 DEF Allow
<1>5. /\ b \in Seq(Times) /\ g \in Seq(Times)
      /\ Len(b) \in Nat /\ Len(g) \in Nat /\ Dropped(t) \in Nat
      /\ Dropped(t) = Len(g) - Len(b)
      /\ \A i \in 1 .. Len(b) : b[i] \in Times
      /\ \A i \in 1 .. Len(g) : g[i] \in Times
  BY <1>1, TenantFacts DEF Dropped
<1>6. Window(t) \in Nat /\ MaxRequests[t] \in Nat \ {0}
  BY <1>1, WindowNat
<1>7. /\ \A i \in 1 .. Dropped(t) : g[i] + Window(t) < clock + Lag
      /\ \A j \in 1 .. Len(b) : g[Dropped(t) + j] <= b[j] + Lag
  BY <1>1 DEF IInv, GrantsTracked
<1>8. bucket \in [Tenants -> Seq(Times)] /\ granted \in [Tenants -> Seq(Times)]
      /\ retryAt \in [Tenants -> Nat] /\ pc \in [Threads -> {"idle", "read", "lock"}]
  BY DEF IInv, TypeOK
<1>9. /\ bucket'[t] \in Seq(Times)
      /\ Len(bucket'[t]) = Len(b) - n + 1
      /\ \A j \in 1 .. Len(b) - n : bucket'[t][j] = b[n + j]
      /\ bucket'[t][Len(b) - n + 1] = now[h]
  <2>1. bucket'[t] = Append(SubSeq(b, n + 1, Len(b)), now[h])
    BY <1>1, <1>3, <1>8
  <2> HIDE DEF b
  <2> QED BY <1>1, <1>5, <2>1, DropAppend
<1>10. /\ granted'[t] \in Seq(Times)
       /\ Len(granted'[t]) = Len(g) + 1
       /\ \A i \in 1 .. Len(g) : granted'[t][i] = g[i]
       /\ granted'[t][Len(g) + 1] = clock
  <2>1. granted'[t] = Append(g, clock)
    BY <1>1, <1>4, <1>8
  <2> HIDE DEF g
  <2> QED BY <1>1, <1>5, <2>1, AppendProperties
<1>11. /\ \A u \in Tenants \ {t} : bucket'[u] = bucket[u] /\ granted'[u] = granted[u]
                                    /\ retryAt'[u] = retryAt[u]
       /\ retryAt'[t] = Never
       /\ \A k \in Threads : pc'[k] = "lock" => pc[k] = "lock"
  BY <1>1, <1>3, <1>4, <1>8
<1>12. Len(b) - n < MaxRequests[t]
  BY <1>3, <1>5, <1>6 DEF Full
<1>13. \A i \in 1 .. n : b[i] + Window(t) < now[h]
  BY <1>3 DEF Drops, Expired
<1>14. n \in Nat /\ n <= Len(b)
  BY <1>3, <1>5
<1>15. Dropped(t)' = Dropped(t) + n /\ Dropped(t)' \in Nat
  <2>1. Dropped(t)' = Len(granted'[t]) - Len(bucket'[t])
    BY DEF Dropped
  <2>2. Dropped(t)' = (Len(g) + 1) - (Len(b) - n + 1)
    BY <1>9, <1>10, <2>1
  <2> HIDE DEF b, g
  <2> QED BY <1>14, <1>5, <2>2
<1> HIDE DEF b, g
<1>16. \A i \in 1 .. Dropped(t) + n : g[i] + Window(t) < clock + Lag
  <2> SUFFICES ASSUME NEW i \in 1 .. Dropped(t) + n
               PROVE  g[i] + Window(t) < clock + Lag
    OBVIOUS
  <2>1. CASE i <= Dropped(t)
    BY <1>5, <1>7, <2>1
  <2>2. CASE i > Dropped(t)
    <3> DEFINE j == i - Dropped(t)
    <3>1. j \in 1 .. n /\ j \in 1 .. Len(b) /\ Dropped(t) + j = i /\ i \in 1 .. Len(g)
      BY <1>14, <1>5, <2>2
    <3>2. g[i] <= b[j] + Lag /\ b[j] + Window(t) < now[h]
      BY <1>7, <1>13, <3>1
    <3>3. g[i] \in Times /\ b[j] \in Times
      BY <1>5, <3>1
    <3>4. g[i] \in Nat /\ b[j] \in Nat /\ now[h] \in Nat /\ clock \in Nat
      BY <1>1, <3>3, TicksAreNatural DEF Times
    <3>5. now[h] <= clock /\ Lag \in Nat /\ Window(t) \in Nat
      BY <1>1, <1>2, <1>6
    <3> HIDE DEF j
    <3> QED BY <3>2, <3>4, <3>5, HeldUp
  <2> QED BY <1>5, <2>1, <2>2
<1>17. TypeOK'
  <2>1. bucket' \in [Tenants -> Seq(Times)] /\ granted' \in [Tenants -> Seq(Times)]
    BY <1>3, <1>4, <1>8, <1>9, <1>10, <1>11
  <2>2. \A u \in Tenants : Len(bucket'[u]) <= MaxRequests[u]
    <3> SUFFICES ASSUME NEW u \in Tenants PROVE Len(bucket'[u]) <= MaxRequests[u]
      OBVIOUS
    <3>1. CASE u = t
      BY <1>14, <1>5, <1>6, <1>9, <1>12, <3>1
    <3>2. CASE u # t
      BY <1>11, <3>2 DEF IInv, TypeOK
    <3> QED BY <3>1, <3>2
  <2>3. Never \in Nat
    BY TicksAreNatural DEF Never
  <2>4. retryAt' \in [Tenants -> Nat] /\ pc' \in [Threads -> {"idle", "read", "lock"}]
    BY <1>4, <1>8, <2>3
  <2> QED BY <1>4, <1>11, <2>1, <2>2, <2>4 DEF IInv, TypeOK
<1>18. GrantsTracked'
  <2> SUFFICES ASSUME NEW u \in Tenants
               PROVE  /\ Dropped(u)' \in Nat
                      /\ \A i \in 1 .. Dropped(u)' :
                            granted'[u][i] + Window(u) < clock' + Lag
                      /\ \A j \in 1 .. Len(bucket'[u]) :
                            granted'[u][Dropped(u)' + j] <= bucket'[u][j] + Lag
    BY DEF GrantsTracked
  <2>1. CASE u # t
    <3>1. Dropped(u)' = Dropped(u)
      BY <1>11, <2>1 DEF Dropped
    <3> QED BY <1>4, <1>11, <2>1, <3>1 DEF IInv, GrantsTracked
  <2>2. CASE u = t
    <3>1. \A i \in 1 .. Dropped(t)' : granted'[t][i] + Window(t) < clock' + Lag
      <4> SUFFICES ASSUME NEW i \in 1 .. Dropped(t) + n
                   PROVE  granted'[t][i] + Window(t) < clock' + Lag
        BY <1>15
      <4>1. i \in 1 .. Len(g)
        BY <1>14, <1>5
      <4> QED BY <1>4, <1>10, <1>16, <4>1
    <3>2. \A j \in 1 .. Len(bucket'[t]) :
              granted'[t][Dropped(t)' + j] <= bucket'[t][j] + Lag
      <4> SUFFICES ASSUME NEW j \in 1 .. Len(b) - n + 1
                   PROVE  granted'[t][Dropped(t) + n + j] <= bucket'[t][j] + Lag
        BY <1>9, <1>15
      <4>1. CASE j <= Len(b) - n
        <5>1. /\ n + j \in 1 .. Len(b) /\ Dropped(t) + n + j \in 1 .. Len(g)
              /\ j \in 1 .. Len(b) - n
              /\ Dropped(t) + n + j = Dropped(t) + (n + j)
          BY <1>14, <1>5, <4>1
        <5>2. g[Dropped(t) + (n + j)] <= b[n + j] + Lag
          BY <1>7, <5>1
        <5> QED BY <1>9, <1>10, <5>1, <5>2
      <4>2. CASE j = Len(b) - n + 1
        <5>1. Dropped(t) + n + j = Len(g) + 1
          BY <1>14, <1>5, <4>2
        <5> QED BY <1>2, <1>9, <1>10, <4>2, <5>1
      <4> QED BY <1>14, <1>5, <4>1, <4>2
    <3> QED BY <1>15, <2>2, <3>1, <3>2
  <2> QED BY <2>1, <2>2
<1>19. WindowLimit'
  <2> SUFFICES ASSUME NEW u \in Tenants, NEW i \in 1 .. Len(granted'[u]),
                      i + MaxRequests[u] <= Len(granted'[u])
               PROVE  granted'[u][i + MaxRequests[u]] + Lag
                          > granted'[u][i] + Window(u)
    BY DEF WindowLimit
  <2>1. CASE u # t
    BY <1>11, <2>1 DEF IInv, WindowLimit
  <2>2. CASE u = t /\ i + MaxRequests[t] <= Len(g)
    <3>1. i \in 1 .. Len(g) /\ i + MaxRequests[t] \in 1 .. Len(g)
      BY <1>5, <1>6, <1>10, <2>2
    <3>2. g[i + MaxRequests[t]] + Lag > g[i] + Window(t)
      BY <2>2, <3>1 DEF IInv, WindowLimit, g
    <3> QED BY <1>10, <2>2, <3>1, <3>2
  <2>3. CASE u = t /\ ~ (i + MaxRequests[t] <= Len(g))
    <3>0. i \in 1 .. Len(g) + 1 /\ i + MaxRequests[t] <= Len(g) + 1
      BY <1>10, <2>3
    <3>1. i + MaxRequests[t] = Len(g) + 1
      BY <1>5, <1>6, <2>3, <3>0
    <3>2. i \in 1 .. Dropped(t) + n /\ i \in 1 .. Len(g)
      BY <1>14, <1>5, <1>6, <1>12, <3>1
    <3>3. g[i] + Window(t) < clock + Lag
      BY <1>16, <3>2
    <3>4. g[i] \in Nat /\ clock \in Nat
      BY <1>1, <1>5, <3>2, TicksAreNatural DEF Times
    <3>5. granted'[u][i + MaxRequests[u]] = clock /\ granted'[u][i] = g[i]
      BY <1>10, <2>3, <3>1, <3>2
    <3> QED BY <1>1, <1>6, <2>3, <3>3, <3>4, <3>5
  <2> QED BY <2>1, <2>2, <2>3
<1>20. RetryTracked'
  <2> SUFFICES ASSUME NEW u \in Tenants, retryAt'[u] < Never
               PROVE  bucket'[u] # <<>> /\ bucket'[u][1] + Window(u) < retryAt'[u]
    BY DEF RetryTracked
  <2>1. u # t
    BY <1>11, TicksAreNatural DEF Never
  <2> QED BY <1>11, <2>1 DEF IInv, RetryTracked
<1> QED BY <1>17, <1>18, <1>19, <1>20 DEF IInv

\* A denial leaves the bucket as it is, and tells the client to come back after
\* its oldest entry has expired.
LEMMA DenyPreserves ==
    ASSUME IInv, NEW h \in Threads, Deny(h)
    PROVE  IInv' /\ now[h] < retryAt[tenant[h]]
<1>0. PICK t \in Tenants : t = tenant[h]
  BY DEF IInv, TypeOK
<1> DEFINE b == bucket[t]
<1>1. now[h] \in Nat /\ now[h] < Never /\ Never \in Nat
  BY TicksAreNatural DEF IInv, TypeOK, Times, Never
<1>2. PICK n \in 0 .. Len(b) :
          /\ Drops(t, now[h], n)
          /\ Full(t, Len(b) - n)
          /\ bucket' = [bucket EXCEPT ![t] = SubSeq(@, n + 1, Len(@))]
          /\ retryAt' = [retryAt EXCEPT ![t] =
                LET told == now[h]
                        + RetrySeconds(t, b[n + 1], now[h]) * TicksPerSecond
                IN  IF told < @ THEN told ELSE @]
  BY <1>0 DEF Deny
<1>3. /\ pc' = [pc EXCEPT ![h] = "idle"]
      /\ clock' = clock /\ tenant' = tenant /\ now' = now /\ granted' = granted
  BY DEF Deny
<1>4. n = 0 /\ b # <<>> /\ Len(b) = MaxRequests[t]
  BY <1>2, FullMeansKept
<1>5. /\ bucket \in [Tenants -> Seq(Times)] /\ b \in Seq(Times)
      /\ retryAt \in [Tenants -> Nat] /\ pc \in [Threads -> {"idle", "read", "lock"}]
  BY DEF IInv, TypeOK
<1>6. bucket' = bucket
  <2>1. SubSeq(b, 1, Len(b)) = b
    BY <1>5, SubSeqFull
  <2> QED BY <1>2, <1>4, <1>5, <2>1
<1>7. /\ Window(t) \in Nat
      /\ b[1] \in Nat
      /\ now[h] <= b[1] + Window(t)
  <2>1. 1 \in 1 .. Len(b)
    BY <1>4, WindowNat
  <2>2. b[1] \in Times
    BY <1>5, <2>1, ElementOfSeq
  <2>3. b[1] \in Nat
    BY <2>2, TicksAreNatural DEF Times
  <2>4. ~ Expired(t, b[1], now[h])
    BY <1>2, <1>4, <2>1 DEF Drops
  <2> QED BY <1>1, <2>3, <2>4, WindowNat DEF Expired
<1> DEFINE told == now[h] + RetrySeconds(t, b[1], now[h]) * TicksPerSecond
<1>8. told \in Nat /\ b[1] + Window(t) < told
  <2> DEFINE oldest == b[1]
             wait == RetrySeconds(t, oldest, now[h]) * TicksPerSecond
  <2>1. oldest \in Nat /\ now[h] \in Nat /\ now[h] <= oldest + Window(t)
    BY <1>1, <1>7
  <2> HIDE DEF oldest
  <2>2. wait \in Nat /\ oldest + Window(t) < now[h] + wait
    BY <2>1, RetryReaches
  <2>3. told = now[h] + wait
    BY DEF oldest
  <2> HIDE DEF wait, told
  <2>4. told \in Nat /\ oldest + Window(t) < told
    BY <2>1, <2>2, <2>3
  <2> QED BY <2>4 DEF oldest
<1>9. retryAt' = [retryAt EXCEPT ![t] = IF told < @ THEN told ELSE @]
  BY <1>2, <1>4
<1> HIDE DEF told, b
<1>10. TypeOK'
  <2>1. retryAt' \in [Tenants -> Nat] /\ pc' \in [Threads -> {"idle", "read", "lock"}]
    BY <1>3, <1>5, <1>8, <1>9
  <2>2. \A k \in Threads : pc'[k] = "lock" => pc[k] = "lock"
    BY <1>3, <1>5
  <2> QED BY <1>3, <1>6, <2>1, <2>2 DEF IInv, TypeOK
<1>11. GrantsTracked' /\ WindowLimit'
  BY <1>3, <1>6 DEF IInv, GrantsTracked, Dropped, WindowLimit
<1>12. RetryTracked'
  <2> SUFFICES ASSUME NEW u \in Tenants, retryAt'[u] < Never
               PROVE  bucket[u] # <<>> /\ bucket[u][1] + Window(u) < retryAt'[u]
    BY <1>6 DEF RetryTracked
  <2>1. CASE retryAt'[u] = retryAt[u]
    BY <2>1 DEF IInv, RetryTracked
  <2>2. CASE retryAt'[u] # retryAt[u]
    <3>1. u = t /\ retryAt'[u] = told
      BY <1>5, <1>9, <2>2
    <3> QED BY <1>4, <1>8, <3>1 DEF b
  <2> QED BY <2>1, <2>2
<1>13. now[h] < retryAt[t]
  <2>1. CASE retryAt[t] < Never
    <3>1. b[1] + Window(t) < retryAt[t]
      BY <2>1 DEF IInv, RetryTracked, b
    <3> QED BY <1>1, <1>5, <1>7, <3>1
  <2>2. CASE ~ (retryAt[t] < Never)
    BY <1>1, <1>5, <2>2
  <2> QED BY <2>1, <2>2
<1> QED BY <1>0, <1>10, <1>11, <1>12, <1>13 DEF IInv

-----------------------------------------------------------------------------
\* Arriving and reading the clock disturb the threads only.
LEMMA ThreadPreserves ==
    ASSUME IInv, NEW h \in Threads, NEW t \in Tenants, Arrive(h, t) \/ ReadClock(h)
    PROVE  IInv'
<1>1. /\ clock' = clock /\ bucket' = bucket /\ granted' = granted
      /\ retryAt' = retryAt
  BY DEF Arrive, ReadClock
<1>2. TypeOK'
  <2>1. CASE Arrive(h, t)
    BY <2>1 DEF IInv, TypeOK, Arrive
  <2>2. CASE ReadClock(h)
    <3>1. clock \in Nat /\ clock <= clock + Lag
      BY TicksAreNatural DEF IInv, TypeOK, Times
    <3>2. /\ pc' \in [Threads -> {"idle", "read", "lock"}]
          /\ now' \in [Threads -> Times] /\ tenant' = tenant
      BY <2>2 DEF ReadClock, IInv, TypeOK
    <3>3. \A k \in Threads : pc'[k] = "lock" => now'[k] <= clock /\ clock <= now'[k] + Lag
      BY <2>2, <3>1 DEF ReadClock, IInv, TypeOK
    <3> QED BY <1>1, <3>2, <3>3 DEF IInv, TypeOK
  <2> QED BY <2>1, <2>2
<1>3. GrantsTracked' /\ WindowLimit' /\ RetryTracked'
  BY <1>1 DEF IInv, GrantsTracked, Dropped, WindowLimit, RetryTracked
<1> QED BY <1>2, <1>3 DEF IInv

\* Time passes: what has left the window stays out of it.
LEMMA TickPreserves ==
    ASSUME IInv, Tick
    PROVE  IInv'
<1>1. /\ clock \in Nat /\ clock < MaxTime /\ clock' = clock + 1 /\ clock' \in Times
      /\ bucket' = bucket /\ granted' = granted /\ retryAt' = retryAt
      /\ pc' = pc /\ tenant' = tenant /\ now' = now
  BY TicksAreNatural DEF Tick, IInv, TypeOK, Times
<1>2. TypeOK'
  <2> SUFFICES ASSUME NEW h \in Threads, pc[h] = "lock"
               PROVE  now[h] <= clock' /\ clock' <= now[h] + Lag
    BY <1>1 DEF IInv, TypeOK
  <2>1. now[h] \in Nat /\ now[h] <= clock /\ clock < now[h] + Lag
    BY TicksAreNatural DEF Tick, IInv, TypeOK, Times
  <2> QED BY <1>1, <2>1, TicksAreNatural
<1>3. GrantsTracked'
  <2> SUFFICES ASSUME NEW t \in Tenants, NEW i \in 1 .. Dropped(t)
               PROVE  granted[t][i] + Window(t) < clock' + Lag
    BY <1>1 DEF IInv, GrantsTracked, Dropped
  <2>1. granted[t][i] + Window(t) < clock + Lag
    BY DEF IInv, GrantsTracked
  <2>2. i \in 1 .. Len(granted[t])
    <3>1. Len(bucket[t]) \in Nat /\ Len(granted[t]) \in Nat
      BY TenantFacts
    <3>2. i \in 1 .. Len(granted[t]) - Len(bucket[t])
      BY DEF Dropped
    <3> QED BY <3>1, <3>2
  <2>3. granted[t][i] \in Times
    BY <2>2, TenantFacts
  <2>4. granted[t][i] \in Nat
    BY <2>3, TicksAreNatural DEF Times
  <2> QED BY <1>1, <2>1, <2>4, WindowNat, TicksAreNatural
<1>4. WindowLimit' /\ RetryTracked'
  BY <1>1 DEF IInv, WindowLimit, RetryTracked
<1> QED BY <1>2, <1>3, <1>4 DEF IInv

LEMMA StepPreserves == IInv /\ [Next]_vars => IInv'
<1> SUFFICES ASSUME IInv, [Next]_vars PROVE IInv'
  OBVIOUS
<1>1. ASSUME NEW h \in Threads, Allow(h) PROVE IInv'
  BY <1>1, AllowPreserves
<1>2. ASSUME NEW h \in Threads, Deny(h) PROVE IInv'
  BY <1>2, DenyPreserves
<1>3. ASSUME NEW h \in Threads, NEW t \in Tenants, Arrive(h, t) PROVE IInv'
  BY <1>3, ThreadPreserves
<1>4. ASSUME NEW h \in Threads, ReadClock(h) PROVE IInv'
  <2>1. tenant[h] \in Tenants
    BY DEF IInv, TypeOK
  <2> QED BY <1>4, <2>1, ThreadPreserves
<1>5. CASE Tick
  BY <1>5, TickPreserves
<1>6. CASE UNCHANGED vars
  BY <1>6 DEF vars, IInv, TypeOK, GrantsTracked, Dropped, WindowLimit, RetryTracked
<1> QED BY <1>1, <1>2, <1>3, <1>4, <1>5, <1>6 DEF Next

-----------------------------------------------------------------------------
(* Theorems.                                                               *)

\* The bookkeeping of buckets and grants holds throughout check_and_record.
THEOREM Invariance == Spec => []IInv
BY InitEstablishes, StepPreserves, PTL DEF Spec

\* The state of the limiter has its type; no bucket outgrows max_requests.
THEOREM TypeCorrect == Spec => []TypeOK
<1>1. IInv => TypeOK
  BY DEF IInv
<1> QED BY <1>1, Invariance, PTL

\* max_requests + 1 grants never fall into one window less the lag, whatever
\* the policies, the number of threads and the order they take the lock in.
THEOREM LimitHolds == Spec => []WindowLimit
<1>1. IInv => WindowLimit
  BY DEF IInv
<1> QED BY <1>1, Invariance, PTL

\* Retry-After is kept: a client that waited as told is not denied again
\* unless another request took the place.
THEOREM RetryHonoured == Spec => RetryIsHonoured
<1>1. IInv /\ [Next]_vars
        => [\A h \in Threads : Deny(h) => now[h] < retryAt[tenant[h]]]_vars
  BY DenyPreserves
<1> QED BY <1>1, Invariance, PTL DEF Spec, RetryIsHonoured
=============================================================================
