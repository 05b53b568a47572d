------------------------- MODULE RateLimiterProofs -------------------------
(***************************************************************************)
(* Theorems about RateLimiter, for any threads, keys, limit and length of  *)
(* the minute, and a bucket that lives for at least two minutes.           *)
(***************************************************************************)
EXTENDS RateLimiter, TLAPS

\* Division by a parameter, in the form the solver can use.
LEMMA Division ==
    ASSUME NEW n \in Nat, NEW d \in Nat \ {0}
    PROVE  /\ n \div d \in Nat /\ n % d \in Nat /\ n % d < d
           /\ n = d * (n \div d) + (n % d)
  BY SMT

\* A quotient is at least every multiple that fits.
LEMMA Quotient ==
    ASSUME NEW n \in Nat, NEW d \in Nat \ {0}, NEW q \in Nat, q * d <= n
    PROVE  q <= n \div d
<1> DEFINE k == n \div d
           r == n % d
<1>1. k \in Nat /\ r \in Nat /\ r < d /\ n = d * k + r
  BY Division
<1>2. SUFFICES ASSUME k < q PROVE FALSE
  BY <1>1
<1> HIDE DEF k, r
<1>3. (k + 1) * d <= q * d
  BY <1>1, <1>2, SMT
<1>4. (k + 1) * d = d * k + d
  BY <1>1, SMT
<1> QED
  BY <1>1, <1>3, <1>4, SMT

\* A minute has ticks, and a bucket lives for two of them.
LEMMA Lengths ==
    /\ Minute \in Nat \ {0} /\ Ttl \in Nat \ {0} /\ 2 * Minute <= Ttl
<1>1. Minute \in Nat \ {0} /\ Ttl \in Nat
  BY LimiterAssumption, SMT DEF Minute, Ttl
<1>2. (2 * MinuteSec) * TicksPerSec <= TtlSec * TicksPerSec
  BY LimiterAssumption, SMT
<1> QED
  BY <1>1, <1>2, LimiterAssumption, SMT DEF Minute, Ttl

\* A window contains the moments that fall into it.
LEMMA WindowProperties ==
    ASSUME NEW t \in Nat
    PROVE  /\ WindowOf(t) \in Nat
           /\ WindowOf(t) * Minute <= t
           /\ t <= MaxTime => WindowOf(t) \in Windows
           /\ \A u \in Nat : t <= u => WindowOf(t) <= WindowOf(u)
<1> DEFINE w == WindowOf(t)
<1>1. w \in Nat /\ w * Minute <= t
  BY Division, Lengths, SMT DEF WindowOf
<1>2. ASSUME NEW u \in Nat, t <= u PROVE w <= u \div Minute
  <2>1. w * Minute <= u
    BY <1>1, <1>2, Lengths, SMT
  <2> QED
    BY <1>1, <2>1, Quotient, Lengths
<1>3. MaxTime \in Nat /\ MaxTime \div Minute \in Nat
  BY Division, Lengths, LimiterAssumption
<1>4. t <= MaxTime => WindowOf(t) \in Windows
  BY <1>1, <1>2, <1>3, SMT DEF Windows
<1> QED
  BY <1>1, <1>2, <1>4 DEF WindowOf

\* The seconds to the reset, cut to whole ones, still reach the next window.
LEMMA ResetReachesNextWindow ==
    ASSUME NEW t \in Nat
    PROVE  WindowOf(t + ResetIn(t) * TicksPerSec) > WindowOf(t)
<1> DEFINE w == t \div Minute
           r == t % Minute
           s == r \div TicksPerSec
           f == r % TicksPerSec
<1>1. w \in Nat /\ r \in Nat /\ r < Minute /\ t = Minute * w + r
  BY Division, Lengths
<1>2. s \in Nat /\ f \in Nat /\ r = TicksPerSec * s + f
  BY <1>1, Division, LimiterAssumption
<1>3. ResetIn(t) = MinuteSec - s
  BY DEF ResetIn
<1> HIDE DEF w, r, s, f
<1>4. (MinuteSec - s) * TicksPerSec = Minute - TicksPerSec * s
  BY <1>2, LimiterAssumption, SMT DEF Minute
<1>5. /\ t + (MinuteSec - s) * TicksPerSec \in Nat
      /\ Minute * w + Minute <= t + (MinuteSec - s) * TicksPerSec
  <2>1. TicksPerSec * s \in Nat /\ TicksPerSec * s <= r
    BY <1>2, LimiterAssumption, SMT
  <2>2. Minute * w \in Nat
    BY <1>1, Lengths, SMT
  <2> QED
    BY <1>1, <1>4, <2>1, <2>2, Lengths, SMT
<1>6. (w + 1) * Minute = Minute * w + Minute
  BY <1>1, Lengths, SMT
<1>7. w + 1 <= (t + (MinuteSec - s) * TicksPerSec) \div Minute
  BY <1>1, <1>5, <1>6, Quotient, Lengths
<1>8. w = WindowOf(t)
  BY DEF WindowOf, w
<1>9. (t + (MinuteSec - s) * TicksPerSec) \div Minute \in Nat
  BY <1>5, Division, Lengths
<1> QED
  BY <1>1, <1>3, <1>7, <1>8, <1>9, SMT DEF WindowOf

-----------------------------------------------------------------------------
(* Types *)

\* A transaction moves a counter and its expiry within their types.
LEMMA HitType ==
    ASSUME TypeOK, NEW t \in Threads, Hit(t)
    PROVE  count' \in PerWindow(Nat) /\ expiry' \in PerWindow(Nat)
<1>1. now + Ttl \in Nat
  BY Lengths, LimiterAssumption, SMT DEF TypeOK
<1>2. \A k \in Keys, w \in Windows : count[k][w] + 1 \in Nat
  BY SMT DEF TypeOK, PerWindow
<1> QED
  BY <1>1, <1>2, Zenon DEF TypeOK, PerWindow, Hit

LEMMA TypeInit == Init => TypeOK
<1> SUFFICES ASSUME Init PROVE TypeOK
  OBVIOUS
<1>1. 0 \in Windows
  BY Division, Lengths, LimiterAssumption, SMT DEF Windows
<1> QED
  BY <1>1, LimiterAssumption, SMT DEF Init, TypeOK, PerWindow

LEMMA TypeStep == TypeOK /\ [Next]_vars => TypeOK'
<1> SUFFICES ASSUME TypeOK, [Next]_vars PROVE TypeOK'
  OBVIOUS
<1>1. CASE Tick
  BY <1>1, LimiterAssumption, SMT DEF Tick, TypeOK, PerWindow, request
<1>2. ASSUME NEW t \in Threads, NEW k \in Keys, Arrive(t, k) PROVE TypeOK'
  <2>1. WindowOf(now) \in Windows
    BY WindowProperties, LimiterAssumption, SMT DEF TypeOK
  <2>2. sent + 1 \in 0..MaxRequests
    BY <1>2, LimiterAssumption, SMT DEF TypeOK, Arrive
  <2> QED
    BY <1>2, <2>1, <2>2, Zenon DEF TypeOK, Arrive, buckets, PerWindow
<1>3. ASSUME NEW t \in Threads, Count(t) PROVE TypeOK'
  <2>1. Hit(t)
    BY <1>3 DEF Count
  <2>2. Verdict(t) \in {"idle", "refusing"}
    BY DEF Verdict
  <2>3. admitted' \in PerWindow(Nat)
    BY <1>3, SMT DEF TypeOK, Count, PerWindow
  <2> QED
    BY <1>3, <2>1, <2>2, <2>3, HitType, Zenon DEF TypeOK, Count
<1>4. ASSUME NEW t \in Threads, FailOpen(t) PROVE TypeOK'
  <2>1. count' \in PerWindow(Nat) /\ expiry' \in PerWindow(Nat)
    BY <1>4, HitType, Zenon DEF FailOpen, buckets, TypeOK
  <2>2. opened' \in PerWindow(Nat)
    BY <1>4, SMT DEF TypeOK, FailOpen, PerWindow
  <2> QED
    BY <1>4, <2>1, <2>2, Zenon DEF TypeOK, FailOpen
<1>5. ASSUME NEW t \in Threads, Refuse(t) PROVE TypeOK'
  BY <1>5, Zenon DEF TypeOK, Refuse, buckets
<1>6. ASSUME NEW k \in Keys, NEW w \in Windows, Evict(k, w) PROVE TypeOK'
  <2>1. count' \in PerWindow(Nat) /\ expiry' \in PerWindow(Nat)
    BY <1>6, SMT DEF TypeOK, Evict, PerWindow
  <2>2. evicted' \subseteq Keys \X Windows
    BY <1>6, SMT DEF TypeOK, Evict
  <2> QED
    BY <1>6, <2>1, <2>2, Zenon DEF TypeOK, Evict, request
<1>7. CASE UNCHANGED vars
  BY <1>7, Zenon DEF vars, buckets, request, TypeOK
<1> QED
  BY <1>1, <1>2, <1>3, <1>4, <1>5, <1>6, <1>7 DEF Next, Check

\* The limiter's state keeps its type; in particular a request is counted in
\* a window that has begun (api/security.py:70).
THEOREM TypeCorrect == Spec => []TypeOK
<1> QED
  BY TypeInit, TypeStep, PTL DEF Spec

-----------------------------------------------------------------------------
(* Expiry *)

\* A transaction leaves a bucket alone, or counts it up and renews its expiry.
LEMMA HitBuckets ==
    ASSUME TypeOK, NEW t \in Threads, Hit(t) \/ UNCHANGED buckets,
           NEW k \in Keys, NEW w \in Windows
    PROVE  \/ count'[k][w] = count[k][w] /\ expiry'[k][w] = expiry[k][w]
           \/ /\ k = key[t] /\ w = window[t]
              /\ count'[k][w] = count[k][w] + 1 /\ expiry'[k][w] = now + Ttl
<1>1. CASE UNCHANGED buckets
  BY <1>1, Zenon DEF buckets
<1>2. CASE Hit(t)
  <2> DEFINE C(i) == [count[i] EXCEPT ![window[t]] = @ + 1]
             E(i) == [expiry[i] EXCEPT ![window[t]] = now + Ttl]
  <2>1. count' = [count EXCEPT ![key[t]] = C(key[t])] /\ expiry' = [expiry EXCEPT ![key[t]] = E(key[t])]
    BY <1>2, Zenon DEF Hit
  <2>2. /\ DOMAIN count = Keys /\ DOMAIN expiry = Keys
        /\ DOMAIN count[k] = Windows /\ DOMAIN expiry[k] = Windows
    BY Zenon DEF TypeOK, PerWindow
  <2>3. CASE k # key[t]
    <3>1. count'[k] = count[k] /\ expiry'[k] = expiry[k]
      BY <2>1, <2>2, <2>3, Zenon
    <3> QED
      BY <3>1, Zenon
  <2>4. CASE k = key[t]
    <3>1. count'[k] = C(k) /\ expiry'[k] = E(k)
      BY <2>1, <2>2, <2>4, Zenon
    <3>2. CASE w = window[t]
      BY <2>2, <2>4, <3>1, <3>2, Zenon
    <3>3. CASE w # window[t]
      BY <2>2, <3>1, <3>3, Zenon
    <3> QED
      BY <3>2, <3>3
  <2> QED
    BY <2>3, <2>4
<1> QED
  BY <1>1, <1>2

Dropped(k, w) == <<k, w>> \in evicted

\* An eviction takes one bucket, and is remembered.
LEMMA EvictBuckets ==
    ASSUME TypeOK, NEW j \in Keys, NEW v \in Windows, Evict(j, v),
           NEW k \in Keys, NEW w \in Windows
    PROVE  /\ now' = now
           /\ \/ count'[k][w] = count[k][w] /\ expiry'[k][w] = expiry[k][w]
              \/ count'[k][w] = 0 /\ Dropped(k, w)'
<1>1. CASE k = j /\ w = v
  <2>1. count'[k][w] = 0
    BY <1>1, Zenon DEF Evict, TypeOK, PerWindow
  <2>2. Dropped(k, w)'
    BY <1>1, Zenon DEF Evict, Dropped
  <2> QED
    BY <2>1, <2>2, Zenon DEF Evict
<1>2. CASE ~(k = j /\ w = v)
  <2>1. count'[k][w] = count[k][w]
    BY <1>2, SMT DEF Evict, TypeOK, PerWindow
  <2>2. expiry'[k][w] = expiry[k][w]
    BY <1>2, SMT DEF Evict, TypeOK, PerWindow
  <2> QED
    BY <2>1, <2>2, Zenon DEF Evict
<1> QED
  BY <1>1, <1>2

\* What was evicted stays known as such.
LEMMA EvictedStays ==
    ASSUME [Next]_vars, NEW k, NEW w, Dropped(k, w)
    PROVE  Dropped(k, w)'
BY Zenon DEF Dropped, Next, Check, Tick, Evict, Arrive, Count, FailOpen, Refuse, vars

\* Every step leaves a bucket alone, deletes it, or counts a request in it.
LEMMA BucketStep ==
    ASSUME TypeOK, [Next]_vars, NEW k \in Keys, NEW w \in Windows
    PROVE  \/ /\ count'[k][w] = count[k][w] /\ expiry'[k][w] = expiry[k][w]
              /\ now' = now \/ (Tick /\ now' = now + 1 /\ expiry[k][w] > now')
           \/ Tick /\ now' = now + 1 /\ count'[k][w] = 0 /\ expiry[k][w] <= now'
           \/ now' = now /\ count'[k][w] = 0 /\ Dropped(k, w)'
           \/ /\ now' = now /\ count'[k][w] = count[k][w] + 1 /\ expiry'[k][w] = now + Ttl
              /\ \E t \in Threads : pc[t] = "counting" /\ key[t] = k /\ window[t] = w
<1>1. CASE Tick
  <2>1. now \in Nat /\ now' = now + 1 /\ expiry[k][w] \in Nat
    BY <1>1, LimiterAssumption, SMT DEF Tick, TypeOK, PerWindow
  <2>2. CASE expiry[k][w] > now + 1
    BY <1>1, <2>1, <2>2, Zenon DEF Tick
  <2>3. CASE ~(expiry[k][w] > now + 1)
    <3>1. count'[k][w] = 0
      BY <1>1, <2>3, Zenon DEF Tick
    <3>2. expiry[k][w] <= now + 1
      BY <2>1, <2>3, SMT
    <3> QED
      BY <1>1, <2>1, <3>1, <3>2, Zenon
  <2> QED
    BY <2>2, <2>3
<1>2. ASSUME NEW t \in Threads, Count(t) \/ FailOpen(t)
      PROVE  \/ count'[k][w] = count[k][w] /\ expiry'[k][w] = expiry[k][w] /\ now' = now
             \/ /\ now' = now /\ count'[k][w] = count[k][w] + 1 /\ expiry'[k][w] = now + Ttl
                /\ pc[t] = "counting" /\ key[t] = k /\ window[t] = w
  <2>1. pc[t] = "counting" /\ now' = now /\ (Hit(t) \/ UNCHANGED buckets)
    <3>1. CASE Count(t)
      BY <3>1, Zenon DEF Count
    <3>2. CASE FailOpen(t)
      BY <3>2, Zenon DEF FailOpen
    <3> QED
      BY <1>2, <3>1, <3>2
  <2>2. \/ count'[k][w] = count[k][w] /\ expiry'[k][w] = expiry[k][w]
        \/ /\ k = key[t] /\ w = window[t]
           /\ count'[k][w] = count[k][w] + 1 /\ expiry'[k][w] = now + Ttl
    BY <2>1, HitBuckets
  <2> QED
    BY <2>1, <2>2, Zenon
<1>3. ASSUME NEW t \in Threads, (\E c \in Keys : Arrive(t, c)) \/ Refuse(t)
      PROVE  count' = count /\ expiry' = expiry /\ now' = now
  BY <1>3, Zenon DEF Arrive, Refuse, buckets
<1>4. ASSUME NEW j \in Keys, NEW v \in Windows, Evict(j, v)
      PROVE  /\ now' = now
             /\ \/ count'[k][w] = count[k][w] /\ expiry'[k][w] = expiry[k][w]
                \/ count'[k][w] = 0 /\ Dropped(k, w)'
  BY <1>4, EvictBuckets, Zenon
<1>5. CASE UNCHANGED vars
  BY <1>5, Zenon DEF vars, buckets
<1> QED
  BY <1>1, <1>2, <1>3, <1>4, <1>5, Zenon DEF Next, Check

\* Every bucket lapses (security.py:73-75): whatever fails, a counter that
\* exists has an expiry, at most two minutes away.
THEOREM BucketsExpire == Spec => []BucketsLapse
<1>1. Init => BucketsLapse
  BY SMT DEF Init, BucketsLapse
<1>2. TypeOK /\ BucketsLapse /\ [Next]_vars => BucketsLapse'
  <2> SUFFICES ASSUME TypeOK, BucketsLapse, [Next]_vars, NEW k \in Keys, NEW w \in Windows,
                      count'[k][w] > 0
               PROVE  expiry'[k][w] > now' /\ expiry'[k][w] <= now' + Ttl
    BY Lengths, Zenon DEF BucketsLapse, Ttl
  <2>1. /\ now \in Nat /\ count[k][w] \in Nat /\ expiry[k][w] \in Nat
        /\ count[k][w] > 0 => expiry[k][w] > now /\ expiry[k][w] <= now + Ttl
    BY LimiterAssumption, SMT DEF TypeOK, PerWindow, BucketsLapse
  <2> QED
    BY <2>1, BucketStep, Lengths, SMT
<1> QED
  BY <1>1, <1>2, TypeCorrect, PTL DEF Spec

-----------------------------------------------------------------------------
(* The limit *)

\* A request is counted in a window that has begun.
Begun == \A t \in Threads : pc[t] # "idle" => window[t] <= WindowOf(now)

LEMMA BegunStep == TypeOK /\ Begun /\ [Next]_vars => Begun'
<1> SUFFICES ASSUME TypeOK, Begun, [Next]_vars, NEW t \in Threads, pc'[t] # "idle"
             PROVE  window'[t] <= WindowOf(now')
  BY DEF Begun, WindowOf
<1>1. now \in Nat /\ WindowOf(now) \in Nat
  BY WindowProperties, LimiterAssumption, SMT DEF TypeOK
<1>2. CASE Tick
  <2>1. now' \in Nat /\ now <= now'
    BY <1>1, <1>2, SMT DEF Tick
  <2>2. WindowOf(now) <= WindowOf(now') /\ WindowOf(now') \in Nat
    BY <1>1, <2>1, WindowProperties
  <2>3. window'[t] = window[t] /\ window[t] <= WindowOf(now) /\ window[t] \in Nat
    BY <1>2, Division, Lengths, LimiterAssumption, SMT DEF Tick, request, Begun, TypeOK, Windows
  <2> QED
    BY <1>1, <2>2, <2>3, SMT
<1>3. ASSUME NEW u \in Threads, NEW k \in Keys, Arrive(u, k)
      PROVE  window'[t] <= WindowOf(now')
  <2>1. now' = now
    BY <1>3 DEF Arrive
  <2>2. CASE t = u
    <3>1. window'[t] = WindowOf(now)
      BY <1>3, <2>2, Zenon DEF Arrive, TypeOK
    <3> QED
      BY <1>1, <2>1, <3>1, SMT
  <2>3. CASE t # u
    BY <1>3, <2>1, <2>3, Zenon DEF Arrive, TypeOK, Begun
  <2> QED
    BY <2>2, <2>3
<1>4. ASSUME NEW u \in Threads, Count(u) \/ FailOpen(u) \/ Refuse(u)
      PROVE  window'[t] <= WindowOf(now')
  <2>1. now' = now /\ window' = window
    BY <1>4, Zenon DEF Count, FailOpen, Refuse
  <2>2. pc[t] # "idle"
    BY <1>4, Zenon DEF Count, FailOpen, Refuse, TypeOK
  <2> QED
    BY <2>1, <2>2, Zenon DEF Begun
<1>5. CASE \E k \in Keys, w \in Windows : Evict(k, w)
  BY <1>5, Zenon DEF Evict, request, Begun
<1>6. CASE UNCHANGED vars
  BY <1>6, Zenon DEF vars, request, Begun
<1> QED
  BY <1>2, <1>3, <1>4, <1>5, <1>6 DEF Next, Check

LEMMA BegunAlways == Spec => []Begun
<1>1. Init => Begun
  BY Zenon DEF Init, Begun
<1> QED
  BY <1>1, BegunStep, TypeCorrect, PTL DEF Spec

\* What a step does to a window: nothing more than deleting its bucket, a
\* refusal, a request let through, or a request let through uncounted.
LEMMA Verdicts ==
    ASSUME TypeOK, [Next]_vars, NEW k \in Keys, NEW w \in Windows
    PROVE  \/ /\ admitted'[k][w] = admitted[k][w] /\ opened'[k][w] = opened[k][w]
              /\ count'[k][w] \in {0, count[k][w]}
           \/ /\ admitted'[k][w] = admitted[k][w] /\ opened'[k][w] = opened[k][w]
              /\ count'[k][w] = count[k][w] + 1 /\ count'[k][w] > Limit
           \/ /\ admitted'[k][w] = admitted[k][w] + 1 /\ opened'[k][w] = opened[k][w]
              /\ count'[k][w] = count[k][w] + 1 /\ count'[k][w] <= Limit
           \/ /\ admitted'[k][w] = admitted[k][w] /\ opened'[k][w] = opened[k][w] + 1
              /\ count'[k][w] \in {count[k][w], count[k][w] + 1}
<1>1. CASE Tick
  BY <1>1, Zenon DEF Tick
<1>2. ASSUME NEW t \in Threads, Count(t), k = key[t], w = window[t]
      PROVE  /\ opened'[k][w] = opened[k][w] /\ count'[k][w] = count[k][w] + 1
             /\ \/ count'[k][w] > Limit /\ admitted'[k][w] = admitted[k][w]
                \/ count'[k][w] <= Limit /\ admitted'[k][w] = admitted[k][w] + 1
  <2>1. count'[k][w] = count[k][w] + 1
    BY <1>2, SMT DEF Count, Hit, TypeOK, PerWindow
  <2>2. count'[k][w] \in Nat /\ Limit \in Nat
    BY <2>1, LimiterAssumption, SMT DEF TypeOK, PerWindow
  <2>3. CASE count'[k][w] <= Limit
    <3>1. admitted' = [admitted EXCEPT ![key[t]][window[t]] = @ + 1]
      BY <1>2, <2>3, Zenon DEF Count, Verdict
    <3> QED
      BY <1>2, <2>1, <2>3, <3>1, SMT DEF Count, TypeOK, PerWindow
  <2>4. CASE count'[k][w] > Limit
    <3>1. admitted' = [admitted EXCEPT ![key[t]][window[t]] = @]
      <4>1. ~(count'[key[t]][window[t]] <= Limit)
        BY <1>2, <2>2, <2>4, SMT
      <4>2. Verdict(t) = "refusing"
        BY <4>1, Zenon DEF Verdict
      <4> QED
        BY <1>2, <4>2, Zenon DEF Count
    <3> QED
      BY <1>2, <2>1, <2>4, <3>1, SMT DEF Count, TypeOK, PerWindow
  <2> QED
    BY <2>2, <2>3, <2>4, SMT
<1>3. ASSUME NEW t \in Threads, Count(t), ~(k = key[t] /\ w = window[t])
      PROVE  /\ opened'[k][w] = opened[k][w] /\ count'[k][w] = count[k][w]
             /\ admitted'[k][w] = admitted[k][w]
  <2>1. count'[k][w] = count[k][w]
    BY <1>3, HitBuckets, Zenon DEF Count
  <2>2. admitted'[k][w] = admitted[k][w]
    BY <1>3, SMT DEF Count, TypeOK, PerWindow
  <2> QED
    BY <1>3, <2>1, <2>2 DEF Count
<1>4. ASSUME NEW t \in Threads, FailOpen(t)
      PROVE  /\ admitted'[k][w] = admitted[k][w]
             /\ \/ opened'[k][w] = opened[k][w] /\ count'[k][w] = count[k][w]
                \/ /\ opened'[k][w] = opened[k][w] + 1
                   /\ count'[k][w] \in {count[k][w], count[k][w] + 1}
  <2>1. /\ count'[k][w] \in {count[k][w], count[k][w] + 1}
        /\ ~(k = key[t] /\ w = window[t]) => count'[k][w] = count[k][w]
    BY <1>4, HitBuckets, Zenon DEF FailOpen
  <2>2. IF k = key[t] /\ w = window[t] THEN opened'[k][w] = opened[k][w] + 1
                                       ELSE opened'[k][w] = opened[k][w]
    BY <1>4, SMT DEF FailOpen, TypeOK, PerWindow
  <2> QED
    BY <1>4, <2>1, <2>2, Zenon DEF FailOpen
<1>5. ASSUME NEW t \in Threads, (\E c \in Keys : Arrive(t, c)) \/ Refuse(t)
      PROVE  count' = count /\ admitted' = admitted /\ opened' = opened
  BY <1>5, Zenon DEF Arrive, Refuse, buckets
<1>6. ASSUME NEW j \in Keys, NEW v \in Windows, Evict(j, v)
      PROVE  admitted' = admitted /\ opened' = opened /\ count'[k][w] \in {0, count[k][w]}
  BY <1>6, EvictBuckets, Zenon DEF Evict
<1>7. CASE UNCHANGED vars
  BY <1>7, Zenon DEF vars, buckets
<1> QED
  BY <1>1, <1>2, <1>3, <1>4, <1>5, <1>6, <1>7, Zenon DEF Next, Check

\* When the bucket of a window can have expired.
Lapse(w) == (w + 2) * Minute

\* Until its bucket is evicted or can have expired, a counter accounts for every
\* request let through in its window.
CountersHold ==
    \A k \in Keys, w \in Windows :
        /\ count[k][w] > 0 => expiry[k][w] >= Lapse(w)
        /\ now < Lapse(w) /\ ~Dropped(k, w) => admitted[k][w] <= count[k][w]

LEMMA LimitStep ==
    TypeOK /\ Begun /\ CountersHold /\ WindowLimit /\ [Next]_vars
      => CountersHold' /\ WindowLimit'
<1> SUFFICES ASSUME TypeOK, Begun, CountersHold, WindowLimit, [Next]_vars,
                    NEW k \in Keys, NEW w \in Windows
             PROVE  /\ count'[k][w] > 0 => expiry'[k][w] >= Lapse(w)
                    /\ now' < Lapse(w) /\ ~Dropped(k, w)' => admitted'[k][w] <= count'[k][w]
                    /\ admitted'[k][w] > Limit => Dropped(k, w)' \/ now' >= Lapse(w)
  BY Zenon DEF CountersHold, WindowLimit, Lapse, Minute, Dropped
<1>1. /\ now \in Nat /\ count[k][w] \in Nat /\ expiry[k][w] \in Nat /\ admitted[k][w] \in Nat
      /\ Limit \in Nat
  BY LimiterAssumption, SMT DEF TypeOK, PerWindow
<1>2. w \in Nat /\ Lapse(w) \in Nat /\ Lapse(w) = w * Minute + 2 * Minute /\ w * Minute \in Nat
  <2>1. w \in Nat
    BY Division, Lengths, LimiterAssumption, SMT DEF Windows
  <2> QED
    BY <2>1, Lengths, SMT DEF Lapse
<1>3. /\ count[k][w] > 0 => expiry[k][w] >= Lapse(w)
      /\ now < Lapse(w) /\ ~Dropped(k, w) => admitted[k][w] <= count[k][w]
      /\ admitted[k][w] > Limit => Dropped(k, w) \/ now >= Lapse(w)
  BY Zenon DEF CountersHold, WindowLimit, Lapse, Dropped
<1>4. ASSUME NEW t \in Threads, pc[t] = "counting", window[t] = w
      PROVE  now + Ttl >= Lapse(w)
  <2>1. WindowOf(now) \in Nat /\ WindowOf(now) * Minute <= now
    BY <1>1, WindowProperties
  <2>2. w <= WindowOf(now)
    BY <1>4, SMT DEF Begun
  <2>3. w * Minute <= WindowOf(now) * Minute /\ WindowOf(now) * Minute \in Nat
    BY <1>2, <2>1, <2>2, Lengths, SMT
  <2> QED
    BY <1>1, <1>2, <2>1, <2>3, Lengths, SMT
<1>5. now' \in Nat /\ now <= now'
  BY <1>1, BucketStep, SMT
<1>6. count'[k][w] > 0 => expiry'[k][w] >= Lapse(w)
  BY <1>1, <1>2, <1>3, <1>4, BucketStep, SMT
<1>7. ASSUME now' < Lapse(w), ~Dropped(k, w)'
      PROVE  admitted'[k][w] <= count'[k][w] /\ admitted'[k][w] <= Limit
  <2>1. admitted[k][w] <= count[k][w] /\ admitted[k][w] <= Limit
    <3>1. ~Dropped(k, w)
      BY <1>7, EvictedStays, Zenon
    <3> QED
      BY <1>1, <1>2, <1>3, <1>5, <1>7, <3>1, SMT
  <2>2. count'[k][w] = count[k][w] \/ count'[k][w] = count[k][w] + 1 \/ count[k][w] = 0
    BY <1>1, <1>2, <1>3, <1>7, BucketStep, SMT
  <2> QED
    BY <1>1, <2>1, <2>2, Verdicts, SMT
<1> QED
  BY <1>1, <1>2, <1>5, <1>6, <1>7, Verdicts, SMT

\* The limit holds across threads and replicas (security.py:53-55): the
\* requests of one key in one window that the counter lets through are never
\* more than Limit, until the window's bucket is evicted or can have expired.
THEOREM LimitHolds == Spec => []WindowLimit
<1>1. Init => CountersHold /\ WindowLimit
  BY LimiterAssumption, SMT DEF Init, CountersHold, WindowLimit
<1> QED
  BY <1>1, LimitStep, BegunAlways, TypeCorrect, PTL DEF Spec

-----------------------------------------------------------------------------
(* The allowance *)

\* A counter only counts past the limit what follows Limit requests let through.
AllowanceUsed ==
    \A k \in Keys, w \in Windows :
        \/ count[k][w] <= admitted[k][w] + opened[k][w]
        \/ Limit <= admitted[k][w] + opened[k][w]

LEMMA AllowanceStep ==
    TypeOK /\ AllowanceUsed /\ RefusedOnlyBeyondLimit /\ [Next]_vars
      => AllowanceUsed' /\ RefusedOnlyBeyondLimit'
<1> SUFFICES ASSUME TypeOK, AllowanceUsed, RefusedOnlyBeyondLimit, [Next]_vars
             PROVE  AllowanceUsed' /\ RefusedOnlyBeyondLimit'
  OBVIOUS
<1>1. ASSUME NEW k \in Keys, NEW w \in Windows
      PROVE  /\ count[k][w] \in Nat /\ admitted[k][w] \in Nat /\ opened[k][w] \in Nat
             /\ Limit \in Nat
  BY <1>1, LimiterAssumption, SMT DEF TypeOK, PerWindow
<1>2. ASSUME NEW k \in Keys, NEW w \in Windows
      PROVE  /\ \/ count'[k][w] <= admitted'[k][w] + opened'[k][w]
                \/ Limit <= admitted'[k][w] + opened'[k][w]
             /\ Limit <= admitted[k][w] + opened[k][w]
                  => Limit <= admitted'[k][w] + opened'[k][w]
  <2>1. \/ count[k][w] <= admitted[k][w] + opened[k][w]
        \/ Limit <= admitted[k][w] + opened[k][w]
    BY <1>2, Zenon DEF AllowanceUsed
  <2> QED
    BY <1>1, <1>2, <2>1, Verdicts, SMT
<1>3. AllowanceUsed'
  BY <1>2, Zenon DEF AllowanceUsed
<1>4. ASSUME NEW t \in Threads, pc'[t] = "refusing"
      PROVE  admitted'[key'[t]][window'[t]] + opened'[key'[t]][window'[t]] >= Limit
  <2>1. key[t] \in Keys /\ window[t] \in Windows
    BY <1>4, Zenon DEF TypeOK
  <2>2. CASE pc[t] = "refusing" /\ key'[t] = key[t] /\ window'[t] = window[t]
    <3>1. Limit <= admitted[key[t]][window[t]] + opened[key[t]][window[t]]
      BY <1>1, <1>4, <2>1, <2>2, SMT DEF RefusedOnlyBeyondLimit
    <3>2. Limit <= admitted'[key[t]][window[t]] + opened'[key[t]][window[t]]
      BY <1>2, <2>1, <3>1
    <3>3. Limit <= admitted'[key'[t]][window'[t]] + opened'[key'[t]][window'[t]]
      BY <2>2, <3>2, Zenon
    <3> QED
      BY <3>3, SMT
  <2>3. CASE Count(t)
    <3>1. key' = key /\ window' = window
      BY <2>3 DEF Count
    <3>2. count'[key[t]][window[t]] = count[key[t]][window[t]] + 1
      BY <2>1, <2>3, SMT DEF Count, Hit, TypeOK, PerWindow
    <3>3. ~(count'[key[t]][window[t]] <= Limit)
      BY <1>4, <2>3, Zenon DEF Count, Verdict, TypeOK
    <3>4. Limit <= admitted[key[t]][window[t]] + opened[key[t]][window[t]]
      <4>1. \/ count[key[t]][window[t]] <= admitted[key[t]][window[t]] + opened[key[t]][window[t]]
            \/ Limit <= admitted[key[t]][window[t]] + opened[key[t]][window[t]]
        BY <2>1, Zenon DEF AllowanceUsed
      <4> QED
        BY <1>1, <2>1, <3>2, <3>3, <4>1, SMT
    <3>5. Limit <= admitted'[key'[t]][window'[t]] + opened'[key'[t]][window'[t]]
      BY <1>2, <2>1, <3>1, <3>4, Zenon
    <3> QED
      BY <3>5, SMT
  <2>4. \/ pc[t] = "refusing" /\ key'[t] = key[t] /\ window'[t] = window[t]
        \/ Count(t)
    BY <1>4, Zenon DEF Next, Check, Tick, Evict, Arrive, Count, FailOpen, Refuse, request, vars, TypeOK
  <2> QED
    BY <2>2, <2>3, <2>4
<1>5. RefusedOnlyBeyondLimit'
  BY <1>4, Zenon DEF RefusedOnlyBeyondLimit
<1> QED
  BY <1>3, <1>5

\* Nobody is refused within the allowance (security.py:83): a refused request
\* follows Limit others of its key and window that were let through.
THEOREM RefusalsAreDue == Spec => []RefusedOnlyBeyondLimit
<1>1. Init => AllowanceUsed /\ RefusedOnlyBeyondLimit
  BY SMT DEF Init, AllowanceUsed, RefusedOnlyBeyondLimit
<1> QED
  BY <1>1, AllowanceStep, TypeCorrect, PTL DEF Spec

-----------------------------------------------------------------------------
(* Retry-After *)

\* A client that waits as Retry-After says (security.py:83, 111-115) is
\* counted in a later window than the one it was refused in.
THEOREM RetryAfterIsEnough == Spec => RetryAfterSuffices
<1>1. TypeOK /\ Begun /\ [Next]_vars =>
        [\A t \in Threads : Refuse(t) =>
            WindowOf(now + ResetIn(now) * TicksPerSec) > window[t]]_vars
  <2> SUFFICES ASSUME TypeOK, Begun, NEW t \in Threads, Refuse(t)
               PROVE  WindowOf(now + ResetIn(now) * TicksPerSec) > window[t]
    OBVIOUS
  <2>1. now \in Nat
    BY LimiterAssumption, SMT DEF TypeOK
  <2>2. window[t] <= WindowOf(now) /\ window[t] \in Nat
    BY Division, Lengths, LimiterAssumption, SMT DEF Refuse, Begun, TypeOK, Windows
  <2>3. /\ WindowOf(now) \in Nat
        /\ WindowOf(now + ResetIn(now) * TicksPerSec) > WindowOf(now)
    BY <2>1, WindowProperties, ResetReachesNextWindow
  <2>4. WindowOf(now + ResetIn(now) * TicksPerSec) \in Int
    <3>1. now + ResetIn(now) * TicksPerSec \in Int /\ Minute \in Nat \ {0}
      <4>1. ResetIn(now) \in Int
        BY <2>1, Division, Lengths, LimiterAssumption, SMT DEF ResetIn
      <4> QED
        BY <2>1, <4>1, Lengths, LimiterAssumption, SMT
    <3> QED
      BY <3>1, SMT DEF WindowOf
  <2> QED
    BY <2>2, <2>3, <2>4, SMT
<1> QED
  BY <1>1, BegunAlways, TypeCorrect, PTL DEF Spec, RetryAfterSuffices
=============================================================================
