---------------------------- MODULE RateLimiter ----------------------------
(***************************************************************************)
(* require_api_key and RateLimiter.check (api/security.py): a counter per  *)
(* key and minute in Redis, shared by the threads of every replica.        *)
(*                                                                         *)
(* A request reads the clock, then runs one MULTI/EXEC pipeline, then,     *)
(* when it is refused, reads the clock again; any time may pass in         *)
(* between.  A request without a valid key is answered 401 before it       *)
(* touches anything, and has no action.                                    *)
(***************************************************************************)
EXTENDS Integers

CONSTANTS
    Threads,      \* request threads of all replicas
    Keys,         \* key ids of valid keys
    Limit,        \* RATE_LIMIT_PER_MIN
    TicksPerSec,  \* the clock is finer than the seconds int() cuts it to
    MinuteSec,    \* 60
    TtlSec,       \* 120
    MaxTime,      \* bound on the clock, in ticks
    MaxRequests   \* bound on the requests ever sent

ASSUME LimiterAssumption ==
    /\ Limit \in Nat \ {0}  \* 0 and below disable the limiter
    /\ TicksPerSec \in Nat \ {0} /\ MinuteSec \in Nat \ {0}
    /\ TtlSec \in Nat /\ TtlSec >= 2 * MinuteSec
    /\ MaxTime \in Nat /\ MaxRequests \in Nat

VARIABLES
    now,       \* time.time(), in ticks
    count,     \* ratelimit:<key>:<window>; 0 when there is no such key
    expiry,    \* when it expires; 0 when there is none
    pc, key, window,  \* a thread's request
    \* History variables, by key and window:
    sent,
    admitted,  \* requests the counter let through
    opened,    \* requests let through because Redis did not answer
    evicted    \* the buckets Redis dropped before their time

buckets == <<count, expiry>>
request == <<pc, key, window>>
vars == <<now, buckets, request, sent, admitted, opened, evicted>>

Minute == MinuteSec * TicksPerSec
Ttl == TtlSec * TicksPerSec
Windows == 0..(MaxTime \div Minute)
PerWindow(S) == [Keys -> [Windows -> S]]

\* Mutant of WindowOf: a bucket per second.
SecondOf(t) == t \div TicksPerSec

\* int(time.time() // 60)
WindowOf(t) == t \div Minute

\* Mutant of ResetIn: seconds since the window began.
ResetSince(t) == (t % Minute) \div TicksPerSec

\* 60 - int(time.time() % 60)
ResetIn(t) == MinuteSec - (t % Minute) \div TicksPerSec

Init ==
    /\ now = 0
    /\ count = [k \in Keys |-> [w \in Windows |-> 0]]
    /\ expiry = count
    /\ pc = [t \in Threads |-> "idle"]
    /\ key \in [Threads -> Keys] /\ window = [t \in Threads |-> 0]
    /\ sent = 0 /\ admitted = count /\ opened = count
    /\ evicted = {}

\* The clock advances, and the buckets whose time has come are deleted.
Tick ==
    LET live(k, w) == expiry[k][w] > now + 1 IN
    /\ now < MaxTime
    /\ now' = now + 1
    /\ count' = [k \in Keys |-> [w \in Windows |-> IF live(k, w) THEN count[k][w] ELSE 0]]
    /\ expiry' = [k \in Keys |-> [w \in Windows |-> IF live(k, w) THEN expiry[k][w] ELSE 0]]
    /\ UNCHANGED <<request, sent, admitted, opened, evicted>>

\* Redis is short of memory and drops a bucket, the user histories of the
\* scorer being in the same instance.
Evict(k, w) ==
    /\ count[k][w] > 0
    /\ count' = [count EXCEPT ![k][w] = 0]
    /\ expiry' = [expiry EXCEPT ![k][w] = 0]
    /\ evicted' = evicted \union {<<k, w>>}
    /\ UNCHANGED <<now, request, sent, admitted, opened>>

\* A request with a valid key; check() reads the clock.
Arrive(t, k) ==
    /\ pc[t] = "idle" /\ sent < MaxRequests
    /\ sent' = sent + 1
    /\ pc' = [pc EXCEPT ![t] = "counting"]
    /\ key' = [key EXCEPT ![t] = k]
    /\ window' = [window EXCEPT ![t] = WindowOf(now)]
    /\ UNCHANGED <<now, buckets, admitted, opened, evicted>>

\* Mutant of Hit: INCR without EXPIRE.
HitForEver(t) ==
    /\ count' = [count EXCEPT ![key[t]][window[t]] = @ + 1]
    /\ UNCHANGED expiry

\* INCR and EXPIRE, in one transaction.
Hit(t) ==
    /\ count' = [count EXCEPT ![key[t]][window[t]] = @ + 1]
    /\ expiry' = [expiry EXCEPT ![key[t]][window[t]] = now + Ttl]

\* Mutants of Verdict: one request too many; one too few.
VerdictLate(t) == IF count'[key[t]][window[t]] <= Limit + 1 THEN "idle" ELSE "refusing"
VerdictEarly(t) == IF count'[key[t]][window[t]] < Limit THEN "idle" ELSE "refusing"

\* count <= limit: the request goes on to its handler.
Verdict(t) == IF count'[key[t]][window[t]] <= Limit THEN "idle" ELSE "refusing"

Count(t) ==
    /\ pc[t] = "counting"
    /\ Hit(t)
    /\ pc' = [pc EXCEPT ![t] = Verdict(t)]
    /\ admitted' = [admitted EXCEPT ![key[t]][window[t]] =
                      IF Verdict(t) = "idle" THEN @ + 1 ELSE @]
    /\ UNCHANGED <<now, key, window, sent, opened, evicted>>

\* Redis fails, before or after it executed the pipeline: the request goes on.
FailOpen(t) ==
    /\ pc[t] = "counting"
    /\ Hit(t) \/ UNCHANGED buckets
    /\ pc' = [pc EXCEPT ![t] = "idle"]
    /\ opened' = [opened EXCEPT ![key[t]][window[t]] = @ + 1]
    /\ UNCHANGED <<now, key, window, sent, admitted, evicted>>

\* 429, with Retry-After: ResetIn(now).
Refuse(t) ==
    /\ pc[t] = "refusing"
    /\ pc' = [pc EXCEPT ![t] = "idle"]
    /\ UNCHANGED <<now, buckets, key, window, sent, admitted, opened, evicted>>

Check(t) ==
    \/ \E k \in Keys : Arrive(t, k)
    \/ Count(t)
    \/ FailOpen(t)
    \/ Refuse(t)

Next ==
    \/ Tick
    \/ \E k \in Keys, w \in Windows : Evict(k, w)
    \/ \E t \in Threads : Check(t)

Spec == Init /\ [][Next]_vars

-----------------------------------------------------------------------------
(* Properties *)

TypeOK ==
    /\ now \in 0..MaxTime
    /\ count \in PerWindow(Nat) /\ expiry \in PerWindow(Nat)
    /\ pc \in [Threads -> {"idle", "counting", "refusing"}]
    /\ key \in [Threads -> Keys] /\ window \in [Threads -> Windows]
    /\ sent \in 0..MaxRequests
    /\ admitted \in PerWindow(Nat) /\ opened \in PerWindow(Nat)
    /\ evicted \subseteq Keys \X Windows

\* The limit holds across threads and replicas (security.py:53-55): of the
\* requests a key sends within one window the counter lets Limit through,
\* however their steps interleave with each other and with the boundary.  More
\* takes a bucket that Redis evicted, or a request that stalled until the
\* bucket of its window had expired, at least a minute after the window's end.
WindowLimit ==
    \A k \in Keys, w \in Windows :
        admitted[k][w] > Limit => <<k, w>> \in evicted \/ now >= (w + 2) * Minute

\* Nobody is refused within the allowance: when a request is refused, Limit
\* requests of the same key and window have been let through.
RefusedOnlyBeyondLimit ==
    \A t \in Threads : pc[t] = "refusing" =>
        admitted[key[t]][window[t]] + opened[key[t]][window[t]] >= Limit

\* Every bucket lapses: a bucket that exists has an expiry, no further away
\* than two minutes, whatever failed and however late it was counted in.
BucketsLapse ==
    \A k \in Keys, w \in Windows :
        count[k][w] > 0 => expiry[k][w] > now /\ expiry[k][w] <= now + Ttl

\* Retry-After is long enough: a client that waits as told is counted in a
\* later window than the one it was refused in, even when a boundary passes
\* between the two readings of the clock.
RetryAfterSuffices ==
    [][\A t \in Threads : Refuse(t) =>
           WindowOf(now + ResetIn(now) * TicksPerSec) > window[t]]_vars
=============================================================================
