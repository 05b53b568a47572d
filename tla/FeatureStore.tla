---------------------------- MODULE FeatureStore ----------------------------
(***************************************************************************)
(* FraudScorer.score (scorer/model.py) over the Redis feature store        *)
(* (scorer/redis_store.py).                                                *)
(*                                                                         *)
(* score() runs on every thread of the API's thread pool and on the stream *)
(* consumer's thread at once, with no lock: it reads the user's amounts    *)
(* (LRANGE), then the devices (SMEMBERS), scores, and records the          *)
(* transaction with one MULTI/EXEC pipeline.  Each Redis call is one step  *)
(* here, so every interleaving of concurrent scores is a behaviour.        *)
(***************************************************************************)
EXTENDS Features, SequencesExt

CONSTANTS
    Workers,  \* threads that run score()
    NoTx,     \* not a transaction
    TtlSec    \* REDIS_HISTORY_TTL_SEC, in ticks of the clock

ASSUME StoreAssumption == NoTx \notin Tx /\ TtlSec \in Nat \ {0}

VARIABLES
    amounts,     \* user:<u>:amounts, newest first; <<>> when there is no key
    devices,     \* user:<u>:devices; {} when there is no key
    amountsTtl,  \* ticks left before the key expires; 0 when none is set
    devicesTtl,
    pc,          \* how far each worker is into score()
    cur,         \* the transaction it scores
    seenAmounts, \* what get_history returned to it, oldest first
    seenDevices,
    \* History variables, read by no step of the program:
    recorded,    \* transactions some update of which has taken effect
    uncovered,   \* users whose device key was evicted under live amounts
    interference \* what happened to the user's keys since a worker's LRANGE

store == <<amounts, devices, amountsTtl, devicesTtl>>
reads == <<pc, cur, seenAmounts, seenDevices>>
vars == <<store, reads, recorded, uncovered, interference>>

Phases == {"idle", "readAmounts", "readDevices"}

-----------------------------------------------------------------------------
(* The Redis commands the store uses. *)

\* LTRIM key 0 n-1 and LRANGE key 0 n-1, on a newest-first list.
Newest(s, n) == SubSeq(s, 1, IF n < Len(s) THEN n ELSE Len(s))

\* Mutants of PushTrim: no LTRIM; LTRIM at the wrong end.
PushWithoutTrim(s, t) == <<t>> \o s
PushAndTrimHead(s, t) == LastN(<<t>> \o s, HistoryLen)

\* LPUSH, then LTRIM.
PushTrim(s, t) == Newest(<<t>> \o s, HistoryLen)

\* Mutant of OldestFirst: no reversal.
NewestFirst(s) == Newest(s, HistoryLen)

\* get_history's reversal of the newest-first list it reads.
OldestFirst(s) == Reverse(Newest(s, HistoryLen))

\* The workers that are inside score() for user u.
Scoring(u) == {w \in Workers : pc[w] # "idle" /\ UserOf[cur[w]] = u}

\* Mark event e for the workers in W.
Interfere(W, e) ==
    interference' = [w \in Workers |-> IF w \in W THEN interference[w] \union {e}
                                       ELSE interference[w]]

-----------------------------------------------------------------------------
Init ==
    /\ amounts = [u \in Users |-> <<>>]
    /\ devices = [u \in Users |-> {}]
    /\ amountsTtl = [u \in Users |-> 0]
    /\ devicesTtl = [u \in Users |-> 0]
    /\ pc = [w \in Workers |-> "idle"]
    /\ cur = [w \in Workers |-> NoTx]
    /\ seenAmounts = [w \in Workers |-> <<>>]
    /\ seenDevices = [w \in Workers |-> {}]
    /\ recorded = {}
    /\ uncovered = {}
    /\ interference = [w \in Workers |-> {}]

\* Mutant of ReadAmounts: the transaction is pushed before the history is read.
PushThenRead(w, t) ==
    LET u == UserOf[t] IN
    /\ pc[w] = "idle"
    /\ pc' = [pc EXCEPT ![w] = "readAmounts"]
    /\ cur' = [cur EXCEPT ![w] = t]
    /\ amounts' = [amounts EXCEPT ![u] = PushTrim(@, t)]
    /\ amountsTtl' = [amountsTtl EXCEPT ![u] = TtlSec]
    /\ seenAmounts' = [seenAmounts EXCEPT ![w] = OldestFirst(amounts'[u])]
    /\ UNCHANGED <<devices, devicesTtl, seenDevices, recorded, uncovered, interference>>

\* score(tx) is called; the first command of get_history.
ReadAmounts(w, t) ==
    /\ pc[w] = "idle"
    /\ pc' = [pc EXCEPT ![w] = "readAmounts"]
    /\ cur' = [cur EXCEPT ![w] = t]
    /\ seenAmounts' = [seenAmounts EXCEPT ![w] = OldestFirst(amounts[UserOf[t]])]
    /\ interference' = [interference EXCEPT ![w] =
                          IF UserOf[t] \in uncovered THEN {"drop"} ELSE {}]
    /\ UNCHANGED <<store, seenDevices, recorded, uncovered>>

\* The second command of get_history; the features and the score follow from
\* what was read and touch no shared state.
ReadDevices(w) ==
    /\ pc[w] = "readAmounts"
    /\ pc' = [pc EXCEPT ![w] = "readDevices"]
    /\ seenDevices' = [seenDevices EXCEPT ![w] = devices[UserOf[cur[w]]]]
    /\ UNCHANGED <<store, cur, seenAmounts, recorded, uncovered, interference>>

\* score() returns or raises: the thread is free again.
Leave(w) ==
    /\ pc' = [pc EXCEPT ![w] = "idle"]
    /\ cur' = [cur EXCEPT ![w] = NoTx]
    /\ seenAmounts' = [seenAmounts EXCEPT ![w] = <<>>]
    /\ seenDevices' = [seenDevices EXCEPT ![w] = {}]

\* Mutants of Update: no SADD; no EXPIRE on the devices.
UpdateWithoutDevice(w) ==
    LET t == cur[w]
        u == UserOf[t] IN
    /\ pc[w] = "readDevices"
    /\ amounts' = [amounts EXCEPT ![u] = PushTrim(@, t)]
    /\ amountsTtl' = [amountsTtl EXCEPT ![u] = TtlSec]
    /\ Leave(w)
    /\ recorded' = recorded \union {t}
    /\ Interfere(Scoring(u) \ {w}, "update")
    /\ UNCHANGED <<devices, devicesTtl, uncovered>>

UpdateWithoutExpire(w) ==
    LET t == cur[w]
        u == UserOf[t] IN
    /\ pc[w] = "readDevices"
    /\ amounts' = [amounts EXCEPT ![u] = PushTrim(@, t)]
    /\ devices' = [devices EXCEPT ![u] = @ \union {DeviceOf[t]}]
    /\ amountsTtl' = [amountsTtl EXCEPT ![u] = TtlSec]
    /\ Leave(w)
    /\ recorded' = recorded \union {t}
    /\ Interfere(Scoring(u) \ {w}, "update")
    /\ UNCHANGED <<devicesTtl, uncovered>>

\* store.update: LPUSH, LTRIM, SADD and both EXPIREs in one transaction.  A
\* reply lost after EXEC is this step too: score() raises, Redis has changed.
Update(w) ==
    LET t == cur[w]
        u == UserOf[t] IN
    /\ pc[w] = "readDevices"
    /\ amounts' = [amounts EXCEPT ![u] = PushTrim(@, t)]
    /\ devices' = [devices EXCEPT ![u] = @ \union {DeviceOf[t]}]
    /\ amountsTtl' = [amountsTtl EXCEPT ![u] = TtlSec]
    /\ devicesTtl' = [devicesTtl EXCEPT ![u] = TtlSec]
    /\ Leave(w)
    /\ recorded' = recorded \union {t}
    /\ Interfere(Scoring(u) \ {w}, "update")
    /\ UNCHANGED uncovered

\* A Redis command or the model raises: score() propagates it, nothing is
\* recorded.
ScoreRaises(w) ==
    /\ pc[w] # "idle"
    /\ Leave(w)
    /\ UNCHANGED <<store, recorded, uncovered, interference>>

-----------------------------------------------------------------------------
(* Redis dropping keys on its own. *)

\* The clock advances; the keys whose last tick this was are deleted.
Tick ==
    LET goneA == {u \in Users : amountsTtl[u] = 1}
        goneD == {u \in Users : devicesTtl[u] = 1} IN
    /\ \E u \in Users : amountsTtl[u] + devicesTtl[u] > 0
    /\ amountsTtl' = [u \in Users |-> IF amountsTtl[u] > 0 THEN amountsTtl[u] - 1 ELSE 0]
    /\ devicesTtl' = [u \in Users |-> IF devicesTtl[u] > 0 THEN devicesTtl[u] - 1 ELSE 0]
    /\ amounts' = [u \in Users |-> IF u \in goneA THEN <<>> ELSE amounts[u]]
    /\ devices' = [u \in Users |-> IF u \in goneD THEN {} ELSE devices[u]]
    /\ uncovered' = uncovered \ goneA
    /\ Interfere(UNION {Scoring(u) : u \in goneA \union goneD}, "drop")
    /\ UNCHANGED <<reads, recorded>>

\* maxmemory-policy allkeys-lru drops one key, whichever of the two it is.
EvictAmounts(u) ==
    /\ amounts[u] # <<>>
    /\ amounts' = [amounts EXCEPT ![u] = <<>>]
    /\ amountsTtl' = [amountsTtl EXCEPT ![u] = 0]
    /\ uncovered' = uncovered \ {u}
    /\ Interfere(Scoring(u), "drop")
    /\ UNCHANGED <<devices, devicesTtl, reads, recorded>>

EvictDevices(u) ==
    /\ devices[u] # {}
    /\ devices' = [devices EXCEPT ![u] = {}]
    /\ devicesTtl' = [devicesTtl EXCEPT ![u] = 0]
    /\ uncovered' = IF amounts[u] = <<>> THEN uncovered ELSE uncovered \union {u}
    /\ Interfere(Scoring(u), "drop")
    /\ UNCHANGED <<amounts, amountsTtl, reads, recorded>>

Score(w) ==
    \/ \E t \in Tx : ReadAmounts(w, t)
    \/ ReadDevices(w)
    \/ Update(w)
    \/ ScoreRaises(w)

Next ==
    \/ \E w \in Workers : Score(w)
    \/ Tick
    \/ \E u \in Users : EvictAmounts(u)
    \/ \E u \in Users : EvictDevices(u)

Spec == Init /\ [][Next]_vars

-----------------------------------------------------------------------------
(* Properties *)

\* A list no longer than LTRIM leaves it.
Kept(s) == Len(s) <= HistoryLen

TypeOK ==
    /\ amounts \in [Users -> Seq(Tx)] /\ \A u \in Users : Kept(amounts[u])
    /\ devices \in [Users -> SUBSET DeviceIds]
    /\ amountsTtl \in [Users -> 0..TtlSec]
    /\ devicesTtl \in [Users -> 0..TtlSec]
    /\ pc \in [Workers -> Phases]
    /\ cur \in [Workers -> Tx \union {NoTx}]
    /\ \A w \in Workers : pc[w] # "idle" => cur[w] \in Tx
    /\ seenAmounts \in [Workers -> Seq(Tx)] /\ \A w \in Workers : Kept(seenAmounts[w])
    /\ seenDevices \in [Workers -> SUBSET DeviceIds]
    /\ recorded \subseteq Tx
    /\ uncovered \subseteq Users
    /\ interference \in [Workers -> SUBSET {"update", "drop"}]

\* A transaction's rolling statistics are those of the user's earlier
\* transactions: score() records a transaction after it has read the history,
\* so it never meets itself in the list it is scored against, whatever the other
\* threads do, and however often it was tried before without being recorded
\* (scorer/model.py:64-66).  A retry of one that was recorded does meet itself.
NotInOwnHistory ==
    \A w \in Workers : pc[w] # "idle" /\ cur[w] \notin recorded =>
        ~Contains(seenAmounts[w], cur[w])

\* The two reads of get_history are not atomic, yet what they return fits
\* together: every amount a worker has read was paid from a device it also
\* knows, because the amounts are read first and an update publishes both
\* keys in one transaction.  Only a key that Redis drops can part them.
ReadsFitTogether ==
    \A w \in Workers : pc[w] = "readDevices" /\ "drop" \notin interference[w] =>
        \A i \in 1..Len(seenAmounts[w]) : DeviceOf[seenAmounts[w][i]] \in seenDevices[w]

\* No key of the store outlives its user: each key that exists has an expiry,
\* and the two keys of a user expire in the same tick, so an idle user's
\* history lapses as a whole and never as half of it.
KeysExpireTogether ==
    \A u \in Users :
        /\ amounts[u] # <<>> <=> amountsTtl[u] > 0
        /\ devices[u] # {} <=> devicesTtl[u] > 0
        /\ amounts[u] # <<>> /\ devices[u] # {} => amountsTtl[u] = devicesTtl[u]

\* What the trainer's replay would compute for t at the moment the store
\* records it: from everything recorded before it.
ReplayFeatures(t) == ComputeFeatures(t, Reverse(amounts[UserOf[t]]), devices[UserOf[t]])

\* What worker w computed for the transaction it scores.
OnlineFeatures(w) == ComputeFeatures(cur[w], seenAmounts[w], seenDevices[w])

\* Train/serve parity: when no other update of the same user lands between a
\* worker's first read and its own update, the vector it scored is the one
\* the offline trainer computes for that transaction in the recorded order.
UnracedMatchesReplay ==
    [][\A w \in Workers : Update(w) /\ interference[w] = {} =>
           OnlineFeatures(w) = ReplayFeatures(cur[w])]_vars

\* The store is the trainer's replay: every pipeline appends one transaction
\* to one user's history and keeps the last HistoryLen, concurrent updates
\* are neither lost nor mixed, and users do not share history.
Replay == INSTANCE RollingHistory WITH
    history_amounts <- [u \in Users |-> Reverse(amounts[u])],
    history_devices <- devices

ImplementsReplay == Replay!Spec

\* scorer/redis_store.py:3-4 says that "online features match training
\* features exactly".  Two scores of one user at once read the same history.
OnlineMatchesReplay ==
    [][\A w \in Workers : Update(w) => OnlineFeatures(w) = ReplayFeatures(cur[w])]_vars
=============================================================================
