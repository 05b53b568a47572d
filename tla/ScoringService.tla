--------------------------- MODULE ScoringService ---------------------------
(***************************************************************************)
(* The scorer container: one process that answers POST /score on a pool of *)
(* threads (api/main.py) and scores the transaction topic on one consumer  *)
(* thread (scorer/stream_consumer.py), both persisting to Postgres through *)
(* api/db.py.  The process crashes, stops and is restarted by compose; the *)
(* broker comes and goes; every Redis or Postgres call may raise, before   *)
(* or after it took effect.                                                *)
(*                                                                         *)
(* Each call to scorer.score and to db.insert_score is one step here; what *)
(* happens inside score() is module FeatureStore.  A stream transaction is *)
(* named by its offset, one partition, first offset 1.                     *)
(***************************************************************************)
EXTENDS Naturals

CONSTANTS
    HttpThreads,   \* threads serving POST /score
    HttpTx,        \* transactions clients post, possibly more than once
    Consumer,      \* the stream consumer's thread
    NoTx,
    MaxPublished,  \* bound on the length of the topic
    MaxPoll,       \* max_poll_records
    Retries        \* _connect's attempts

ASSUME ServiceAssumption ==
    /\ MaxPublished \in Nat /\ MaxPoll \in Nat \ {0} /\ Retries \in Nat \ {0}
    /\ NoTx \notin HttpTx /\ Consumer \notin HttpThreads

VARIABLES
    \* The broker.
    kafkaUp, published,
    committed,   \* next offset of group "stream-scorer"; 0 before any commit
    \* The process and its consumer thread.
    proc,        \* "down", "up", "stopping" (stop_event set), "closed" (pool closed)
    cons,        \* where the consumer thread is
    tries,       \* connection attempts left
    position,    \* next offset poll() fetches; 0 outside the group
    next,        \* the record of the batch being handled
    \* The request threads.
    http, httpTx, answer,
    counted,     \* metric labels raised for the thread's current transaction
    \* The stores.
    recorded,    \* transactions pushed to the Redis history
    rows,        \* scored_transactions
    \* History variables:
    handled,     \* offsets whose handling the loop completed
    skipped,     \* offsets published before a join that found no committed offset
    unsaved      \* handled offsets whose position was given up without being committed,
                 \* and which the group has neither handled again nor passed since

broker == <<kafkaUp, published, committed>>
thread == <<cons, tries, position, next>>
requests == <<http, httpTx, answer>>
stores == <<recorded, rows>>
history == <<handled, skipped, unsaved>>
vars == <<broker, proc, thread, requests, counted, stores, history>>

Offsets == 1..MaxPublished
Actors == HttpThreads \union {Consumer}
Labels == {"ok", "error", "db_insert_failure"}

\* What is to be handled again when the position is lost.
GivenUp == unsaved \union {o \in handled : committed <= o}

PoolOpen == proc \in {"up", "stopping"}
StopSet == proc \in {"stopping", "closed"}

-----------------------------------------------------------------------------
Init ==
    /\ kafkaUp = TRUE /\ published = 0 /\ committed = 0
    /\ proc = "down"
    /\ cons = "none" /\ tries = 0 /\ position = 0 /\ next = 0
    /\ http = [h \in HttpThreads |-> "idle"]
    /\ httpTx = [h \in HttpThreads |-> NoTx]
    /\ answer = [h \in HttpThreads |-> "none"]
    /\ counted = [a \in Actors |-> {}]
    /\ recorded = {} /\ rows = {}
    /\ handled = {} /\ skipped = {} /\ unsaved = {}

-----------------------------------------------------------------------------
(* Broker and producer. *)

Publish ==
    /\ kafkaUp /\ published < MaxPublished
    /\ published' = published + 1
    /\ UNCHANGED <<kafkaUp, committed, proc, thread, requests, counted, stores, history>>

BrokerChanges ==
    /\ kafkaUp' = ~kafkaUp
    /\ UNCHANGED <<published, committed, proc, thread, requests, counted, stores, history>>

-----------------------------------------------------------------------------
(* Life of the process: api/main.py's lifespan, and compose's restarts. *)

\* lifespan up to its yield: pool, scorer and consumer thread.  A start that
\* fails (no model, no Postgres) leaves the process down.
Start ==
    /\ proc = "down"
    /\ proc' = "up"
    /\ cons' = "connecting" /\ tries' = Retries
    /\ UNCHANGED <<broker, position, next, requests, counted, stores, history>>

\* The server has drained its requests; lifespan sets stop_event.
BeginStop ==
    /\ proc = "up" /\ \A h \in HttpThreads : http[h] = "idle"
    /\ proc' = "stopping"
    /\ UNCHANGED <<broker, thread, requests, counted, stores, history>>

\* join(timeout=5) returns, whether or not the thread has ended; close_pool.
ClosePool ==
    /\ proc = "stopping"
    /\ proc' = "closed"
    /\ UNCHANGED <<broker, thread, requests, counted, stores, history>>

\* The process is gone and its memory with it; the consumer is a daemon
\* thread, so it goes wherever it was.
ProcessEnds ==
    /\ proc' = "down"
    /\ cons' = "none" /\ tries' = 0 /\ position' = 0 /\ next' = 0
    /\ http' = [h \in HttpThreads |-> "idle"]
    /\ httpTx' = [h \in HttpThreads |-> NoTx]
    /\ answer' = [h \in HttpThreads |-> "none"]
    /\ counted' = [a \in Actors |-> {}]
    /\ unsaved' = IF position > 0 THEN GivenUp ELSE unsaved
    /\ UNCHANGED <<broker, stores, handled, skipped>>

Exit == proc = "closed" /\ ProcessEnds

Crash == proc \in {"up", "stopping"} /\ ProcessEnds

-----------------------------------------------------------------------------
(* The consumer thread: run_stream_consumer. *)

\* _connect succeeds.
ConnectOk ==
    /\ cons = "connecting" /\ kafkaUp
    /\ cons' = "polling" /\ tries' = 0
    /\ UNCHANGED <<broker, proc, position, next, requests, counted, stores, history>>

\* NoBrokersAvailable; after the last attempt _connect raises and the thread
\* dies.  stop_event is not looked at.
ConnectFails ==
    /\ cons = "connecting" /\ ~kafkaUp
    /\ tries' = tries - 1
    /\ cons' = IF tries = 1 THEN "dead" ELSE "connecting"
    /\ UNCHANGED <<broker, proc, position, next, requests, counted, stores, history>>

\* Mutants of Join: no group offset, so it starts over; or it starts at the end.
JoinAtBeginning ==
    /\ cons = "polling" /\ ~StopSet /\ position = 0 /\ kafkaUp
    /\ position' = 1
    /\ UNCHANGED <<broker, proc, cons, tries, next, requests, counted, stores, history>>

JoinAtEnd ==
    /\ cons = "polling" /\ ~StopSet /\ position = 0 /\ kafkaUp
    /\ position' = published + 1
    /\ UNCHANGED <<broker, proc, cons, tries, next, requests, counted, stores, history>>

\* The first poll joins the group: it resumes at the committed offset, or at
\* the end of the topic when the group has none (auto_offset_reset="latest").
Join ==
    /\ cons = "polling" /\ ~StopSet /\ position = 0 /\ kafkaUp
    /\ position' = IF committed = 0 THEN published + 1 ELSE committed
    /\ skipped' = IF committed = 0 THEN skipped \union 1..published ELSE skipped
    /\ unsaved' = {o \in unsaved : position' <= o}
    /\ UNCHANGED <<broker, proc, cons, tries, next, requests, counted, stores, handled>>

\* Mutant of Poll: it commits what it is about to return.
PollCommitsAhead(commits, n) ==
    /\ cons = "polling" /\ ~StopSet /\ position > 0
    /\ position + n <= published + 1
    /\ commits => kafkaUp
    /\ committed' = IF commits THEN position + n ELSE committed
    /\ next' = position
    /\ position' = position + n
    /\ cons' = IF n > 0 THEN "scoring" ELSE "polling"
    /\ UNCHANGED <<kafkaUp, published, proc, tries, requests, counted, stores, history>>

\* poll(): when the auto-commit interval has passed it first commits the
\* position, which covers what earlier polls returned, all handled by now;
\* then it returns the next n records.
Poll(commits, n) ==
    /\ cons = "polling" /\ ~StopSet /\ position > 0
    /\ position + n <= published + 1
    /\ commits => kafkaUp
    /\ committed' = IF commits THEN position ELSE committed
    /\ next' = position
    /\ position' = position + n
    /\ cons' = IF n > 0 THEN "scoring" ELSE "polling"
    /\ UNCHANGED <<kafkaUp, published, proc, tries, requests, counted, stores, history>>

\* Mutant of NextRecord: it looks for the batch's end one record late.
NextRecordTooFar ==
    /\ handled' = handled \union {next} /\ unsaved' = unsaved \ {next}
    /\ next' = next + 1
    /\ cons' = IF next = position THEN "polling" ELSE "scoring"

\* The record is done with: the next one of the batch, or the loop's test.
NextRecord ==
    /\ handled' = handled \union {next} /\ unsaved' = unsaved \ {next}
    /\ next' = next + 1
    /\ cons' = IF next + 1 = position THEN "polling" ELSE "scoring"

ConsumerScores ==
    /\ cons = "scoring"
    /\ recorded' = recorded \union {next}
    /\ counted' = [counted EXCEPT ![Consumer] = {"ok"}]
    /\ cons' = "inserting"
    /\ UNCHANGED <<broker, proc, tries, position, next, requests, rows, history>>

\* scorer.score raises; Redis may have executed the update all the same.
ConsumerScoreRaises ==
    /\ cons = "scoring"
    /\ recorded' \in {recorded, recorded \union {next}}
    /\ counted' = [counted EXCEPT ![Consumer] = {"error"}]
    /\ NextRecord
    /\ UNCHANGED <<broker, proc, tries, position, requests, rows, skipped>>

ConsumerInserts ==
    /\ cons = "inserting" /\ PoolOpen
    /\ rows' = rows \union {next}
    /\ NextRecord
    /\ UNCHANGED <<broker, proc, tries, position, requests, counted, recorded, skipped>>

\* Mutant of ConsumerInsertRaises: the exception is swallowed.
ConsumerInsertSwallowed ==
    /\ cons = "inserting"
    /\ rows' \in {rows} \union (IF PoolOpen THEN {rows \union {next}} ELSE {})
    /\ NextRecord
    /\ UNCHANGED <<broker, proc, tries, position, requests, counted, recorded, skipped>>

\* insert_score raises: Postgres, the pool, or the pool is closed.  The same
\* except clause catches it.
ConsumerInsertRaises ==
    /\ cons = "inserting"
    /\ rows' \in {rows} \union (IF PoolOpen THEN {rows \union {next}} ELSE {})
    /\ counted' = [counted EXCEPT ![Consumer] = @ \union {"error"}]
    /\ NextRecord
    /\ UNCHANGED <<broker, proc, tries, position, requests, recorded, skipped>>

\* The group's membership ends, if there was one; its position is kept if it can be
\* committed.
LeaveGroup(commits) ==
    /\ commits => kafkaUp /\ position > 0
    /\ committed' = IF commits THEN position ELSE committed
    /\ unsaved' = IF position > 0 /\ ~commits THEN GivenUp ELSE unsaved
    /\ position' = 0 /\ next' = 0
    /\ UNCHANGED <<kafkaUp, published, proc, tries, requests, counted, stores, handled,
                   skipped>>

\* The broker expired the session, or a batch outlasted max_poll_interval: the
\* next poll rejoins, after trying to commit under the old membership.
LosesGroup(commits) == cons = "polling" /\ position > 0 /\ UNCHANGED cons /\ LeaveGroup(commits)

\* stop_event is seen between two batches: the finally clause's close().
ConsumerStops(commits) == cons = "polling" /\ StopSet /\ cons' = "closed" /\ LeaveGroup(commits)

\* poll() raises: the finally clause closes the consumer, the thread dies.
PollRaises(commits) == cons = "polling" /\ ~StopSet /\ cons' = "dead" /\ LeaveGroup(commits)

-----------------------------------------------------------------------------
(* The handler of POST /score, once the key has been accepted. *)

Post(h, t) ==
    /\ proc = "up" /\ http[h] = "idle"
    /\ http' = [http EXCEPT ![h] = "scoring"]
    /\ httpTx' = [httpTx EXCEPT ![h] = t]
    /\ answer' = [answer EXCEPT ![h] = "none"]
    /\ counted' = [counted EXCEPT ![h] = {}]
    /\ UNCHANGED <<broker, proc, thread, stores, history>>

\* Mutant of HttpScores: store.update is forgotten.
HttpScoresUnrecorded(h) ==
    /\ http[h] = "scoring"
    /\ counted' = [counted EXCEPT ![h] = {"ok"}]
    /\ http' = [http EXCEPT ![h] = "inserting"]
    /\ UNCHANGED <<broker, proc, thread, httpTx, answer, stores, history>>

HttpScores(h) ==
    /\ http[h] = "scoring"
    /\ recorded' = recorded \union {httpTx[h]}
    /\ counted' = [counted EXCEPT ![h] = {"ok"}]
    /\ http' = [http EXCEPT ![h] = "inserting"]
    /\ UNCHANGED <<broker, proc, thread, httpTx, answer, rows, history>>

Respond(h, status) ==
    /\ http' = [http EXCEPT ![h] = "idle"]
    /\ answer' = [answer EXCEPT ![h] = status]

HttpScoreRaises(h) ==
    /\ http[h] = "scoring"
    /\ recorded' \in {recorded, recorded \union {httpTx[h]}}
    /\ counted' = [counted EXCEPT ![h] = {"error"}]
    /\ Respond(h, "500")
    /\ UNCHANGED <<broker, proc, thread, httpTx, rows, history>>

HttpInserts(h) ==
    /\ http[h] = "inserting"
    /\ rows' = rows \union {httpTx[h]}
    /\ Respond(h, "200")
    /\ UNCHANGED <<broker, proc, thread, httpTx, counted, recorded, history>>

\* Mutant of HttpInsertRaises: the failure is not counted.
HttpInsertSwallowed(h) ==
    /\ http[h] = "inserting"
    /\ rows' \in {rows, rows \union {httpTx[h]}}
    /\ Respond(h, "200")
    /\ UNCHANGED <<broker, proc, thread, httpTx, counted, recorded, history>>

\* The caller still gets its score.
HttpInsertRaises(h) ==
    /\ http[h] = "inserting"
    /\ rows' \in {rows, rows \union {httpTx[h]}}
    /\ counted' = [counted EXCEPT ![h] = @ \union {"db_insert_failure"}]
    /\ Respond(h, "200")
    /\ UNCHANGED <<broker, proc, thread, httpTx, recorded, history>>

-----------------------------------------------------------------------------
Http(h) ==
    \/ \E t \in HttpTx : Post(h, t)
    \/ HttpScores(h) \/ HttpScoreRaises(h)
    \/ HttpInserts(h) \/ HttpInsertRaises(h)

HandleRecord ==
    \/ ConsumerScores \/ ConsumerScoreRaises
    \/ ConsumerInserts \/ ConsumerInsertRaises

Fetch(n) == \E commits \in BOOLEAN : Poll(commits, n)

Consume ==
    \/ ConnectOk \/ ConnectFails
    \/ Join
    \/ \E n \in 0..MaxPoll : Fetch(n)
    \/ HandleRecord
    \/ \E commits \in BOOLEAN :
           LosesGroup(commits) \/ ConsumerStops(commits) \/ PollRaises(commits)

Next ==
    \/ Publish \/ BrokerChanges
    \/ Start \/ BeginStop \/ ClosePool \/ Exit \/ Crash
    \/ Consume
    \/ \E h \in HttpThreads : Http(h)

\* The consumer thread is scheduled, and a call it makes returns or raises.
Fairness ==
    /\ WF_vars(ConnectOk)
    /\ WF_vars(Join)
    /\ WF_vars(\E n \in 1..MaxPoll : Fetch(n))
    /\ WF_vars(HandleRecord)

Spec == Init /\ [][Next]_vars /\ Fairness

-----------------------------------------------------------------------------
(* Properties *)

TypeOK ==
    /\ kafkaUp \in BOOLEAN /\ published \in 0..MaxPublished
    /\ committed \in 0..published + 1 /\ position \in 0..published + 1
    /\ proc \in {"down", "up", "stopping", "closed"}
    /\ cons \in {"none", "connecting", "polling", "scoring", "inserting", "closed", "dead"}
    /\ tries \in 0..Retries
    /\ next \in 0..position
    /\ http \in [HttpThreads -> {"idle", "scoring", "inserting"}]
    /\ httpTx \in [HttpThreads -> HttpTx \union {NoTx}]
    /\ answer \in [HttpThreads -> {"none", "200", "500"}]
    /\ counted \in [Actors -> SUBSET Labels]
    /\ recorded \subseteq HttpTx \union Offsets /\ rows \subseteq HttpTx \union Offsets
    /\ handled \subseteq 1..published /\ skipped \subseteq 1..published
    /\ unsaved \subseteq handled

\* At-least-once: whatever crashes, restarts and rebalances happen, the
\* group's committed offset never runs ahead of the loop; a record below it
\* was handled, or published before a join that found no committed offset and
\* therefore began at the end of the topic.  The commit inside poll() covers only
\* batches the loop has finished.
CommittedWereHandled ==
    \A o \in Offsets : o < committed => o \in handled \union skipped

\* To the topic the service is a TopicDelivery: through every crash, rebalance and
\* dying thread, records are handled in order without a gap, commits never go
\* back, and what a commit covers does not come back.
Topic == INSTANCE TopicDelivery
ImplementsTopicDelivery == Topic!Spec

\* A record comes back to the loop once for every position beyond it that was given
\* up without a commit, and for nothing else: a stop whose close() reaches the
\* broker causes no second scoring, also where crashes did so before.
RedeliveredOnlyAfterUnsaved ==
    cons \in {"scoring", "inserting"} /\ next \in handled => next \in unsaved

\* Postgres never shows a transaction that the feature history does not hold
\* or has not held: a row is written after score() recorded it, on both paths.
RowsWereRecorded == rows \subseteq recorded

\* POST /score does not lose a row silently (api/main.py:77-82): an answered
\* request without a row was counted as a failed insert, and one without a
\* score as an error.
LostHttpRowsAreCounted ==
    \A h \in HttpThreads : http[h] = "idle" =>
        /\ answer[h] = "200" /\ httpTx[h] \notin rows => "db_insert_failure" \in counted[h]
        /\ answer[h] = "500" <=> "error" \in counted[h]

\* The record the loop has just finished.
Finished == handled' \ handled

\* Nor does the stream: a record the loop finished is in Postgres, or the
\* handling was counted as an error, even when shutdown closed the pool first.
StreamLossIsAnError ==
    [][\A o \in Finished : o \in rows' \/ "error" \in counted'[Consumer]]_vars

\* If the process and the broker stay up and the group is stable, every
\* published record is handled, except those published before a join that found no
\* committed offset, or the consumer thread has died.
PublishedIsHandled ==
    (/\ <>[](proc = "up" /\ kafkaUp)
     /\ <>[][~\E commits \in BOOLEAN : LosesGroup(commits)]_vars)
    => \A o \in Offsets :
          (o <= published) ~> (o \in handled \union skipped \/ cons = "dead")
=============================================================================
