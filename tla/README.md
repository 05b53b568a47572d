# stream-fraud-detector: verification in TLA+

Specifications of the parts of stream-fraud-detector where steps of several
threads, processes and stores meet: what they are, what is checked about them
on small instances with TLC, and what is proved about them for every value of
their parameters with TLAPS. Line numbers refer to the files of the repository.

## 1. The system

```
producer ──publish──> Kafka topic ──poll──┐                  training/train.py
                                          v                     │ bundle, reference.csv
client ──POST /score──> scorer process: request threads + consumer thread
                            │ read, then update   │ insert
                            v                     v
                          Redis               Postgres ──fetch_recent──> monitor process
                   (history per user)    (scored_transactions)     │ drift_state.json, latest.*
                                                                   v
                                                        Slack, GET /monitoring
```

| Component | State it keeps | Operations | Talks to |
| --- | --- | --- | --- |
| Feature store (`scorer/redis_store.py`, `scorer/model.py`, `common/features.py`) | two Redis keys per user: a list of at most 30 amounts, a set of devices, each with a TTL | `get_history` (two commands), `update` (one MULTI/EXEC), `score` | called by every request thread and by the consumer thread, without a lock; Redis expires and evicts keys |
| Offline replay (`training/train.py`) | two dictionaries in memory | `build_feature_matrix` | calls the same `compute_features` |
| Scoring API (`api/main.py`, `api/db.py`) | the pool, the loaded scorer, the consumer thread and its stop event, counters | lifespan start and stop, `POST /score`, `/stats`, `/health`, `/monitoring` | feature store, Postgres, the monitor's files |
| Stream consumer (`scorer/stream_consumer.py`) | its position in the topic; the group's committed offset, on the broker | `_connect` (30 attempts), poll, handle a record, close | Kafka, feature store, Postgres |
| Drift monitor (`monitor/main.py`, `monitor/alerting.py`) | count and flag, in memory and in `drift_state.json`; `latest.html`, `latest.json` | `run_once`, `DriftTrigger.observe`, `_save`, `_load`, `send_slack` | Postgres, Slack, the API through files |
| Connection pool and health (`api/db.py`, `api/main.py`) | psycopg2's `SimpleConnectionPool` | `getconn`, `putconn`, `ping`, `_health_payload` | Postgres |
| Authentication and rate limit (`api/security.py`) | one counter per key and minute in Redis | `require_api_key`, `RateLimiter.check` | Redis |
| Model lifecycle (`training/train.py`, `common/registry.py`, `scripts/promote_model.py`) | model file, drift reference, registry stages | train, register, promote, load at start | scorer and monitor, which load once |
| Producer, data generation, estimators, schemas, metrics | — | — | — |

### What is hard

- **Concurrency without locks.** `score()` reads the history, computes for a
  while, and records the transaction. Any number of these overlap for one user.
- **Two-step reads.** The history is read with two commands, between which
  another thread updates it or Redis drops a key.
- **Delivery.** Offsets are committed on a timer from inside `poll()`; the
  process, the broker and the two stores fail independently; a call may fail
  after it took effect; shutdown waits five seconds for the consumer and then
  closes the pool under it.
- **Restart of the monitor.** The trigger moves in memory, then on disk, then the
  page is sent, then the report is written; death or a failed write between
  any two of them must not page twice, page early, or stay silent.
- **A pool without a lock.** `SimpleConnectionPool` is made for one thread; up to
  forty request threads and the consumer call it at once, and its `putconn`
  may raise in the `finally` clause that was to give the connection back.
- **Files and services that load once.** Training writes two files in place;
  the scorer and the monitor each read one of them, at their own start; the
  registry may serve something else altogether.
- **Clocks.** The limiter reads the clock, talks to Redis, and reads the clock
  again, with a minute's boundary anywhere in between.
- **Retries.** A client or the group submits a transaction again; nothing in the
  history knows that it has seen it.

`PROJECT.json` lists each hazard with its line and the properties aimed at it.

### What makes each component correct

- *Feature store*: it is the trainer's replay (same history, same order, same
  truncation); a score sees only earlier transactions; what a score reads fits
  together; keys lapse together.
- *Scoring service*: nothing is committed that was not handled; nothing is
  handled twice without cause; every row and every lost row is accounted for;
  what is published is eventually handled.
- *Drift monitor*: a page needs its streak, episodes alternate, the published
  summary agrees with the trigger, sustained drift is alerted.
- *Pool*: no connection in two threads' hands, none handed out dirty, no session
  left behind, no more than `maxconn` and no slot lost as far as the pool
  promises that, and an insert that returns has its row.
- *Rate limiter*: at most `limit` per window and key over all replicas while its
  bucket lives; nobody is
  refused within that; counters expire; who waits as told gets a new window.
- *Model lifecycle*: what is served has passed the gates or was forced, the
  version promoted last is the one the next start loads, training changes
  nothing that is served, and the monitor's reference is that of the served model.

## 2. Modules

| Module | What it is |
| --- | --- |
| `Features` | `common/features.py`: the windows of `compute_features` as a function of history and transaction. No state. |
| `RollingHistory` | **Abstract specification**: the trainer's replay, one transaction per step, plus the forgetting a cache is allowed. |
| `FeatureStore` | `score()` over Redis, one step per Redis call, on several threads. Implements `RollingHistory`. |
| `TopicDelivery` | **Abstract specification**: what the stream path promises about the topic: order, no gap, commits that only grow and cover what is done. |
| `ScoringService` | The scorer process: request threads, consumer thread, process life, broker, the two stores. Implements `TopicDelivery`. |
| `RowStore` | **Abstract specification**: what a caller of `api/db.py` may rely on. `ScoringService` takes inserts for exactly this. |
| `ConnectionPool` | `api/db.py` over psycopg2's unlocked pool, and what `/health` makes of it. Implements `RowStore`. |
| `DriftMonitor` | `run_once` and `DriftTrigger`. |
| `RateLimiter` | `require_api_key` and `RateLimiter.check`. |
| `ModelLifecycle` | `train.py`'s files and registrations, `promote_model.py`, `load_bundle`, and what the two services hold. |
| `FeatureStoreProofs`, `ScoringServiceProofs`, `DriftMonitorProofs`, `RateLimiterProofs`, `ModelLifecycleProofs`, `ConnectionPoolProofs` | Theorems and their proofs. |
| `MC*` | The instances TLC checks. |

Operators introduced by a comment "Mutant of ..." are not part of any
specification. They are plausible bugs; each property of a passing run fails
when one of them takes the place of the definition it is a mutant of.

### FeatureStore

| Model | Code |
| --- | --- |
| `amounts[u]`, newest first | `user:<u>:amounts` |
| `devices[u]` | `user:<u>:devices` |
| `amountsTtl`, `devicesTtl`, `Tick` | `EXPIRE` (redis_store.py:42-43) and the passing of time |
| `pc`, `cur`, `seenAmounts`, `seenDevices` | a thread's progress in `score()` and what it has read |
| `ReadAmounts` | `get_history`: `LRANGE`, reversed to oldest first |
| `ReadDevices` | `get_history`: `SMEMBERS`; features and scores follow, without touching shared state |
| `Update` | `update`: `LPUSH`, `LTRIM`, `SADD`, `EXPIRE`, `EXPIRE`, atomic because the pipeline is a MULTI/EXEC transaction |
| `ScoreRaises` | any exception out of `score()` before EXEC |
| `EvictAmounts`, `EvictDevices` | `allkeys-lru` (docker-compose.yml:42) |

An amount is represented by the transaction that carries it. A mean or a
deviation is represented by the list it is taken over, so two feature vectors
are equal in the model when all their statistics range over the same amounts.
`recorded` (the transactions some update of which took effect), `uncovered` and
`interference` are history variables and guard nothing.

### ScoringService

| Model | Code |
| --- | --- |
| `kafkaUp`, `published`, `committed` | the broker, the topic (one partition), the offset of group `stream-scorer` |
| `proc` | lifespan (api/main.py:26-46): `up`, `stopping` once `stop_event` is set, `closed` once the pool is |
| `cons`, `tries`, `position`, `next` | the consumer thread in `_connect` and `run_stream_consumer` |
| `http`, `httpTx`, `answer` | a request thread in `score` |
| `counted` | the counters raised for the actor's current transaction |
| `recorded`, `rows` | transactions in the Redis history, in `scored_transactions` |
| `Poll(commits, n)` | `poll()`: perhaps the timed commit of the *old* position, then `n` records |
| `ConsumerScores`, `ConsumerScoreRaises`, `ConsumerInserts`, `ConsumerInsertRaises` | lines 46-66, each outcome of the two calls; a call that raises may have taken effect |
| `ConsumerStops`, `PollRaises`, `LosesGroup` | the `finally` clause after `stop_event`, after an exception, and a rebalance |
| `ClosePool`, `Exit` | `join(timeout=5)` returns whether or not the thread has ended; a daemon thread goes with the process |
| `Crash`, `Start` | `restart: unless-stopped` |

A call to `score()` is one step here; its inside is `FeatureStore`. After
`ClosePool` every insert raises. `insert_score` ignores a row that exists, so
`rows` is a set. `handled`, `skipped` and `unsaved` are history variables; `unsaved`
holds the handled records whose position was given up without being committed, until
they are handled again or a later join begins above them.
`TopicDelivery` has four of these variables, `published`, `committed`, `handled` and
`skipped`, under the same names: `NextRecord` is its `Handle`, a commit by `Poll` or
`LeaveGroup` its `CommitUpTo`, a `Join` without a committed offset its `SkipToEnd`.

### ConnectionPool

| Model | Code |
| --- | --- |
| `up`, `live`, `rows` | Postgres: whether it answers, the sessions it has, `scored_transactions` |
| `idle`, `keyed` | the pool's `_pool` (idle connections), `_rused` (connection to key) |
| `lost`, `UsedCount` | entries of `_used` whose call has ended; `len(_used)` |
| `status` | what a connection object believes of itself; it learns of the end of its session only by using it |
| `pc`, `conn`, `tx`, `answer` | a thread in `ping`, `stats_last` (both `Read`) or `insert_score` |
| `Take`, `Exhausted`, `MustConnect` | `getconn`: an idle connection, `PoolError`, or room for another |
| `Connect`, `ConnectFails`, `Register` | `psycopg2.connect`, and the entries made after it |
| `Execute`, `StatementFails`, `SessionIsGone`, `Commit`, `CommitUnanswered` | the `try` bodies (db.py:27-30, 39-54, 61-77), each outcome of each round trip; a Postgres that runs may refuse a connection (`ConnectFails`) and a statement, a SELECT as well as an INSERT |
| `Asks` | what each thread calls; the consumer thread calls `insert_score` only |
| `Keep`, `PutBack`, `Discard`, `Close`, `Forget` | `putconn` in the `finally` clauses: the test of `minconn`, the rollback and the append, the close, and the deletion of the entries |
| `Unkeyed`, `RollbackFails` | `putconn` raising |
| `HealthCode` | `/health`: `ping()` is False for a `psycopg2.Error`; anything else is a 500 |
| `PostgresStops`, `PostgresStarts` | a restart of the database |

The pool's list holds connections that are all alike to the code, so `idle` is a
set. `Conns` bounds the connection *objects*; one nobody refers to any more is used
again for the next connection. `wasDown` and `overlapped` are history variables: the
properties that psycopg2 promises to a single thread only are stated for the time in
which no two threads have been inside the pool at once, the others for all. Both
are taken back when a call begins and nothing is left of an outage or an overlap
(`AtRest`: no call under way, no lost slot, no more idle connections than
`maxconn`, each with its session), so the properties speak again of what follows.

### DriftMonitor

| Model | Code |
| --- | --- |
| `consecutive`, `alerted` | `DriftTrigger` in memory |
| `disk` | `drift_state.json`; `os.replace` makes its update one step |
| `recommended` | `retrain_recommended` in `latest.json` |
| `html` | what `latest.html` was made of |
| `changed`, `RowsArrive` | `fetch_recent`'s rows are other than in the last report: transactions were scored, or the monitor started and read the reference again |
| `Report(r)` | `run_once` up to the summary; `r` is what Evidently says, drawn from `Reports`, and says again of the same rows and reference |
| `Observe`, `ObserveRaises` | `observe`, with `_save` succeeding or raising |
| `Tell(delivered)` | `send_slack`, whose result nobody reads |
| `WriteReport` | `latest.json` replaced |
| `RunRaises` | anything that raises after the save; `main` logs it and goes on |
| `Stop`, `Start` | death at any step, or the shutdown flag; the next `DriftTrigger()` loads the file |

The code's count is unbounded. The model stops counting at `MaxConsecutive`,
any value at or above `RequiredWindows`: decisions only compare the count with
`RequiredWindows`, so no behaviour is lost. A quiet window (fewer than 30 rows)
and anything that raises before `observe` change no state, and need no action.
`streak`, `samples`, `columnStreak`, `episode`, `paged`, `stateLost` and
`brokenOff` are history variables. `stateLost` is set by a death that takes a state
that could not be saved with it, and taken back by the next clear window, from which
the trigger begins anew.

### RateLimiter

| Model | Code |
| --- | --- |
| `now`, `Tick` | `time.time()` in ticks finer than the seconds that `int()` cuts it to; Redis deletes what has expired |
| `count[k][w]`, `expiry[k][w]` | `ratelimit:<k>:<w>` and its `EXPIRE` |
| `pc`, `key`, `window` | a request thread in `check`, on any replica |
| `Arrive` | a valid key; line 70 computes the window |
| `Count` | lines 73-76, a MULTI/EXEC transaction, and the verdict of line 83 |
| `Evict` | `allkeys-lru`: the buckets share their Redis with the user histories (docker-compose.yml:38-42) |
| `FailOpen` | `redis.RedisError`, before or after the transaction took effect |
| `Refuse` | 429 with `Retry-After`, from a second reading of the clock |

A request with a wrong key is refused before any of this and has no action; a
limit of zero or less switches the limiter off. `sent`, `admitted`, `opened` and
`evicted` are history variables; `sent` also carries the bound on requests.

### ModelLifecycle

| Model | Code |
| --- | --- |
| `trainer`, `trained` | one run of `train.py` at a time, and how many there have been |
| `bundle`, `reference` | `model.joblib`, `reference.csv`: absent, torn (opened and not yet written), or the number of the training that wrote them |
| `registry` | the registered versions in order, each with its stage and whether its metrics pass |
| `BeginBundle`, `SaveBundle`, `BeginReference`, `SaveReference` | `joblib.dump` (line 129) and `to_csv` (line 141), which both write in place |
| `Register`, `FinishUnregistered`, `TrainerDies` | the end of `main`, with and without `--register`; death between the writes |
| `Promote(v, stage, force, keep)` | `promote_model.py`: gates, then `transition_model_version_stage` |
| `StartsFromFile`, `StartsFromRegistry` | `FraudScorer.__init__` through `load_bundle`, without and with `MLFLOW_TRACKING_URI` |
| `MonitorStarts` | monitor/main.py:100; `read_csv` also accepts a file cut short |

MLflow is modelled from the calls the code makes: a new version has no stage, a
transition archives the others at its stage if asked to, `get_latest_versions`
returns the highest version at a stage, and archiving others is refused when the
target stage is `Archived`. A promotion that is refused changes nothing and has
no action. `forced`, `asked`, `current` and `halved` are history variables.

## 3. What the runs check

| Run | Expected | What it shows |
| --- | --- | --- |
| `feature_store` | pass | `NotInOwnHistory`, `ReadsFitTogether`, `KeysExpireTogether`, `UnracedMatchesReplay`, and the refinement `ImplementsReplay` |
| `scoring_service` | pass | `CommittedWereHandled`, `RedeliveredOnlyAfterUnsaved`, `RowsWereRecorded`, `LostHttpRowsAreCounted`, `StreamLossIsAnError`, the liveness property `PublishedIsHandled`, and the refinement `ImplementsTopicDelivery` |
| `drift_monitor` | pass | `FlagFollowsCount`, `AlertsNeedAStreak`, `StreaksAreAlerted`, `AlertsAlternate`, `ReportFollowsTrigger`, and the liveness property `SustainedDriftAlerts` |
| `connection_pool` | pass | `Exclusive`, `IdleIsClean`, `NoOrphanSessions`, `WithinMaxConn`, `SlotsAreKept`, `HealthFailsForCause`, `CommittedIsReported`, and the refinement `ImplementsRowStore` |
| `rate_limiter` | pass | `WindowLimit`, `RefusedOnlyBeyondLimit`, `BucketsLapse`, `RetryAfterSuffices` |
| `model_lifecycle` | pass | `ServedWasPromoted`, `RollbackServes`, `PairedWhenFresh`, `TrainingIsInert` |
| `stale_reference` | violation | train.py:122-125 on the drift reference: with the registry, the monitor compares the served model with the reference of the last training |
| `concurrent_scores` | violation | redis_store.py:3-4 "online features match training features exactly": not for two overlapping scores of one user |
| `busy_health` | violation | README.md:198-201 "503 ... when Redis or Postgres is unreachable": also when the pool is exhausted |
| `same_sample` | violation | alerting.py:3-10 on consecutive windows: without traffic they are the same rows |
| `lost_page` | violation | README.md:307-308 "pages once": a page whose delivery fails, though the alert was saved, is not sent at all. One required window, so that the trace is the page and nothing else; a run that breaks off in `_save` is exempt |
| `wrong_field` | violation | RUNBOOK.md:109-110 on `drift_share`: the field read is Evidently's own threshold |

Each violation run checks one statement of a document or a comment, and
`PROJECT.json` gives the quotation and what happens instead. The passing runs
hold the corresponding statement in the form in which it is true:
`concurrent_scores` beside `UnracedMatchesReplay` and `ImplementsReplay` (no
update is lost or misplaced, even when scores race), `busy_health` beside
`HealthFailsForCause` and the theorem `EnoughConnections` (an exhausted pool is the only cause
beside a race and a Postgres that stops or refuses, and cannot occur with a connection for
every thread), `wrong_field` beside the theorem `RightFieldWouldDo` (with the other field the
documented meaning holds), `same_sample` and `lost_page` beside
`AlertsNeedAStreak` and `AlertsAlternate`, `stale_reference` beside
`PairedWhenFresh` (without the registry, fresh services do belong together).

Also met while reading, and not the subject of a run: RUNBOOK.md's "Redis is
down" says that the feature store then returns an empty history and quietly
scores on it. `get_history` raises instead: `POST /score` answers 500
(`HttpScoreRaises`), the stream counts an error (`ConsumerScoreRaises`). The
gauge `fraud_drift_share` (metrics.py:51-54) is never set. README.md:64-65 says that
"a transaction never sees itself"; one that is submitted again after it was recorded
does, as nothing in the history knows it (`NotInOwnHistory` is about what is not
recorded yet, first try or not).
metrics.py:33-37 says that `fraud_db_insert_failures_total` counts the "score rows
that could not be persisted"; the stream path's are counted as errors instead
(`StreamLossIsAnError`). README.md:381-382 says that "a scorer restart drops messages
published while it was down"; from the group's first commit on, it resumes there
(`Join`). README.md:201 says of `kafka_connected` that the broker is reachable; it
is that the consumer thread is alive (main.py:105). promote_model.py:84-85
keeps the gates away from `--stage Archived` so that a bad model can always be
retired, but lines 98-103 then ask MLflow to archive what else is at that stage,
which it refuses for a stage that is not Staging or Production: retiring works
only with `--keep-existing` (`Promote`'s second conjunct). Without the registry,
`/health` and `fraud_model_info` name every model alike (registry.py:54:
`MODEL_VERSION` and the path), though RUNBOOK.md:52-54 calls that the loaded
model's identity.

### Instances and why they are large enough

- `feature_store` (101 621 states): two threads, two transactions of one user
  paid from two devices, either of which may be submitted any number of times,
  a second user whom nobody pays for, `HistoryLen` 2, a TTL of two ticks. Two
  threads already give every order of the four Redis calls of a race; the third
  push overflows the list; two ticks let a key outlive a step and still expire
  under a thread that has read it. No symmetry: the transactions differ in
  device, and the run is small without it.
- `scoring_service` (188 348 states): one request thread, a topic of two records,
  polls of up to two, two connection attempts. A batch of two can be cut by a
  crash after its first record, committed in part by a rebalance, and
  redelivered in whole or in part; the process may restart any number of times.
  One request thread is enough because request threads share only the sets
  `recorded` and `rows`, which they add to. No symmetry, as the run checks
  liveness.
- `drift_monitor` (6 810 states): two required windows, a count of up to four, and
  reports below, at and above the threshold and without a share. Four is two
  past the last count a decision tells apart. Rows arrive between two windows
  or do not.
- `connection_pool` (843 888 states): three threads, one that reads and two that insert,
  one transaction that either may insert, a pool that keeps one connection and opens
  at most two. The third caller finds it exhausted, two overlapping calls exceed what
  is kept, and three reach the races: two of them inside the pool while the third holds
  what one of them has just put back. One thread that reads is enough for
  `HealthFailsForCause`, which counts the other calls whatever they do, and to the
  pool a SELECT is an INSERT without a commit; the theorems hold for threads that call
  anything. Three connection objects, so that a lost slot and two live sessions exist
  at once. The two inserting threads and the connections are symmetric: the run checks no
  liveness, and `NoConn`, `Read` and the reading thread are apart.
- `rate_limiter` (959 577 states): two threads, two keys, three requests, a limit
  of one. Two requests of one key compete for its only place, the third follows
  in the same window or the next, or comes from the other key. A minute of two
  seconds of two ticks has moments off the whole second; twelve ticks let a
  request that read its window last be counted after that bucket has expired.
  Any bucket may be evicted at any time. Threads and keys are symmetric: the run
  checks no liveness, and nothing tells one of them from another.
- `model_lifecycle` (93 645 states): three trainings, hence up to three versions:
  one serving, one to replace it, and one beside them. Commands, starts and
  stops are not bounded.
- Bounds: `MaxTime`, `MaxRequests` and `MaxTrainings` bound the clock, the requests
  and the trainings; `MaxPublished` bounds the topic, `TtlSec` and `HistoryLen` are small
  values of the code's settings, `MaxConsecutive` is explained above. The
  processes, restarts, failures and retries are not bounded. Deadlock is
  checked except where these bounds end a behaviour: in `rate_limiter`, when the
  clock has run out, and in `model_lifecycle` and `stale_reference`, when the last
  training has died before there was anything to load.

### Fairness

- `ScoringService`: weak fairness of connecting, joining, fetching a record that
  is there and handling the current record. The consumer thread is an ordinary
  thread of a live process, and each of its calls returns or raises (the broker
  and the stores time out). No fairness for publishing, for failures, for
  restarts, nor for the *successful* outcome of a call. `PublishedIsHandled`
  assumes what no scheduling gives: that from some time on the process and the
  broker stay up and the group is stable. It still allows the thread to have
  died, because `_connect` gives up and an exception out of `poll()` ends it;
  nothing restarts it while the process lives.
- `DriftMonitor`: weak fairness of `Start` (compose restarts the service) and of
  `send_slack` returning (it has a timeout of ten seconds), strong fairness of
  `Report`, `Observe` and `WriteReport`: the process may die or a write may fail
  again and again, but not always at the same line. Fairness of `Report` also
  says that windows keep coming: `fetch_recent` takes the latest rows of a table
  nobody deletes from, so every run has its 30 rows once the first 30 exist.
  `SustainedDriftAlerts` thus
  speaks of a monitor that crash-loops for ever and still gets through each
  stage now and then, which is what alerting.py:38-40 is about.
- `FeatureStore`, `ConnectionPool`, `RateLimiter` and `ModelLifecycle` state no liveness: a score, a
  query and a check return or raise, and nobody has to train, promote or restart.

## 4. What is proved

For every value of the constants under the named assumptions (`TxAssumption`,
`LengthAssumption`, `StoreAssumption`, `ServiceAssumption`,
`MonitorAssumption`, `LimiterAssumption`, `TrainingAssumption`, `PoolAssumption`: any sets of threads, users, transactions and devices, any
history length with windows no longer than it, any batch size, any threshold
and number of required windows, reports whose missing share is not a number, any limit, length of the minute and bucket life
of at least two minutes, any number of trainings, any finite set of connections,
any `minconn <= maxconn`, and any calls of any thread), every safety property of the six passing runs is a theorem:

| Theorem | Property | Argument |
| --- | --- | --- |
| `FeatureStoreProofs!TypeCorrect` | `TypeOK` | per action; `PushTrim` keeps a list within `HistoryLen` (`PushTrimProperties`) |
| `ExpiryCorrect` | `KeysExpireTogether` | inductive as it stands, given types |
| `ReadsCorrect` | `ReadsFitTogether` | `FitInv`: the device set of every user accounts for that user's amounts unless its key was evicted under them (`uncovered`), and so does the set a reader will read or has read, unless a key was dropped meanwhile. Needed because between the two reads the invariant must be carried by the store |
| `NeverInOwnHistory` | `NotInOwnHistory` | `FreshInv`: everything in any list, and in what any thread has read of one, was recorded by an update that took effect |
| `TrainServeParity` | `UnracedMatchesReplay` | `Undisturbed`: as long as nothing interfered, what a thread has read is what the store holds |
| `StoreImplementsReplay` | `ImplementsReplay` | refinement mapping: the list reversed, the set itself. `Update` maps to `Replay`, `Tick` and the evictions to `Forget`, the rest to stuttering |
| `FeaturesSurviveTrimming` | — | no window is longer than the history, so truncation changes no feature |
| `ScoringServiceProofs!TypeCorrect` | `TypeOK` | with `ThreadInv`: inside a batch, `next` lies below `position` |
| `AtLeastOnce` | `CommittedWereHandled` | `DeliveryInv`: between batches everything below `position` was handled or skipped, inside one everything below `next`; a commit takes place only between batches |
| `CleanStopsRepeatNothing` | `RedeliveredOnlyAfterUnsaved` | `ProgressInv`: what was handled is in `unsaved`, or lies below the current record, the position, or the committed offset |
| `RowsAreRecorded` | `RowsWereRecorded` | `RecordInv`: a transaction about to be inserted has been recorded |
| `HttpLossIsCounted` | `LostHttpRowsAreCounted` | `AnswerInv`, per request thread |
| `StreamLossIsCounted` | `StreamLossIsAnError` | per action; only the outcomes of a record finish it |
| `ServiceImplementsTopicDelivery` | `ImplementsTopicDelivery` | refinement, the variables mapped to themselves. `CommitInv`: what the current batch holds lies at or above the committed offset, so `NextRecord` maps to a `Handle` that is allowed; `DeliveryInv` gives that nothing below it is open |
| `ConsumerIsNeverStuck` | — | `NeverStuck`: in a serving process a living consumer thread with a record left to handle may connect, join, fetch or handle. With the fairness of these steps it is what `PublishedIsHandled` rests on |
| `DriftMonitorProofs!TypeCorrect` | `TypeOK` | per action |
| `FlagIsTheCount` | `FlagFollowsCount` | inductive over memory and disk together: `observe` re-establishes it, a save copies it, a start copies it back |
| `PagesNeedAStreak`, `PagesAlternate` | `AlertsNeedAStreak`, `AlertsAlternate` | `PageInv`: unless a state was lost unsaved since the last clear window, the trigger, in memory or on disk while the process is down, tells the truth about the windows observed and the episode; a clear window sets both to zero |
| `CompletedStreaksAlert` | `StreaksAreAlerted` | from `PageInv` and `FlagFollowsCount`: what a restart loads counts the whole streak, and the flag follows the count |
| `RightFieldWouldDo` | — | assumes that every report's `drift_share` is its share of drifted columns; then the streak of drifted windows and that of drifted columns are one, and `AlertsMeanDriftedColumns`, refuted by `wrong_field`, follows from `PagesNeedAStreak` |
| `ReportsAgree` | `ReportFollowsTrigger` | `ReportInv`: from the save to the end of the run the file equals memory |
| `RateLimiterProofs!TypeCorrect` | `TypeOK` | with `Division` and `Quotient`: the window of a moment within the bound exists |
| `LimitHolds` | `WindowLimit` | `CountersHold`: a bucket expires two minutes after its window began or later, because it was counted in then or later (`Begun`), and until then, or until it is evicted, its counter is at least the number let through |
| `RefusalsAreDue` | `RefusedOnlyBeyondLimit` | `AllowanceUsed`: a counter is at most the number let through, or `Limit` have been let through; Redis failing after it counted is why `opened` belongs to the sum |
| `BucketsExpire` | `BucketsLapse` | per step of a bucket (`BucketStep`) |
| `RetryAfterIsEnough` | `RetryAfterSuffices` | `ResetReachesNextWindow`: whole seconds lost in cutting never shorten the wait below the boundary; and `Begun` |
| `ModelLifecycleProofs!TypeCorrect` | `TypeOK` | `Typed`: a training at work has a number; `LatestIsThere`: a stage that is not empty has a latest version |
| `NothingServedUndecided` | `ServedWasPromoted` | `Decided`: every version at Staging or Production passed or was forced; metrics and decisions are never taken back |
| `RollbackIsEffective` | `RollbackServes` | `Exclusive`: a version asked for alone is alone at Production |
| `TrainingChangesNothingServed` | `TrainingIsInert` | `RegisterProperties`: a new version has no stage and moves no other |
| `FreshServicesPair` | `PairedWhenFresh` | `FilesAgree`: a current service holds its file, and the files agree unless a training is at work or broke off |
| `ConnectionPoolProofs!TypeCorrect` | `TypeOK` | per action |
| `ConnectionsAreExclusive` | `Exclusive` | `Apart`: hands, list and lost slots are disjoint; `Take` moves a connection, `PutBack` and `Close` give it up before they forget it, and `Free` keeps a new one out of all three |
| `IdleConnectionsAreClean`, `SessionsAreAccountedFor` | `IdleIsClean`, `NoOrphanSessions` | per action, from `Apart`: only a thread that holds a connection changes its status |
| `PoolImplementsRowStore` | `ImplementsRowStore` | `Answered`: a call that will answer "ok" has its row; the steps inside the pool map to stuttering, a commit to `Write`, leaving to `Answer` |
| `PoolIsBounded`, `SlotsLeakOnlyUnderFailure`, `CommitsAreReported` | `WithinMaxConn`, `SlotsAreKept`, `CommittedIsReported` | `InTurn`: until two threads overlap, at most one is inside the pool, what is registered has its key, and a connection belongs to one thread, forgetting ones included; `Bounded` counts sessions by slots. At rest all of it holds again (`RestIsInTurn`, `RestIsBounded`, `BeginsSound`), which is why the flags may be taken back there |
| `FailedHealthHasACause` | `HealthFailsForCause` | `SlotsAreKept` and `InTurn`: without a lost slot each registered connection is in one call's hands, so `PoolError` counts `MaxConn` other calls; `SessionsExist` and `Open`: until Postgres stops, no connection in use is without its session, so only a refusal fails a statement |
| `EnoughConnections` | — | assumes no more threads than `MaxConn`; then too few others are left for that count, and a ping fails only of a Postgres that stopped or refuses, as the statement refuted by `busy_health` has it, as long as the pool is used in turn |

Only model-checked: the two liveness properties, `PublishedIsHandled` and
`SustainedDriftAlerts` (they need fairness and `ENABLED`, which the prover does not
handle). What they need of the reachable states is proved: a consumer that
has work can go on (`ConsumerIsNeverStuck`), and a streak that was completed has its
alert (`CompletedStreaksAlert`). `RightFieldWouldDo` and `EnoughConnections` have a
hypothesis that the run of the same name does not meet; that is their point: they
say which one thing would make the refuted statement true.

## 5. What is not modelled, and why

- `GET /monitoring` and `GET /metrics`: they read files and counters and change
  nothing. The Redis half of `/health` is a `PING` without state.
- Inside the pool: `_getkey`'s counter gives unique keys (one bytecode under the
  GIL), and the two entries made by `Register` and deleted by `Forget` are taken as one
  step; threads change places at calls into Postgres and between the pool's
  tests and what follows them. The monitor's own pool is used by one thread.
- A restart of the scorer begins with a new pool (`Init`); `close_pool` under a
  consumer still at work is `ClosePool` in `ScoringService`.
- Two trainings at once: `make train` is run by hand, one at a time.
- The clocks of replicas: taken as one; the limiter computes windows from each
  replica's own clock, and a skew shifts which bucket a request counts in.
- The arithmetic of the ensemble, of SHAP and of the statistics: floating point of
  third-party code, without state. `features_to_vector` and the per-transaction
  features (`amount`, `hour`, ...) do not depend on the history.
- Partitions: the topic has one in the compose stack. With several, each behaves
  as modelled, and records of one user share a partition by their key.
- Records that are not JSON objects: the only producer sends none.
- A Redis that dies and comes back with an older snapshot: keys are lost one by one
  (expiry, eviction), not taken back to earlier values.
- Loss of power: `os.replace` without `fsync` is taken as atomic and durable, as
  it is for the death of a process.
- Synthetic data, notebooks, load test, CI, schemas, the second monitoring backend:
  no behaviour of their own.

## 6. Plan

Done, in this order: `Features`, `RollingHistory`, `FeatureStore`,
`ScoringService`, `DriftMonitor`, `RateLimiter`, `ModelLifecycle`, `RowStore`,
`ConnectionPool`, `TopicDelivery`, and their proofs. Next:

1. Composition: `ScoringService` with `FeatureStore`'s steps in place of the single
   step of `score()`, so that the redelivery of a record and the concurrent HTTP
   score of the same user meet in one behaviour.
2. Windows of `DriftMonitor` drawn from the rows of `ScoringService`, and its
   reference from `ModelLifecycle`: what a drifted window says about the model
   that is served while scores of two models share a window.
3. An abstract limiter (so many per key and window, with failures) for
   `RateLimiter` to implement, and the sliding bound it gives: at most twice the
   limit in any minute.
