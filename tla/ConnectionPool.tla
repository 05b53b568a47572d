--------------------------- MODULE ConnectionPool ---------------------------
(***************************************************************************)
(* api/db.py over psycopg2's SimpleConnectionPool, which takes no lock,    *)
(* called by FastAPI's request threads and the consumer thread at once.    *)
(*                                                                         *)
(* getconn and putconn are modelled from psycopg2 2.9.  Threads change     *)
(* places at a call: at every round trip to Postgres, and between what the *)
(* pool tests and what it then does.  Each step ends at such a point.      *)
(* Postgres may stop at any time, taking every session with it; a client's *)
(* connection object notices only when it is used.                         *)
(***************************************************************************)
EXTENDS Integers, FiniteSets

CONSTANTS
    Threads,    \* request threads and the consumer thread
    Tx,         \* transactions to insert
    Read,       \* a call that only reads: ping, stats_last
    Asks,       \* what each thread calls: the consumer thread only inserts
    Conns,      \* bound: connection objects, reused once nobody refers to one
    NoConn,     \* a thread without a connection
    MinConn,    \* minconn: how many idle connections are kept
    MaxConn     \* maxconn

ASSUME PoolAssumption ==
    /\ Read \notin Tx
    /\ Asks \in [Threads -> SUBSET (Tx \union {Read})]
    /\ NoConn \notin Conns
    /\ MinConn \in Nat /\ MaxConn \in Nat /\ MinConn <= MaxConn
    /\ IsFiniteSet(Threads) /\ IsFiniteSet(Conns)

VARIABLES
    \* Postgres:
    up,      \* it answers
    live,    \* the connections whose session exists on the server
    rows,    \* the transactions in scored_transactions
    \* The pool:
    idle,    \* _pool
    keyed,   \* the connections _rused has a key for
    lost,    \* the connections of entries of _used whose call has ended
    status,  \* of each connection object: "idle", "intrans" or "closed"
    \* The threads:
    pc, conn, tx,
    answer,  \* of a thread's call: "none" until its body has ended
    \* History variables:
    wasDown,    \* since the pool was last at rest: Postgres has stopped
    overlapped  \* the same: two threads have been inside the pool at once

server == <<up, live, wasDown>>
pool == <<idle, keyed, lost>>
calls == <<pc, conn, tx, answer, overlapped>>
vars == <<server, rows, pool, status, calls>>

\* Inside getconn or putconn.
Inside == {"connecting", "taken", "putting", "keeping", "discarding", "forgetting"}

\* With an entry in _used.
Registered == {"working", "executed", "putting", "keeping", "discarding", "forgetting"}

\* With a connection that is this thread's to use.
Holding == {"taken", "working", "executed", "putting", "keeping", "discarding"}

\* len(_used)
UsedCount == Cardinality({t \in Threads : pc[t] \in Registered}) + Cardinality(lost)

\* Nobody refers to the object any more.
Free(c) == c \notin idle \union lost \union {conn[t] : t \in Threads}

\* No call is under way, and nothing is left of earlier outages or overlaps: no lost
\* slot, no idle connection too many or without its session.
AtRest ==
    /\ \A t \in Threads : pc[t] = "idle"
    /\ lost = {} /\ Cardinality(idle) <= MaxConn
    /\ up /\ idle \subseteq live

\* Two threads are inside the pool once t is at p, or have been since it was at rest.
Overlaps(t, p) ==
    \/ overlapped /\ ~AtRest
    \/ p \in Inside /\ \E u \in Threads \ {t} : pc[u] \in Inside

\* Thread t goes on to p.
Goes(t, p) ==
    /\ pc' = [pc EXCEPT ![t] = p]
    /\ overlapped' = Overlaps(t, p)

Begins(t, x, a) ==
    /\ pc[t] = "idle"
    /\ tx' = [tx EXCEPT ![t] = x]
    /\ answer' = [answer EXCEPT ![t] = a]
    /\ wasDown' = (wasDown /\ ~AtRest)

\* The call is over.
Leaves(t) == Goes(t, "idle") /\ conn' = [conn EXCEPT ![t] = NoConn]

Result(t, a) == answer' = [answer EXCEPT ![t] = a]

SetStatus(t, s) == status' = [status EXCEPT ![conn[t]] = s]

-----------------------------------------------------------------------------
(* init_pool *)

Init ==
    /\ up = TRUE /\ rows = {}
    /\ idle \in {first \in SUBSET Conns : Cardinality(first) = MinConn}
    /\ live = idle
    /\ keyed = {} /\ lost = {}
    /\ status = [c \in Conns |-> IF c \in idle THEN "idle" ELSE "closed"]
    /\ pc = [t \in Threads |-> "idle"]
    /\ conn = [t \in Threads |-> NoConn]
    /\ tx = [t \in Threads |-> Read]
    /\ answer = [t \in Threads |-> "ok"]
    /\ wasDown = FALSE /\ overlapped = FALSE

(* getconn *)

\* Mutant of Take: the connection stays in the list.
TakeShared(t, x, c) ==
    /\ Begins(t, x, "none") /\ Goes(t, "taken")
    /\ c \in idle
    /\ conn' = [conn EXCEPT ![t] = c]
    /\ UNCHANGED <<up, live, rows, pool, status>>

\* An idle connection is popped.
Take(t, x, c) ==
    /\ Begins(t, x, "none") /\ Goes(t, "taken")
    /\ c \in idle
    /\ idle' = idle \ {c}
    /\ conn' = [conn EXCEPT ![t] = c]
    /\ UNCHANGED <<up, live, rows, keyed, lost, status>>

\* "connection pool exhausted"
Exhausted(t, x) ==
    /\ Begins(t, x, "PoolError")
    /\ idle = {} /\ UsedCount = MaxConn
    /\ UNCHANGED <<up, live, rows, pool, status, pc, conn, overlapped>>

\* Mutant of MustConnect: one more than maxconn.
MustConnectLate(t, x) ==
    /\ Begins(t, x, "none") /\ Goes(t, "connecting")
    /\ idle = {} /\ UsedCount # MaxConn + 1
    /\ UNCHANGED <<up, live, rows, pool, status, conn>>

\* There is room: psycopg2.connect is called.
MustConnect(t, x) ==
    /\ Begins(t, x, "none") /\ Goes(t, "connecting")
    /\ idle = {} /\ UsedCount # MaxConn
    /\ UNCHANGED <<up, live, rows, pool, status, conn>>

Connect(t, c) ==
    /\ pc[t] = "connecting" /\ up
    /\ Free(c)
    /\ Goes(t, "taken")
    /\ conn' = [conn EXCEPT ![t] = c]
    /\ live' = live \union {c}
    /\ status' = [status EXCEPT ![c] = "idle"]
    /\ UNCHANGED <<up, wasDown, rows, pool, tx, answer>>

\* Mutant of ConnectFails: getconn returns nothing.
ConnectReturnsNone(t) ==
    /\ pc[t] = "connecting"
    /\ Goes(t, "taken")
    /\ UNCHANGED <<server, rows, pool, status, conn, tx, answer>>

\* Postgres is down, or refuses (it has too many clients, say).
ConnectFails(t) ==
    /\ pc[t] = "connecting"
    /\ Goes(t, "idle") /\ Result(t, "error")
    /\ UNCHANGED <<server, rows, pool, status, conn, tx>>

\* The entries of _used and _rused are made, and getconn returns.
Register(t) ==
    /\ pc[t] = "taken"
    /\ Goes(t, "working")
    /\ keyed' = keyed \union {conn[t]}
    /\ UNCHANGED <<server, rows, idle, lost, status, conn, tx, answer>>

-----------------------------------------------------------------------------
(* The bodies of ping, insert_score and stats_last *)

\* SELECT: done with it.  INSERT: still to be committed.  Both leave the
\* session in a transaction.
Execute(t) ==
    /\ pc[t] = "working" /\ conn[t] \in live
    /\ SetStatus(t, "intrans")
    /\ IF tx[t] = Read
       THEN Goes(t, "putting") /\ Result(t, "ok")
       ELSE Goes(t, "executed") /\ UNCHANGED answer
    /\ UNCHANGED <<server, rows, pool, conn, tx>>

\* Mutant of StatementFails: without the finally clause.
StatementFailsForGood(t) ==
    /\ pc[t] = "working" /\ conn[t] \in live
    /\ SetStatus(t, "intrans")
    /\ Leaves(t) /\ Result(t, "error")
    /\ lost' = lost \union {conn[t]}
    /\ UNCHANGED <<server, rows, idle, keyed, tx>>

\* Postgres refuses the statement.
StatementFails(t) ==
    /\ pc[t] = "working" /\ conn[t] \in live
    /\ SetStatus(t, "intrans")
    /\ Goes(t, "putting") /\ Result(t, "error")
    /\ UNCHANGED <<server, rows, pool, conn, tx>>

\* The session is gone when the statement or the commit is sent.
SessionIsGone(t) ==
    /\ pc[t] \in {"working", "executed"} /\ conn[t] \notin live
    /\ SetStatus(t, "closed")
    /\ Goes(t, "putting") /\ Result(t, "error")
    /\ UNCHANGED <<server, rows, pool, conn, tx>>

\* Mutants of Commit: there is none, and putconn rolls back; a statement follows
\* it, so that putconn has something to roll back.
CommitForgotten(t) ==
    /\ pc[t] = "executed" /\ conn[t] \in live
    /\ Goes(t, "putting") /\ Result(t, "ok")
    /\ UNCHANGED <<server, rows, pool, status, conn, tx>>

CommitThenSelect(t) ==
    /\ pc[t] = "executed" /\ conn[t] \in live
    /\ rows' = rows \union {tx[t]}
    /\ Goes(t, "putting") /\ Result(t, "ok")
    /\ UNCHANGED <<server, pool, status, conn, tx>>

Commit(t) ==
    /\ pc[t] = "executed" /\ conn[t] \in live
    /\ rows' = rows \union {tx[t]}
    /\ SetStatus(t, "idle")
    /\ Goes(t, "putting") /\ Result(t, "ok")
    /\ UNCHANGED <<server, pool, conn, tx>>

\* The row is in, and the session ends before the answer arrives.
CommitUnanswered(t) ==
    /\ pc[t] = "executed" /\ conn[t] \in live
    /\ rows' = rows \union {tx[t]}
    /\ live' = live \ {conn[t]}
    /\ SetStatus(t, "closed")
    /\ Goes(t, "putting") /\ Result(t, "error")
    /\ UNCHANGED <<up, wasDown, pool, conn, tx>>

-----------------------------------------------------------------------------
(* putconn, in the finally clause of each *)

\* "trying to put unkeyed connection"
Unkeyed(t) ==
    /\ pc[t] = "putting" /\ conn[t] \notin keyed
    /\ Leaves(t) /\ Result(t, "PoolError")
    /\ lost' = lost \union {conn[t]}
    /\ UNCHANGED <<server, rows, idle, keyed, status, tx>>

Keep(t) ==
    /\ pc[t] = "putting" /\ conn[t] \in keyed
    /\ Cardinality(idle) < MinConn
    /\ Goes(t, "keeping")
    /\ UNCHANGED <<server, rows, pool, status, conn, tx, answer>>

Discard(t) ==
    /\ pc[t] = "putting" /\ conn[t] \in keyed
    /\ Cardinality(idle) >= MinConn
    /\ Goes(t, "discarding")
    /\ UNCHANGED <<server, rows, pool, status, conn, tx, answer>>

\* Mutant of PutBack: a connection in a transaction goes back as it is.
PutBackAsIs(t) ==
    /\ pc[t] = "keeping" /\ status[conn[t]] # "closed"
    /\ idle' = idle \union {conn[t]}
    /\ Goes(t, "forgetting")
    /\ UNCHANGED <<server, rows, keyed, lost, status, conn, tx, answer>>

\* Rolled back if in a transaction, and appended.
PutBack(t) ==
    /\ pc[t] = "keeping" /\ status[conn[t]] # "closed"
    /\ status[conn[t]] = "intrans" => conn[t] \in live
    /\ SetStatus(t, "idle")
    /\ idle' = idle \union {conn[t]}
    /\ Goes(t, "forgetting")
    /\ UNCHANGED <<server, rows, keyed, lost, conn, tx, answer>>

\* conn.rollback() raises, and nothing after it in putconn is done.
RollbackFails(t) ==
    /\ pc[t] = "keeping" /\ status[conn[t]] = "intrans" /\ conn[t] \notin live
    /\ SetStatus(t, "closed")
    /\ Leaves(t) /\ Result(t, "error")
    /\ lost' = lost \union {conn[t]}
    /\ UNCHANGED <<server, rows, idle, keyed, tx>>

\* Mutant of Close: the connection is dropped without being closed.
CloseNot(t) ==
    /\ \/ pc[t] = "discarding"
       \/ pc[t] = "keeping" /\ status[conn[t]] = "closed"
    /\ Goes(t, "forgetting")
    /\ UNCHANGED <<server, rows, pool, status, conn, tx, answer>>

\* One too many is closed; one closed already is dropped.
Close(t) ==
    /\ \/ pc[t] = "discarding"
       \/ pc[t] = "keeping" /\ status[conn[t]] = "closed"
    /\ SetStatus(t, "closed")
    /\ live' = live \ {conn[t]}
    /\ Goes(t, "forgetting")
    /\ UNCHANGED <<up, wasDown, rows, pool, conn, tx, answer>>

\* The entries of _used and _rused are deleted.  The second is not there if the
\* connection has been taken, used and put back since: a KeyError, which is
\* not a psycopg2.Error.
Forget(t) ==
    /\ pc[t] = "forgetting"
    /\ Leaves(t)
    /\ keyed' = keyed \ {conn[t]}
    /\ IF conn[t] \in keyed THEN UNCHANGED answer ELSE Result(t, "KeyError")
    /\ UNCHANGED <<server, rows, idle, lost, status, tx>>

-----------------------------------------------------------------------------
PostgresStops ==
    /\ up
    /\ up' = FALSE /\ live' = {} /\ wasDown' = TRUE
    /\ UNCHANGED <<rows, pool, status, calls>>

PostgresStarts ==
    /\ ~up
    /\ up' = TRUE
    /\ UNCHANGED <<live, wasDown, rows, pool, status, calls>>

Getconn(t) ==
    \/ \E x \in Asks[t] :
          \/ \E c \in Conns : Take(t, x, c)
          \/ Exhausted(t, x)
          \/ MustConnect(t, x)
    \/ \E c \in Conns : Connect(t, c)
    \/ ConnectFails(t)
    \/ Register(t)

Body(t) ==
    \/ Execute(t) \/ StatementFails(t) \/ SessionIsGone(t)
    \/ Commit(t) \/ CommitUnanswered(t)

Putconn(t) ==
    \/ Unkeyed(t) \/ Keep(t) \/ Discard(t)
    \/ PutBack(t) \/ RollbackFails(t) \/ Close(t)
    \/ Forget(t)

Next ==
    \/ \E t \in Threads : Getconn(t) \/ Body(t) \/ Putconn(t)
    \/ PostgresStops \/ PostgresStarts

Spec == Init /\ [][Next]_vars

-----------------------------------------------------------------------------
(* Properties *)

\* What a call comes to: an error is of Postgres or of the connection to it, a
\* PoolError of the pool, and both are psycopg2.Errors.
Failures == {"error", "PoolError", "KeyError"}
Answers == {"ok"} \union Failures

TypeOK ==
    /\ up \in BOOLEAN /\ wasDown \in BOOLEAN /\ overlapped \in BOOLEAN
    /\ rows \subseteq Tx
    /\ live \subseteq Conns /\ idle \subseteq Conns
    /\ keyed \subseteq Conns /\ lost \subseteq Conns
    /\ status \in [Conns -> {"idle", "intrans", "closed"}]
    /\ pc \in [Threads -> {"idle", "connecting"} \union Holding \union {"forgetting"}]
    /\ conn \in [Threads -> Conns \union {NoConn}]
    /\ tx \in [Threads -> Tx \union {Read}]
    /\ answer \in [Threads -> Answers \union {"none"}]
    /\ \A t \in Threads :
          /\ conn[t] = NoConn <=> pc[t] \in {"idle", "connecting"}
          /\ pc[t] = "executed" => tx[t] \in Tx

\* No race of the unlocked pool gives one connection to two calls, or hands
\* out one that is in a call's hands: a commit or a rollback of one call would
\* be another's.  putconn appends before it forgets, so a call that is only
\* forgetting no longer counts.
Exclusive ==
    /\ \A t, u \in Threads :
          t # u /\ pc[t] \in Holding /\ pc[u] \in Holding => conn[t] # conn[u]
    /\ \A t \in Threads : pc[t] \in Holding => conn[t] \notin idle \union lost
    /\ idle \intersect lost = {}

\* What a call finds idle is fit for use as far as a client can tell: no
\* connection goes back closed, or in the transaction of the call before (whose
\* now() stats_last would go by).
IdleIsClean == \A c \in idle : status[c] = "idle"

\* Every session on the server is idle, in a call's hands, or in a lost slot:
\* none is left behind by a path out of putconn.
NoOrphanSessions ==
    \A c \in live :
        \/ c \in idle \union lost
        \/ \E t \in Threads : pc[t] \in Holding /\ conn[t] = c

\* Used as psycopg2 asks, by one thread at a time, the pool never has more than
\* maxconn sessions, and loses a slot only when Postgres stops under a call.  What
\* an outage or an overlap did to it counts only until it is at rest again.
WithinMaxConn == ~overlapped => Cardinality(live) <= MaxConn

SlotsAreKept == ~overlapped /\ ~wasDown => lost = {}

\* The call of t fails in this step: ping() reports what the health check calls down.
ReadFails(t) ==
    /\ tx'[t] = Read /\ answer'[t] \in Failures
    /\ <<tx[t], answer[t]>>' # <<tx[t], answer[t]>>

\* A Postgres that answers refuses what t asks of it.
ServerRefuses(t) ==
    up /\ (pc[t] = "connecting" \/ (pc[t] = "working" /\ conn[t] \in live))

\* Without an outage, and with the pool used in turn, a ping() fails for two reasons
\* only: Postgres refuses its connection or its statement, or maxconn other calls
\* have a connection each right then.  No failed insert, commit or ping before it
\* can be the cause, nor an outage that the pool has got over.
HealthFailsForCause ==
    [][\A t \in Threads :
          ReadFails(t) /\ ~wasDown /\ ~overlapped' =>
              \/ ServerRefuses(t)
              \/ Cardinality({u \in Threads \ {t} : conn[u] # NoConn}) >= MaxConn]_vars

\* An insert whose commit was acknowledged is reported as failed (and counted
\* in fraud_db_insert_failures_total) only by a race inside the pool.
CommittedIsReported ==
    [][\A t \in Threads :
          pc[t] # "idle" /\ tx[t] \in Tx /\ answer[t] = "ok" /\ ~overlapped'
             => answer'[t] = "ok"]_vars

\* api/db.py is a RowStore to its callers, to whom a call under way has no
\* answer: an insert returns only if its row is in the table.
SeenAnswer == [t \in Threads |-> IF pc[t] = "idle" THEN answer[t] ELSE "none"]
Rows == INSTANCE RowStore WITH answer <- SeenAnswer
ImplementsRowStore == Rows!Spec

\* /health: ping() is False for a psycopg2.Error, and another error is a 500.
HealthCode(a) ==
    CASE a = "ok" -> 200 [] a \in {"error", "PoolError"} -> 503 [] a = "KeyError" -> 500

\* README.md:198-201, RUNBOOK.md:203 and docker-compose.yml:113-114 say that
\* /health answers 503 when Redis or Postgres is unreachable, "so this actually
\* reflects the service being able to do its job".  ping() borrows a connection
\* of the pool that the inserts use, and a pool without one raises an error, which
\* is none of a Postgres that stopped or refused.
HealthMeansUnreachable ==
    \A t \in Threads :
        pc[t] = "idle" /\ tx[t] = Read /\ HealthCode(answer[t]) = 503
            => wasDown \/ answer[t] = "error"
=============================================================================
