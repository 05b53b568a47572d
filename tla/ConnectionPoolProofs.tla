------------------------ MODULE ConnectionPoolProofs ------------------------
(***************************************************************************)
(* Theorems about ConnectionPool, for any threads, transactions and        *)
(* connections, and any minconn <= maxconn.                                *)
(***************************************************************************)
EXTENDS ConnectionPool, FiniteSetTheorems, TLAPS

LEMMA TypeInit == Init => TypeOK
<1> USE PoolAssumption DEF Init
<1> SUFFICES ASSUME Init PROVE TypeOK
  OBVIOUS
<1>1. \A t \in Threads :
          /\ conn[t] = NoConn <=> pc[t] \in {"idle", "connecting"}
          /\ pc[t] = "executed" => tx[t] \in Tx
  OBVIOUS
<1>2. idle \subseteq Conns
  OBVIOUS
<1> QED
  BY <1>1, <1>2 DEF TypeOK, Holding, Answers, Failures

LEMMA TypeGetconn ==
    ASSUME TypeOK, NEW t \in Threads, Getconn(t)
    PROVE  TypeOK'
<1> USE PoolAssumption DEF TypeOK, Begins, Goes, Overlaps, Result, Holding, Inside, Answers, Failures, server, pool
<1>1. ASSUME NEW x \in Tx \union {Read}, NEW c \in Conns, Take(t, x, c) PROVE TypeOK'
  BY <1>1 DEF Take
<1>2. ASSUME NEW x \in Tx \union {Read}, Exhausted(t, x) PROVE TypeOK'
  BY <1>2 DEF Exhausted
<1>3. ASSUME NEW x \in Tx \union {Read}, MustConnect(t, x) PROVE TypeOK'
  BY <1>3 DEF MustConnect
<1>4. ASSUME NEW c \in Conns, Connect(t, c) PROVE TypeOK'
  BY <1>4 DEF Connect
<1>5. CASE ConnectFails(t)
  BY <1>5 DEF ConnectFails
<1>6. CASE Register(t)
  BY <1>6 DEF Register
<1> QED
  BY <1>1, <1>2, <1>3, <1>4, <1>5, <1>6, PoolAssumption DEF Getconn

LEMMA TypeBody ==
    ASSUME TypeOK, NEW t \in Threads, Body(t)
    PROVE  TypeOK'
<1> USE PoolAssumption DEF TypeOK, Goes, Overlaps, Result, SetStatus, Holding, Inside, Answers, Failures, server, pool
<1>1. CASE Execute(t)
  <2>1. CASE tx[t] = Read
    BY <1>1, <2>1 DEF Execute
  <2>2. CASE tx[t] # Read
    BY <1>1, <2>2 DEF Execute
  <2> QED
    BY <2>1, <2>2
<1>2. CASE StatementFails(t)
  BY <1>2 DEF StatementFails
<1>3. CASE SessionIsGone(t)
  BY <1>3 DEF SessionIsGone
<1>4. CASE Commit(t)
  BY <1>4 DEF Commit
<1>5. CASE CommitUnanswered(t)
  BY <1>5 DEF CommitUnanswered
<1> QED
  BY <1>1, <1>2, <1>3, <1>4, <1>5 DEF Body

LEMMA TypePutconn ==
    ASSUME TypeOK, NEW t \in Threads, Putconn(t)
    PROVE  TypeOK'
<1> USE PoolAssumption
        DEF TypeOK, Goes, Overlaps, Leaves, Result, SetStatus, Holding, Inside, Answers, Failures, server, pool
<1>1. CASE Unkeyed(t)
  BY <1>1 DEF Unkeyed
<1>2. CASE Keep(t)
  BY <1>2 DEF Keep
<1>3. CASE Discard(t)
  BY <1>3 DEF Discard
<1>4. CASE PutBack(t)
  BY <1>4 DEF PutBack
<1>5. CASE RollbackFails(t)
  BY <1>5 DEF RollbackFails
<1>6. CASE Close(t)
  BY <1>6 DEF Close
<1>7. CASE Forget(t)
  BY <1>7 DEF Forget
<1> QED
  BY <1>1, <1>2, <1>3, <1>4, <1>5, <1>6, <1>7 DEF Putconn

\* The state of pool, sessions and calls keeps its type, and a thread has a
\* connection exactly from getconn's choice to the end of putconn.
THEOREM TypeCorrect == Spec => []TypeOK
<1>1. TypeOK /\ [Next]_vars => TypeOK'
  <2> SUFFICES ASSUME TypeOK, [Next]_vars PROVE TypeOK'
    OBVIOUS
  <2>1. ASSUME NEW t \in Threads, Getconn(t) \/ Body(t) \/ Putconn(t) PROVE TypeOK'
    BY <2>1, TypeGetconn, TypeBody, TypePutconn
  <2>2. CASE PostgresStops \/ PostgresStarts \/ UNCHANGED vars
    BY <2>2 DEF PostgresStops, PostgresStarts, vars, TypeOK, server, pool, calls
  <2> QED
    BY <2>1, <2>2 DEF Next
<1> QED
  BY TypeInit, <1>1, PTL DEF Spec

-----------------------------------------------------------------------------
(* Connections, one call at a time *)

Apart == Exclusive /\ IdleIsClean /\ NoOrphanSessions

LEMMA ApartGetconn ==
    ASSUME TypeOK, Apart, NEW t \in Threads, Getconn(t)
    PROVE  Apart'
<1> USE PoolAssumption DEF TypeOK, Apart, Exclusive, IdleIsClean, NoOrphanSessions, Begins,
                           Goes, Result, Holding, server, pool
<1>1. ASSUME NEW x \in Tx \union {Read}, NEW c \in Conns, Take(t, x, c) PROVE Apart'
  BY <1>1 DEF Take
<1>2. ASSUME NEW x \in Tx \union {Read}, Exhausted(t, x) \/ MustConnect(t, x) PROVE Apart'
  BY <1>2 DEF Exhausted, MustConnect
<1>3. ASSUME NEW c \in Conns, Connect(t, c) PROVE Apart'
  BY <1>3 DEF Connect, Free
<1>4. CASE ConnectFails(t)
  BY <1>4 DEF ConnectFails
<1>5. CASE Register(t)
  BY <1>5 DEF Register
<1> QED
  BY <1>1, <1>2, <1>3, <1>4, <1>5, PoolAssumption DEF Getconn

LEMMA ApartBody ==
    ASSUME TypeOK, Apart, NEW t \in Threads, Body(t)
    PROVE  Apart'
<1> USE DEF TypeOK, Apart, Exclusive, IdleIsClean, NoOrphanSessions, Goes, SetStatus, Holding,
            server, pool
<1>1. CASE Execute(t)
  BY <1>1 DEF Execute
<1>2. CASE StatementFails(t)
  BY <1>2 DEF StatementFails
<1>3. CASE SessionIsGone(t)
  BY <1>3 DEF SessionIsGone
<1>4. CASE Commit(t)
  BY <1>4 DEF Commit
<1>5. CASE CommitUnanswered(t)
  BY <1>5 DEF CommitUnanswered
<1> QED
  BY <1>1, <1>2, <1>3, <1>4, <1>5 DEF Body

LEMMA ApartPutconn ==
    ASSUME TypeOK, Apart, NEW t \in Threads, Putconn(t)
    PROVE  Apart'
<1> USE DEF TypeOK, Apart, Exclusive, IdleIsClean, NoOrphanSessions, Goes, Leaves, SetStatus,
            Holding, server, pool
<1>1. CASE Unkeyed(t)
  BY <1>1 DEF Unkeyed
<1>2. CASE Keep(t) \/ Discard(t)
  BY <1>2 DEF Keep, Discard
<1>3. CASE PutBack(t)
  BY <1>3 DEF PutBack
<1>4. CASE RollbackFails(t)
  BY <1>4 DEF RollbackFails
<1>5. CASE Close(t)
  BY <1>5 DEF Close
<1>6. CASE Forget(t)
  BY <1>6 DEF Forget
<1> QED
  BY <1>1, <1>2, <1>3, <1>4, <1>5, <1>6 DEF Putconn

LEMMA ApartInvariant == Spec => []Apart
<1>1. Init => Apart
  BY DEF Init, Apart, Exclusive, IdleIsClean, NoOrphanSessions, Holding
<1>2. TypeOK /\ Apart /\ [Next]_vars => Apart'
  <2> SUFFICES ASSUME TypeOK, Apart, [Next]_vars PROVE Apart'
    OBVIOUS
  <2>1. ASSUME NEW t \in Threads, Getconn(t) \/ Body(t) \/ Putconn(t) PROVE Apart'
    BY <2>1, ApartGetconn, ApartBody, ApartPutconn
  <2>2. CASE PostgresStops \/ PostgresStarts \/ UNCHANGED vars
    BY <2>2 DEF PostgresStops, PostgresStarts, vars, Apart, Exclusive, IdleIsClean,
                NoOrphanSessions, server, pool, calls
  <2> QED
    BY <2>1, <2>2 DEF Next
<1> QED
  BY <1>1, <1>2, TypeCorrect, PTL DEF Spec

\* However calls overlap in the unlocked pool, no two of them use a connection.
THEOREM ConnectionsAreExclusive == Spec => []Exclusive
  BY ApartInvariant, PTL DEF Apart

\* What the pool hands out is open and outside any transaction.
THEOREM IdleConnectionsAreClean == Spec => []IdleIsClean
  BY ApartInvariant, PTL DEF Apart

\* Every session on the server belongs to the pool, a call or a lost slot.
THEOREM SessionsAreAccountedFor == Spec => []NoOrphanSessions
  BY ApartInvariant, PTL DEF Apart

-----------------------------------------------------------------------------
(* What callers may rely on *)

\* A body that has ended has an answer, and an insert that came to a good one
\* has its row.
Answered ==
    \A t \in Threads :
        /\ pc[t] \in {"connecting", "taken", "working", "executed"} <=> answer[t] = "none"
        /\ pc[t] # "idle" /\ answer[t] = "ok" => tx[t] \in rows \union {Read}

\* A step of getconn begins a call, fails it, or is not seen.
LEMMA GetconnIsRowStore ==
    ASSUME TypeOK, Answered, NEW t \in Threads, Getconn(t)
    PROVE  Answered' /\ [Rows!Next]_(Rows!vars)
<1> USE DEF TypeOK, Answered, Begins, Goes, Result, Holding, Answers, Failures, server, pool, SeenAnswer,
            Rows!vars
<1>1. ASSUME NEW x \in Tx \union {Read},
             (\E c \in Conns : Take(t, x, c)) \/ Exhausted(t, x) \/ MustConnect(t, x)
      PROVE  Answered' /\ [Rows!Next]_(Rows!vars)
  <2>1. Answered'
    BY <1>1 DEF Take, Exhausted, MustConnect
  <2>2. ASSUME (\E c \in Conns : Take(t, x, c)) \/ MustConnect(t, x)
        PROVE  Rows!Ask(t)
    <3>1. pc[t] = "idle" /\ SeenAnswer[t] # "none" /\ UNCHANGED rows
      BY <2>2 DEF Take, MustConnect
    <3>2. SeenAnswer' = [SeenAnswer EXCEPT ![t] = "none"]
      BY <2>2 DEF Take, MustConnect
    <3>3. tx' = [tx EXCEPT ![t] = x]
      BY <2>2, Zenon DEF Take, MustConnect
    <3> QED
      BY <3>1, <3>2, <3>3 DEF Rows!Ask
  <2>3. ASSUME Exhausted(t, x)
        PROVE  Rows!Ask(t)
    <3>1. /\ pc[t] = "idle" /\ SeenAnswer[t] # "none" /\ UNCHANGED rows
          /\ tx' = [tx EXCEPT ![t] = x]
      BY <2>3 DEF Exhausted
    <3>2. SeenAnswer' = [SeenAnswer EXCEPT ![t] = "PoolError"]
      BY <2>3 DEF Exhausted
    <3> QED
      BY <3>1, <3>2 DEF Rows!Ask
  <2> QED
    BY <1>1, <2>1, <2>2, <2>3 DEF Rows!Next
<1>2. CASE (\E c \in Conns : Connect(t, c)) \/ Register(t)
  <2>1. Answered'
    BY <1>2 DEF Connect, Register
  <2>2. UNCHANGED Rows!vars
    BY <1>2 DEF Connect, Register
  <2> QED
    BY <2>1, <2>2
<1>3. CASE ConnectFails(t)
  <2>1. Answered'
    BY <1>3 DEF ConnectFails
  <2>2. Rows!Answer(t)
    <3>1. pc[t] # "idle" /\ SeenAnswer[t] = "none" /\ UNCHANGED <<rows, tx>>
      BY <1>3 DEF ConnectFails
    <3>2. SeenAnswer' = [SeenAnswer EXCEPT ![t] = "error"]
      BY <1>3 DEF ConnectFails
    <3> QED
      BY <3>1, <3>2 DEF Rows!Answer
  <2> QED
    BY <2>1, <2>2 DEF Rows!Next
<1> QED
  BY <1>1, <1>2, <1>3, PoolAssumption DEF Getconn

\* A commit that takes effect writes the row; no other step of a body is seen.
LEMMA BodyIsRowStore ==
    ASSUME TypeOK, Answered, NEW t \in Threads, Body(t)
    PROVE  Answered' /\ [Rows!Next]_(Rows!vars)
<1> USE DEF TypeOK, Answered, Goes, Result, Holding, Answers, Failures, server, pool, SeenAnswer, Rows!vars
<1>1. CASE Execute(t) \/ StatementFails(t) \/ SessionIsGone(t)
  <2>1. Answered'
    BY <1>1 DEF Execute, StatementFails, SessionIsGone
  <2>2. UNCHANGED Rows!vars
    BY <1>1 DEF Execute, StatementFails, SessionIsGone
  <2> QED
    BY <2>1, <2>2
<1>2. CASE Commit(t) \/ CommitUnanswered(t)
  <2>1. Answered'
    BY <1>2 DEF Commit, CommitUnanswered
  <2>2. Rows!Write(t)
    BY <1>2 DEF Commit, CommitUnanswered, Rows!Write
  <2> QED
    BY <2>1, <2>2 DEF Rows!Next
<1> QED
  BY <1>1, <1>2 DEF Body

\* putconn ends a call with the answer of its body, or an error of its own.
LEMMA PutconnIsRowStore ==
    ASSUME TypeOK, Answered, NEW t \in Threads, Putconn(t)
    PROVE  Answered' /\ [Rows!Next]_(Rows!vars)
<1> USE DEF TypeOK, Answered, Goes, Leaves, Result, Holding, Answers, Failures, server, pool, SeenAnswer,
            Rows!vars
<1>1. CASE Keep(t) \/ Discard(t) \/ PutBack(t) \/ Close(t)
  <2>1. Answered'
    BY <1>1 DEF Keep, Discard, PutBack, Close
  <2>2. UNCHANGED Rows!vars
    BY <1>1 DEF Keep, Discard, PutBack, Close
  <2> QED
    BY <2>1, <2>2
<1>2. CASE Unkeyed(t) \/ RollbackFails(t)
  <2>1. Answered'
    BY <1>2 DEF Unkeyed, RollbackFails
  <2>2. pc[t] # "idle" /\ SeenAnswer[t] = "none" /\ UNCHANGED <<rows, tx>>
    BY <1>2 DEF Unkeyed, RollbackFails
  <2>3. PICK a \in {"error", "PoolError"} :
          /\ pc' = [pc EXCEPT ![t] = "idle"]
          /\ answer' = [answer EXCEPT ![t] = a]
    BY <1>2, Zenon DEF Unkeyed, RollbackFails
  <2>4. SeenAnswer' = [SeenAnswer EXCEPT ![t] = a]
    BY <2>3
  <2>5. Rows!Answer(t)
    BY <2>2, <2>4 DEF Rows!Answer
  <2> QED
    BY <2>1, <2>5 DEF Rows!Next
<1>3. CASE Forget(t)
  <2>1. Answered'
    BY <1>3 DEF Forget
  <2>2. PICK a \in Answers : a = answer'[t]
    BY <1>3 DEF Forget
  <2>3. pc[t] # "idle" /\ SeenAnswer[t] = "none" /\ UNCHANGED <<rows, tx>>
    BY <1>3 DEF Forget
  <2>4. a = "ok" => tx[t] \in rows \union {Read}
    BY <1>3, <2>2 DEF Forget
  <2>5. SeenAnswer' = [SeenAnswer EXCEPT ![t] = a]
    BY <1>3, <2>2 DEF Forget
  <2>6. Rows!Answer(t)
    BY <2>2, <2>3, <2>4, <2>5 DEF Rows!Answer
  <2> QED
    BY <2>1, <2>6 DEF Rows!Next
<1> QED
  BY <1>1, <1>2, <1>3 DEF Putconn

\* api/db.py implements RowStore, through every race of the pool and every stop
\* of Postgres: an insert that returned has its row, and rows do not go away.
THEOREM PoolImplementsRowStore == Spec => ImplementsRowStore
<1>1. Init => Answered /\ Rows!Init
  BY DEF Init, Answered, Rows!Init, SeenAnswer
<1>2. TypeOK /\ Answered /\ [Next]_vars => Answered' /\ [Rows!Next]_(Rows!vars)
  <2> SUFFICES ASSUME TypeOK, Answered, [Next]_vars
               PROVE  Answered' /\ [Rows!Next]_(Rows!vars)
    OBVIOUS
  <2>1. ASSUME NEW t \in Threads, Getconn(t) \/ Body(t) \/ Putconn(t)
        PROVE  Answered' /\ [Rows!Next]_(Rows!vars)
    BY <2>1, GetconnIsRowStore, BodyIsRowStore, PutconnIsRowStore
  <2>2. CASE PostgresStops \/ PostgresStarts \/ UNCHANGED vars
    BY <2>2 DEF PostgresStops, PostgresStarts, vars, Answered, SeenAnswer, Rows!vars, pool, calls
  <2> QED
    BY <2>1, <2>2 DEF Next
<1> QED
  BY <1>1, <1>2, TypeCorrect, PTL DEF Spec, ImplementsRowStore, Rows!Spec

-----------------------------------------------------------------------------
(* Used by one thread at a time *)

\* As long as calls have not overlapped inside the pool, at most one is there,
\* and the entries of _used and _rused are those of the calls under way, each
\* with a connection of its own, which no other call deletes.
OneInside == \A t, u \in Threads : t # u /\ pc[t] \in Inside => pc[u] \notin Inside
EntriesExist == \A t \in Threads : pc[t] \in Registered => conn[t] \in keyed
OwnConnections == \A t, u \in Threads : t # u /\ conn[t] # NoConn => conn[t] # conn[u]

InTurn == ~overlapped => OneInside /\ EntriesExist /\ OwnConnections

\* Until Postgres stops, only connections known to be closed have no session.
SessionsExist ==
    /\ idle \subseteq live
    /\ \A t \in Threads :
          pc[t] \in Holding /\ status[conn[t]] # "closed" => conn[t] \in live

Sound == ~wasDown => SessionsExist

\* After its commit an insert leaves putconn nothing to roll back.
Settled ==
    \A t \in Threads :
        pc[t] \in Holding /\ tx[t] \in Tx /\ answer[t] = "ok"
            => status[conn[t]] # "intrans"

Kept == InTurn /\ Sound /\ Settled /\ SlotsAreKept

Invariants == TypeOK /\ Apart /\ Answered

LEMMA InvariantsHold == Spec => []Invariants
<1>1. Init => Answered
  BY DEF Init, Answered
<1>2. TypeOK /\ Answered /\ [Next]_vars => Answered'
  <2> SUFFICES ASSUME TypeOK, Answered, [Next]_vars PROVE Answered'
    OBVIOUS
  <2>1. ASSUME NEW t \in Threads, Getconn(t) \/ Body(t) \/ Putconn(t) PROVE Answered'
    BY <2>1, GetconnIsRowStore, BodyIsRowStore, PutconnIsRowStore
  <2>2. CASE PostgresStops \/ PostgresStarts \/ UNCHANGED vars
    BY <2>2 DEF PostgresStops, PostgresStarts, vars, Answered, pool, calls
  <2> QED
    BY <2>1, <2>2 DEF Next
<1> QED
  BY <1>1, <1>2, TypeCorrect, ApartInvariant, PTL DEF Spec, Invariants

\* At rest nothing is left of what an overlap, or an outage, did.
LEMMA RestIsInTurn ==
    ASSUME TypeOK, AtRest
    PROVE  OneInside /\ EntriesExist /\ OwnConnections
  BY DEF TypeOK, AtRest, OneInside, EntriesExist, OwnConnections, Inside, Registered

LEMMA GoesInTurn ==
    ASSUME TypeOK, InTurn, NEW t \in Threads, NEW p, Goes(t, p)
    PROVE  ~overlapped' =>
               OneInside /\ EntriesExist /\ OwnConnections /\ OneInside'
<1> SUFFICES ASSUME ~overlapped'
             PROVE  OneInside /\ EntriesExist /\ OwnConnections /\ OneInside'
  OBVIOUS
<1>1. OneInside /\ EntriesExist /\ OwnConnections
  <2>1. CASE AtRest
    BY <2>1, RestIsInTurn
  <2>2. CASE ~AtRest
    BY <2>2 DEF InTurn, Goes, Overlaps
  <2> QED
    BY <2>1, <2>2
<1>2. OneInside'
  BY <1>1 DEF TypeOK, OneInside, Goes, Overlaps
<1> QED
  BY <1>1, <1>2

\* An overlap is forgotten at rest only.
LEMMA GoesOn ==
    ASSUME NEW t \in Threads, NEW p, Goes(t, p), overlapped, ~overlapped'
    PROVE  AtRest /\ pc[t] = "idle" /\ lost = {}
  BY DEF Goes, Overlaps, AtRest

\* And an outage, when a call begins.
LEMMA BeginsSound ==
    ASSUME Sound, NEW t \in Threads, NEW x, NEW a, Begins(t, x, a), ~wasDown'
    PROVE  /\ SessionsExist
           /\ ~wasDown \/ lost = {}
<1>1. CASE AtRest
  BY <1>1 DEF AtRest, SessionsExist, Holding
<1>2. CASE ~AtRest
  BY <1>2 DEF Sound, Begins
<1> QED
  BY <1>1, <1>2

LEMMA KeptGetconn ==
    ASSUME Invariants, Kept, NEW t \in Threads, Getconn(t)
    PROVE  Kept'
<1> USE PoolAssumption
        DEF Invariants, TypeOK, Apart, Exclusive, Answered, Kept, InTurn, Sound, SessionsExist,
            Settled, SlotsAreKept, Result, Holding, Inside, Registered, server, pool
<1>1. ASSUME NEW x \in Tx \union {Read}, NEW c \in Conns, Take(t, x, c) PROVE Kept'
  <2>1. InTurn'
    <3>1. ~overlapped' => OneInside /\ EntriesExist /\ OwnConnections /\ OneInside'
      BY <1>1, GoesInTurn DEF Take
    <3>2. ~overlapped' => EntriesExist'
      BY <1>1, <3>1 DEF Take, Goes, EntriesExist
    <3>3. ~overlapped' => OwnConnections'
      BY <1>1, <3>1 DEF Take, Goes, OneInside, OwnConnections
    <3> QED
      BY <3>1, <3>2, <3>3
  <2>2. Sound'
    BY <1>1, BeginsSound DEF Take, Begins, Goes
  <2>3. Settled'
    BY <1>1 DEF Take, Begins, Goes
  <2>4. SlotsAreKept'
    BY <1>1, BeginsSound, GoesOn DEF Take, Begins
  <2> QED
    BY <2>1, <2>2, <2>3, <2>4 DEF Kept
<1>2. ASSUME NEW x \in Tx \union {Read}, Exhausted(t, x) PROVE Kept'
  <2>1. InTurn'
    BY <1>2 DEF Exhausted, Begins, OneInside, EntriesExist, OwnConnections
  <2>2. Sound'
    BY <1>2, BeginsSound DEF Exhausted, Begins
  <2>3. Settled'
    BY <1>2 DEF Exhausted, Begins
  <2>4. SlotsAreKept'
    BY <1>2, BeginsSound DEF Exhausted, Begins
  <2> QED
    BY <2>1, <2>2, <2>3, <2>4 DEF Kept
<1>3. ASSUME NEW x \in Tx \union {Read}, MustConnect(t, x) PROVE Kept'
  <2>1. InTurn'
    <3>1. ~overlapped' => OneInside /\ EntriesExist /\ OwnConnections /\ OneInside'
      BY <1>3, GoesInTurn DEF MustConnect
    <3>2. ~overlapped' => EntriesExist'
      BY <1>3, <3>1 DEF MustConnect, Goes, EntriesExist
    <3>3. ~overlapped' => OwnConnections'
      BY <1>3, <3>1 DEF MustConnect, Goes, OneInside, OwnConnections
    <3> QED
      BY <3>1, <3>2, <3>3
  <2>2. Sound'
    BY <1>3, BeginsSound DEF MustConnect, Begins, Goes
  <2>3. Settled'
    BY <1>3 DEF MustConnect, Begins, Goes
  <2>4. SlotsAreKept'
    BY <1>3, BeginsSound, GoesOn DEF MustConnect, Begins
  <2> QED
    BY <2>1, <2>2, <2>3, <2>4 DEF Kept
<1>4. ASSUME NEW c \in Conns, Connect(t, c) PROVE Kept'
  <2>1. InTurn'
    <3>1. ~overlapped' => OneInside /\ EntriesExist /\ OwnConnections /\ OneInside'
      BY <1>4, GoesInTurn DEF Connect, Free
    <3>2. ~overlapped' => EntriesExist'
      BY <1>4, <3>1 DEF Connect, Free, Goes, EntriesExist
    <3>3. ~overlapped' => OwnConnections'
      BY <1>4, <3>1 DEF Connect, Free, Goes, OneInside, OwnConnections
    <3> QED
      BY <3>1, <3>2, <3>3
  <2>2. Sound'
    BY <1>4 DEF Connect, Free, Goes
  <2>3. Settled'
    BY <1>4 DEF Connect, Free, Goes
  <2>4. SlotsAreKept'
    BY <1>4, GoesOn DEF Connect, Free
  <2> QED
    BY <2>1, <2>2, <2>3, <2>4 DEF Kept
<1>5. CASE ConnectFails(t)
  <2>1. InTurn'
    <3>1. ~overlapped' => OneInside /\ EntriesExist /\ OwnConnections /\ OneInside'
      BY <1>5, GoesInTurn DEF ConnectFails
    <3>2. ~overlapped' => EntriesExist'
      BY <1>5, <3>1 DEF ConnectFails, Goes, EntriesExist
    <3>3. ~overlapped' => OwnConnections'
      BY <1>5, <3>1 DEF ConnectFails, Goes, OneInside, OwnConnections
    <3> QED
      BY <3>1, <3>2, <3>3
  <2>2. Sound'
    BY <1>5 DEF ConnectFails, Goes
  <2>3. Settled'
    BY <1>5 DEF ConnectFails, Goes
  <2>4. SlotsAreKept'
    BY <1>5, GoesOn DEF ConnectFails
  <2> QED
    BY <2>1, <2>2, <2>3, <2>4 DEF Kept
<1>6. CASE Register(t)
  <2>1. InTurn'
    <3>1. ~overlapped' => OneInside /\ EntriesExist /\ OwnConnections /\ OneInside'
      BY <1>6, GoesInTurn DEF Register
    <3>2. ~overlapped' => EntriesExist'
      BY <1>6, <3>1 DEF Register, Goes, EntriesExist
    <3>3. ~overlapped' => OwnConnections'
      BY <1>6, <3>1 DEF Register, Goes, OneInside, OwnConnections
    <3> QED
      BY <3>1, <3>2, <3>3
  <2>2. Sound'
    BY <1>6 DEF Register, Goes
  <2>3. Settled'
    BY <1>6 DEF Register, Goes
  <2>4. SlotsAreKept'
    BY <1>6, GoesOn DEF Register
  <2> QED
    BY <2>1, <2>2, <2>3, <2>4 DEF Kept
<1> QED
  BY <1>1, <1>2, <1>3, <1>4, <1>5, <1>6, PoolAssumption DEF Getconn

LEMMA KeptBody ==
    ASSUME Invariants, Kept, NEW t \in Threads, Body(t)
    PROVE  Kept'
<1> USE PoolAssumption
        DEF Invariants, TypeOK, Apart, Exclusive, Answered, Kept, InTurn, Sound, SessionsExist,
            Settled, SlotsAreKept, Result, SetStatus, Holding, Inside, Registered, server, pool
<1>1. CASE Execute(t)
  <2>1. InTurn'
    <3>1. ~overlapped' => OneInside /\ EntriesExist /\ OwnConnections /\ OneInside'
      BY <1>1, GoesInTurn DEF Execute
    <3>2. ~overlapped' => EntriesExist'
      BY <1>1, <3>1 DEF Execute, Goes, EntriesExist
    <3>3. ~overlapped' => OwnConnections'
      BY <1>1, <3>1 DEF Execute, Goes, OneInside, OwnConnections
    <3> QED
      BY <3>1, <3>2, <3>3
  <2>2. Sound'
    BY <1>1 DEF Execute, Goes
  <2>3. Settled'
    BY <1>1 DEF Execute, Goes
  <2>4. SlotsAreKept'
    BY <1>1, GoesOn DEF Execute
  <2> QED
    BY <2>1, <2>2, <2>3, <2>4 DEF Kept
<1>2. CASE StatementFails(t)
  <2>1. InTurn'
    <3>1. ~overlapped' => OneInside /\ EntriesExist /\ OwnConnections /\ OneInside'
      BY <1>2, GoesInTurn DEF StatementFails
    <3>2. ~overlapped' => EntriesExist'
      BY <1>2, <3>1 DEF StatementFails, Goes, EntriesExist
    <3>3. ~overlapped' => OwnConnections'
      BY <1>2, <3>1 DEF StatementFails, Goes, OneInside, OwnConnections
    <3> QED
      BY <3>1, <3>2, <3>3
  <2>2. Sound'
    BY <1>2 DEF StatementFails, Goes
  <2>3. Settled'
    BY <1>2 DEF StatementFails, Goes
  <2>4. SlotsAreKept'
    BY <1>2, GoesOn DEF StatementFails
  <2> QED
    BY <2>1, <2>2, <2>3, <2>4 DEF Kept
<1>3. CASE SessionIsGone(t)
  <2>1. InTurn'
    <3>1. ~overlapped' => OneInside /\ EntriesExist /\ OwnConnections /\ OneInside'
      BY <1>3, GoesInTurn DEF SessionIsGone
    <3>2. ~overlapped' => EntriesExist'
      BY <1>3, <3>1 DEF SessionIsGone, Goes, EntriesExist
    <3>3. ~overlapped' => OwnConnections'
      BY <1>3, <3>1 DEF SessionIsGone, Goes, OneInside, OwnConnections
    <3> QED
      BY <3>1, <3>2, <3>3
  <2>2. Sound'
    BY <1>3 DEF SessionIsGone, Goes
  <2>3. Settled'
    BY <1>3 DEF SessionIsGone, Goes
  <2>4. SlotsAreKept'
    BY <1>3, GoesOn DEF SessionIsGone
  <2> QED
    BY <2>1, <2>2, <2>3, <2>4 DEF Kept
<1>4. CASE Commit(t)
  <2>1. InTurn'
    <3>1. ~overlapped' => OneInside /\ EntriesExist /\ OwnConnections /\ OneInside'
      BY <1>4, GoesInTurn DEF Commit
    <3>2. ~overlapped' => EntriesExist'
      BY <1>4, <3>1 DEF Commit, Goes, EntriesExist
    <3>3. ~overlapped' => OwnConnections'
      BY <1>4, <3>1 DEF Commit, Goes, OneInside, OwnConnections
    <3> QED
      BY <3>1, <3>2, <3>3
  <2>2. Sound'
    BY <1>4 DEF Commit, Goes
  <2>3. Settled'
    BY <1>4 DEF Commit, Goes
  <2>4. SlotsAreKept'
    BY <1>4, GoesOn DEF Commit
  <2> QED
    BY <2>1, <2>2, <2>3, <2>4 DEF Kept
<1>5. CASE CommitUnanswered(t)
  <2>1. InTurn'
    <3>1. ~overlapped' => OneInside /\ EntriesExist /\ OwnConnections /\ OneInside'
      BY <1>5, GoesInTurn DEF CommitUnanswered
    <3>2. ~overlapped' => EntriesExist'
      BY <1>5, <3>1 DEF CommitUnanswered, Goes, EntriesExist
    <3>3. ~overlapped' => OwnConnections'
      BY <1>5, <3>1 DEF CommitUnanswered, Goes, OneInside, OwnConnections
    <3> QED
      BY <3>1, <3>2, <3>3
  <2>2. Sound'
    BY <1>5 DEF CommitUnanswered, Goes
  <2>3. Settled'
    BY <1>5 DEF CommitUnanswered, Goes
  <2>4. SlotsAreKept'
    BY <1>5, GoesOn DEF CommitUnanswered
  <2> QED
    BY <2>1, <2>2, <2>3, <2>4 DEF Kept
<1> QED
  BY <1>1, <1>2, <1>3, <1>4, <1>5 DEF Body

LEMMA KeptPutconn ==
    ASSUME Invariants, Kept, NEW t \in Threads, Putconn(t)
    PROVE  Kept'
<1> USE PoolAssumption
        DEF Invariants, TypeOK, Apart, Exclusive, Answered, Kept, InTurn, Sound, SessionsExist,
            Settled, SlotsAreKept, Result, SetStatus, Holding, Inside, Registered, server, pool
<1>1. CASE Unkeyed(t)
  <2>1. InTurn'
    <3>1. ~overlapped' => OneInside /\ EntriesExist /\ OwnConnections /\ OneInside'
      BY <1>1, GoesInTurn DEF Unkeyed, Leaves
    <3>2. ~overlapped' => EntriesExist'
      BY <1>1, <3>1 DEF Unkeyed, Leaves, Goes, EntriesExist
    <3>3. ~overlapped' => OwnConnections'
      BY <1>1, <3>1 DEF Unkeyed, Leaves, Goes, OneInside, OwnConnections
    <3> QED
      BY <3>1, <3>2, <3>3
  <2>2. Sound'
    BY <1>1 DEF Unkeyed, Leaves, Goes
  <2>3. Settled'
    BY <1>1 DEF Unkeyed, Leaves, Goes
  <2>4. SlotsAreKept'
    BY <1>1, GoesInTurn DEF Unkeyed, Leaves, EntriesExist
  <2> QED
    BY <2>1, <2>2, <2>3, <2>4 DEF Kept
<1>2. CASE Keep(t)
  <2>1. InTurn'
    <3>1. ~overlapped' => OneInside /\ EntriesExist /\ OwnConnections /\ OneInside'
      BY <1>2, GoesInTurn DEF Keep
    <3>2. ~overlapped' => EntriesExist'
      BY <1>2, <3>1 DEF Keep, Goes, EntriesExist
    <3>3. ~overlapped' => OwnConnections'
      BY <1>2, <3>1 DEF Keep, Goes, OneInside, OwnConnections
    <3> QED
      BY <3>1, <3>2, <3>3
  <2>2. Sound'
    BY <1>2 DEF Keep, Goes
  <2>3. Settled'
    BY <1>2 DEF Keep, Goes
  <2>4. SlotsAreKept'
    BY <1>2, GoesOn DEF Keep
  <2> QED
    BY <2>1, <2>2, <2>3, <2>4 DEF Kept
<1>3. CASE Discard(t)
  <2>1. InTurn'
    <3>1. ~overlapped' => OneInside /\ EntriesExist /\ OwnConnections /\ OneInside'
      BY <1>3, GoesInTurn DEF Discard
    <3>2. ~overlapped' => EntriesExist'
      BY <1>3, <3>1 DEF Discard, Goes, EntriesExist
    <3>3. ~overlapped' => OwnConnections'
      BY <1>3, <3>1 DEF Discard, Goes, OneInside, OwnConnections
    <3> QED
      BY <3>1, <3>2, <3>3
  <2>2. Sound'
    BY <1>3 DEF Discard, Goes
  <2>3. Settled'
    BY <1>3 DEF Discard, Goes
  <2>4. SlotsAreKept'
    BY <1>3, GoesOn DEF Discard
  <2> QED
    BY <2>1, <2>2, <2>3, <2>4 DEF Kept
<1>4. CASE PutBack(t)
  <2>1. InTurn'
    <3>1. ~overlapped' => OneInside /\ EntriesExist /\ OwnConnections /\ OneInside'
      BY <1>4, GoesInTurn DEF PutBack
    <3>2. ~overlapped' => EntriesExist'
      BY <1>4, <3>1 DEF PutBack, Goes, EntriesExist
    <3>3. ~overlapped' => OwnConnections'
      BY <1>4, <3>1 DEF PutBack, Goes, OneInside, OwnConnections
    <3> QED
      BY <3>1, <3>2, <3>3
  <2>2. Sound'
    BY <1>4 DEF PutBack, Goes
  <2>3. Settled'
    BY <1>4 DEF PutBack, Goes
  <2>4. SlotsAreKept'
    BY <1>4, GoesOn DEF PutBack
  <2> QED
    BY <2>1, <2>2, <2>3, <2>4 DEF Kept
<1>5. CASE RollbackFails(t)
  <2>1. InTurn'
    <3>1. ~overlapped' => OneInside /\ EntriesExist /\ OwnConnections /\ OneInside'
      BY <1>5, GoesInTurn DEF RollbackFails, Leaves
    <3>2. ~overlapped' => EntriesExist'
      BY <1>5, <3>1 DEF RollbackFails, Leaves, Goes, EntriesExist
    <3>3. ~overlapped' => OwnConnections'
      BY <1>5, <3>1 DEF RollbackFails, Leaves, Goes, OneInside, OwnConnections
    <3> QED
      BY <3>1, <3>2, <3>3
  <2>2. Sound'
    BY <1>5 DEF RollbackFails, Leaves, Goes
  <2>3. Settled'
    BY <1>5 DEF RollbackFails, Leaves, Goes
  <2>4. SlotsAreKept'
    BY <1>5, GoesOn DEF RollbackFails, Leaves
  <2> QED
    BY <2>1, <2>2, <2>3, <2>4 DEF Kept
<1>6. CASE Close(t)
  <2>1. InTurn'
    <3>1. ~overlapped' => OneInside /\ EntriesExist /\ OwnConnections /\ OneInside'
      BY <1>6, GoesInTurn DEF Close
    <3>2. ~overlapped' => EntriesExist'
      BY <1>6, <3>1 DEF Close, Goes, EntriesExist
    <3>3. ~overlapped' => OwnConnections'
      BY <1>6, <3>1 DEF Close, Goes, OneInside, OwnConnections
    <3> QED
      BY <3>1, <3>2, <3>3
  <2>2. Sound'
    BY <1>6 DEF Close, Goes
  <2>3. Settled'
    BY <1>6 DEF Close, Goes
  <2>4. SlotsAreKept'
    BY <1>6, GoesOn DEF Close
  <2> QED
    BY <2>1, <2>2, <2>3, <2>4 DEF Kept
<1>7. CASE Forget(t)
  <2>1. InTurn'
    <3>1. ~overlapped' => OneInside /\ EntriesExist /\ OwnConnections /\ OneInside'
      BY <1>7, GoesInTurn DEF Forget, Leaves
    <3>2. ~overlapped' => EntriesExist'
      BY <1>7, <3>1 DEF Forget, Leaves, Goes, EntriesExist, OwnConnections
    <3>3. ~overlapped' => OwnConnections'
      BY <1>7, <3>1 DEF Forget, Leaves, Goes, OneInside, OwnConnections
    <3> QED
      BY <3>1, <3>2, <3>3
  <2>2. Sound'
    BY <1>7 DEF Forget, Leaves, Goes
  <2>3. Settled'
    BY <1>7 DEF Forget, Leaves, Goes
  <2>4. SlotsAreKept'
    BY <1>7, GoesOn DEF Forget, Leaves
  <2> QED
    BY <2>1, <2>2, <2>3, <2>4 DEF Kept
<1> QED
  BY <1>1, <1>2, <1>3, <1>4, <1>5, <1>6, <1>7 DEF Putconn

LEMMA KeptInvariant == Spec => []Kept
<1>1. Init => Kept
  BY DEF Init, Kept, InTurn, OneInside, EntriesExist, OwnConnections, Sound, SessionsExist,
          Settled, SlotsAreKept, Holding, Inside, Registered
<1>2. Invariants /\ Kept /\ [Next]_vars => Kept'
  <2> SUFFICES ASSUME Invariants, Kept, [Next]_vars PROVE Kept'
    OBVIOUS
  <2>1. ASSUME NEW t \in Threads, Getconn(t) \/ Body(t) \/ Putconn(t) PROVE Kept'
    BY <2>1, KeptGetconn, KeptBody, KeptPutconn
  <2>2. CASE PostgresStops \/ PostgresStarts \/ UNCHANGED vars
    BY <2>2 DEF PostgresStops, PostgresStarts, vars, Kept, InTurn, OneInside, EntriesExist,
                OwnConnections, Sound, SessionsExist, Settled, SlotsAreKept,
                server, pool, calls
  <2> QED
    BY <2>1, <2>2 DEF Next
<1> QED
  BY <1>1, <1>2, InvariantsHold, PTL DEF Spec

\* A slot is lost only to a race inside the pool or to Postgres stopping.
THEOREM SlotsLeakOnlyUnderFailure == Spec => []SlotsAreKept
  BY KeptInvariant, PTL DEF Kept

\* Without a race inside the pool, no acknowledged commit is reported as failed.
THEOREM CommitsAreReported == Spec => CommittedIsReported
<1> DEFINE Step ==
        \A t \in Threads :
            pc[t] # "idle" /\ tx[t] \in Tx /\ answer[t] = "ok" /\ ~overlapped'
                => answer'[t] = "ok"
<1>1. Invariants /\ Kept /\ [Next]_vars => [Step]_vars
  <2> SUFFICES ASSUME Invariants, Kept, Next, NEW t \in Threads, pc[t] # "idle", tx[t] \in Tx,
                      answer[t] = "ok", ~overlapped'
               PROVE  answer'[t] = "ok"
    OBVIOUS
  <2> USE DEF Invariants, TypeOK, Answered, Kept, Settled, Begins, Result, Holding, Registered,
              server, pool, calls
  <2>1. ASSUME NEW u \in Threads, Getconn(u) PROVE answer'[t] = "ok"
    BY <2>1 DEF Getconn, Take, Exhausted, MustConnect, Connect, ConnectFails, Register
  <2>2. ASSUME NEW u \in Threads, Body(u) PROVE answer'[t] = "ok"
    BY <2>2 DEF Body, Execute, StatementFails, SessionIsGone, Commit, CommitUnanswered
  <2>3. ASSUME NEW u \in Threads, Putconn(u) PROVE answer'[t] = "ok"
    <3>1. CASE Unkeyed(u)
      BY <3>1, GoesInTurn DEF Unkeyed, Leaves, EntriesExist
    <3>2. CASE Keep(u) \/ Discard(u) \/ PutBack(u) \/ Close(u)
      BY <3>2 DEF Keep, Discard, PutBack, Close
    <3>3. CASE RollbackFails(u)
      BY <3>3 DEF RollbackFails
    <3>4. CASE Forget(u)
      BY <3>4, GoesInTurn DEF Forget, Leaves, EntriesExist
    <3> QED
      BY <2>3, <3>1, <3>2, <3>3, <3>4 DEF Putconn
  <2>4. CASE PostgresStops \/ PostgresStarts
    BY <2>4 DEF PostgresStops, PostgresStarts
  <2> QED
    BY <2>1, <2>2, <2>3, <2>4 DEF Next
<1> QED
  BY <1>1, InvariantsHold, KeptInvariant, PTL DEF Spec, CommittedIsReported

-----------------------------------------------------------------------------
(* What a failed health check means *)

\* Until Postgres stops it answers, and every connection a call works with is open.
Open ==
    /\ up
    /\ \A t \in Threads : pc[t] \in {"taken", "working"} => status[conn[t]] # "closed"

ReadsSucceed == ~wasDown => Open

\* A step of thread t lets a reading call fail only where the pool is exhausted, or
\* Postgres refuses it something.
Reading(t) ==
    \A u \in Threads :
        ReadFails(u) /\ ~wasDown /\ ~overlapped'
            => u = t /\ (Exhausted(t, Read) \/ ServerRefuses(t))

\* An outage is forgotten when a call finds all at rest.
LEMMA BeginsOpen ==
    ASSUME ReadsSucceed, NEW t \in Threads, NEW x, NEW a, Begins(t, x, a), ~wasDown'
    PROVE  Open
<1>1. CASE AtRest
  BY <1>1 DEF AtRest, Open
<1>2. CASE ~AtRest
  BY <1>2 DEF ReadsSucceed, Begins
<1> QED
  BY <1>1, <1>2

LEMMA ReadingGetconn ==
    ASSUME Invariants, IdleIsClean, Kept, ReadsSucceed, NEW t \in Threads, Getconn(t)
    PROVE  ReadsSucceed' /\ Reading(t)
<1> USE PoolAssumption
        DEF Invariants, TypeOK, Apart, Exclusive, IdleIsClean, Answered, ReadsSucceed, Open, Reading,
            ReadFails, Goes, Result, Holding, Failures, server, pool
<1>1. ASSUME NEW x \in Tx \union {Read}, NEW c \in Conns, Take(t, x, c)
      PROVE  ReadsSucceed' /\ Reading(t)
  <2>1. Reading(t)
    BY <1>1 DEF Take, Begins
  <2>2. ~wasDown' => Open
    BY <1>1, BeginsOpen DEF Take
  <2>3. ReadsSucceed'
    BY <1>1, <2>2 DEF Take, Begins
  <2> QED
    BY <2>1, <2>3
<1>2. ASSUME NEW x \in Tx \union {Read}, Exhausted(t, x)
      PROVE  ReadsSucceed' /\ Reading(t)
  BY <1>2, BeginsOpen DEF Exhausted, Begins
<1>3. ASSUME NEW x \in Tx \union {Read}, MustConnect(t, x)
      PROVE  ReadsSucceed' /\ Reading(t)
  BY <1>3, BeginsOpen DEF MustConnect, Begins
<1>4. ASSUME NEW c \in Conns, Connect(t, c)
      PROVE  ReadsSucceed' /\ Reading(t)
  BY <1>4 DEF Connect, Free
<1>5. CASE ConnectFails(t)
  BY <1>5 DEF ConnectFails, ServerRefuses
<1>6. CASE Register(t)
  BY <1>6 DEF Register
<1> QED
  BY <1>1, <1>2, <1>3, <1>4, <1>5, <1>6, PoolAssumption DEF Getconn

LEMMA ReadingBody ==
    ASSUME Invariants, Kept, ReadsSucceed, NEW t \in Threads, Body(t)
    PROVE  ReadsSucceed' /\ Reading(t)
<1> USE PoolAssumption
        DEF Invariants, TypeOK, Apart, Exclusive, Kept, Sound, SessionsExist, ReadsSucceed, Open,
            Reading, ReadFails, Goes, Result, SetStatus, Holding, Failures, server, pool
<1>1. CASE Execute(t)
  BY <1>1 DEF Execute
<1>2. CASE StatementFails(t)
  BY <1>2 DEF StatementFails, ServerRefuses
<1>3. CASE SessionIsGone(t)
  BY <1>3 DEF SessionIsGone
<1>4. CASE Commit(t)
  BY <1>4 DEF Commit
<1>5. CASE CommitUnanswered(t)
  BY <1>5 DEF CommitUnanswered
<1> QED
  BY <1>1, <1>2, <1>3, <1>4, <1>5 DEF Body

LEMMA ReadingPutconn ==
    ASSUME Invariants, Kept, ReadsSucceed, NEW t \in Threads, Putconn(t)
    PROVE  ReadsSucceed' /\ Reading(t)
<1> USE PoolAssumption
        DEF Invariants, TypeOK, Apart, Exclusive, Kept, Sound, SessionsExist, ReadsSucceed, Open,
            Reading, ReadFails, Goes, Result, SetStatus, Holding, Registered, Failures, server, pool
<1>1. CASE Unkeyed(t)
  BY <1>1, GoesInTurn DEF Unkeyed, Leaves, EntriesExist
<1>2. CASE Keep(t) \/ Discard(t)
  BY <1>2 DEF Keep, Discard
<1>3. CASE PutBack(t)
  BY <1>3 DEF PutBack
<1>4. CASE RollbackFails(t)
  BY <1>4 DEF RollbackFails, Leaves
<1>5. CASE Close(t)
  BY <1>5 DEF Close
<1>6. CASE Forget(t)
  BY <1>6, GoesInTurn DEF Forget, Leaves, EntriesExist
<1> QED
  BY <1>1, <1>2, <1>3, <1>4, <1>5, <1>6 DEF Putconn

\* An exhausted pool without a lost slot is held by maxconn calls under way.
LEMMA ExhaustedIsHeld ==
    ASSUME TypeOK, NEW t \in Threads, Exhausted(t, Read), lost = {}
    PROVE  Cardinality({u \in Threads \ {t} : conn[u] # NoConn}) >= MaxConn
<1> DEFINE holders == {u \in Threads \ {t} : conn[u] # NoConn}
           registered == {u \in Threads : pc[u] \in Registered}
<1>1. Cardinality(registered) = MaxConn
  <2>1. Cardinality(lost) = 0 /\ IsFiniteSet(registered)
    BY FS_EmptySet, FS_Subset, PoolAssumption
  <2>2. Cardinality(registered) \in Nat
    BY <2>1, FS_CardinalityType
  <2> QED
    BY <2>1, <2>2 DEF Exhausted, UsedCount
<1>2. registered \subseteq holders
  BY DEF TypeOK, Exhausted, Begins, Registered
<1>3. IsFiniteSet(holders)
  BY FS_Subset, PoolAssumption
<1>4. Cardinality(registered) <= Cardinality(holders)
  BY <1>2, <1>3, FS_Subset
<1> QED
  BY <1>1, <1>4, <1>3, FS_CardinalityType, PoolAssumption

\* A health check that fails although Postgres has not stopped was refused by it, or
\* found every slot of the pool in the hands of another call.
THEOREM FailedHealthHasACause == Spec => HealthFailsForCause
<1> DEFINE Caused ==
        \A t \in Threads :
            ReadFails(t) /\ ~wasDown /\ ~overlapped' =>
                \/ ServerRefuses(t)
                \/ Cardinality({u \in Threads \ {t} : conn[u] # NoConn}) >= MaxConn
<1>1. Init => ReadsSucceed
  BY DEF Init, ReadsSucceed, Open
<1>2. Invariants /\ IdleIsClean /\ Kept /\ ReadsSucceed /\ [Next]_vars
          => ReadsSucceed' /\ [Caused]_vars
  <2> SUFFICES ASSUME Invariants, IdleIsClean, Kept, ReadsSucceed, [Next]_vars
               PROVE  ReadsSucceed' /\ [Caused]_vars
    OBVIOUS
  <2>1. ASSUME NEW t \in Threads, Getconn(t) \/ Body(t) \/ Putconn(t)
        PROVE  ReadsSucceed' /\ Caused
    <3>1. ReadsSucceed' /\ Reading(t)
      BY <2>1, ReadingGetconn, ReadingBody, ReadingPutconn
    <3>2. ASSUME ~wasDown, ~overlapped', Exhausted(t, Read)
          PROVE  lost = {}
      BY <3>2 DEF Kept, SlotsAreKept, Exhausted
    <3> QED
      BY <3>1, <3>2, ExhaustedIsHeld DEF Reading, Invariants
  <2>2. CASE PostgresStops \/ PostgresStarts
    <3>1. UNCHANGED calls /\ UNCHANGED status
      BY <2>2 DEF PostgresStops, PostgresStarts
    <3>2. \A t \in Threads : ~ReadFails(t)
      BY <3>1 DEF ReadFails, calls
    <3> QED
      BY <2>2, <3>1, <3>2 DEF PostgresStops, PostgresStarts, ReadsSucceed, Open, calls
  <2>3. CASE UNCHANGED vars
    BY <2>3 DEF vars, server, calls, ReadsSucceed, Open
  <2> QED
    BY <2>1, <2>2, <2>3 DEF Next
<1> QED
  BY <1>1, <1>2, InvariantsHold, IdleConnectionsAreClean, KeptInvariant, PTL
     DEF Spec, HealthFailsForCause

\* With a connection for every thread, a health check fails only of a Postgres that
\* stopped or refuses it, unless two calls were inside the pool at once: what run
\* busy_health shows takes more threads than connections.
THEOREM EnoughConnections ==
    ASSUME Cardinality(Threads) <= MaxConn
    PROVE  Spec => [][\A t \in Threads :
                         ReadFails(t) /\ ~overlapped' => wasDown \/ ServerRefuses(t)]_vars
<1>1. ASSUME NEW t \in Threads
      PROVE  ~(Cardinality({u \in Threads \ {t} : conn[u] # NoConn}) >= MaxConn)
  <2> DEFINE others == {u \in Threads \ {t} : conn[u] # NoConn}
  <2>1. /\ IsFiniteSet(Threads \ {t})
        /\ Cardinality(Threads \ {t}) = Cardinality(Threads) - 1
    BY <1>1, FS_RemoveElement, PoolAssumption
  <2>2. Cardinality(others) <= Cardinality(Threads \ {t}) /\ IsFiniteSet(others)
    BY <2>1, FS_Subset
  <2>3. Cardinality(others) \in Nat /\ Cardinality(Threads) \in Nat
    BY <2>2, FS_CardinalityType, PoolAssumption
  <2> QED
    BY <2>1, <2>2, <2>3, PoolAssumption
<1> DEFINE
      Caused ==
        \A t \in Threads :
            ReadFails(t) /\ ~wasDown /\ ~overlapped' =>
                \/ ServerRefuses(t)
                \/ Cardinality({u \in Threads \ {t} : conn[u] # NoConn}) >= MaxConn
      Refused ==
        \A t \in Threads : ReadFails(t) /\ ~overlapped' => wasDown \/ ServerRefuses(t)
<1>2. [Caused]_vars => [Refused]_vars
  BY <1>1
<1>3. Spec => [][Caused]_vars
  BY FailedHealthHasACause DEF HealthFailsForCause
<1> QED
  BY <1>2, <1>3, PTL

-----------------------------------------------------------------------------
(* The bound on connections *)

Busy == {t \in Threads : pc[t] \in Holding \union {"connecting"}}

\* As long as calls have not overlapped inside the pool, what is idle, taken or
\* being opened, and lost is no more than maxconn.
Bounded == ~overlapped => Cardinality(idle) + Cardinality(Busy) + Cardinality(lost) <= MaxConn

LEMMA Finite ==
    ASSUME TypeOK
    PROVE  /\ IsFiniteSet(idle) /\ IsFiniteSet(lost) /\ IsFiniteSet(Busy)
           /\ Cardinality(idle) \in Nat /\ Cardinality(lost) \in Nat /\ Cardinality(Busy) \in Nat
<1>1. IsFiniteSet(idle) /\ IsFiniteSet(lost) /\ IsFiniteSet(Busy)
  BY PoolAssumption, FS_Subset DEF TypeOK, Busy
<1> QED
  BY <1>1, FS_CardinalityType

\* Cardinalities of sets one element apart, and of a union.
LEMMA ElementBounds ==
    ASSUME NEW S, IsFiniteSet(S), NEW e
    PROVE  /\ Cardinality(S \union {e}) \in Nat /\ Cardinality(S \union {e}) <= Cardinality(S) + 1
           /\ Cardinality(S \ {e}) \in Nat /\ Cardinality(S \ {e}) <= Cardinality(S)
<1>1. Cardinality(S) \in Nat
  BY FS_CardinalityType
<1>2. Cardinality(S \union {e}) \in Nat /\ Cardinality(S \ {e}) \in Nat
  BY FS_AddElement, FS_RemoveElement, FS_CardinalityType
<1> QED
  BY <1>1, <1>2, FS_AddElement, FS_RemoveElement

LEMMA UnionBound ==
    ASSUME NEW S, NEW T, IsFiniteSet(S), IsFiniteSet(T)
    PROVE  /\ IsFiniteSet(S \union T)
           /\ Cardinality(S \union T) <= Cardinality(S) + Cardinality(T)
<1>1. IsFiniteSet(S \intersect T)
  BY FS_Subset
<1>2. /\ Cardinality(S) \in Nat /\ Cardinality(T) \in Nat
      /\ Cardinality(S \intersect T) \in Nat
  BY <1>1, FS_CardinalityType
<1>3. /\ IsFiniteSet(S \union T)
      /\ Cardinality(S \union T) =
           Cardinality(S) + Cardinality(T) - Cardinality(S \intersect T)
  BY FS_Union, Zenon
<1> QED
  BY <1>2, <1>3

\* Alone inside the pool, getconn counts exactly what is busy and lost.
LEMMA CountIsBusy ==
    ASSUME TypeOK, NEW t \in Threads, pc[t] = "idle",
           \A u \in Threads \ {t} : pc[u] \notin Inside
    PROVE  UsedCount = Cardinality(Busy) + Cardinality(lost)
<1>1. {u \in Threads : pc[u] \in Registered} = Busy
  BY DEF TypeOK, Busy, Registered, Holding, Inside
<1> QED
  BY <1>1 DEF UsedCount

\* So it is at rest.
LEMMA RestIsBounded ==
    ASSUME TypeOK, AtRest
    PROVE  Cardinality(idle) + Cardinality(Busy) + Cardinality(lost) <= MaxConn
<1>1. Busy = {} /\ lost = {} /\ Cardinality(idle) <= MaxConn
  BY DEF AtRest, Busy, Holding
<1> QED
  BY <1>1, Finite, FS_EmptySet, PoolAssumption

LEMMA BoundedGetconn ==
    ASSUME TypeOK, Bounded, NEW t \in Threads, Getconn(t)
    PROVE  Bounded'
<1> SUFFICES ASSUME ~overlapped'
             PROVE  Cardinality(idle)' + Cardinality(Busy)' + Cardinality(lost)' <= MaxConn
  BY DEF Bounded
<1>1. overlapped => AtRest
  BY GoesOn DEF Getconn, Take, Exhausted, MustConnect, Connect, ConnectFails, Register
<1>2. Cardinality(idle) + Cardinality(Busy) + Cardinality(lost) <= MaxConn
  BY <1>1, RestIsBounded DEF Bounded
<1> USE Finite, PoolAssumption
<1>3. ASSUME NEW x \in Tx \union {Read}, NEW c \in Conns, Take(t, x, c)
      PROVE  Cardinality(idle)' + Cardinality(Busy)' + Cardinality(lost)' <= MaxConn
  <2>1. Busy' = Busy \union {t} /\ t \notin Busy
    BY <1>3 DEF Take, Begins, Goes, Busy, Holding, TypeOK
  <2>2. idle' = idle \ {c} /\ c \in idle /\ lost' = lost
    BY <1>3 DEF Take
  <2>3. Cardinality(Busy)' = Cardinality(Busy) + 1
    BY <2>1, FS_AddElement
  <2>4. Cardinality(idle)' = Cardinality(idle) - 1
    BY <2>2, FS_RemoveElement
  <2> QED
    BY <1>2, <2>2, <2>3, <2>4
<1>4. ASSUME NEW x \in Tx \union {Read}, MustConnect(t, x)
      PROVE  Cardinality(idle)' + Cardinality(Busy)' + Cardinality(lost)' <= MaxConn
  <2>1. Busy' = Busy \union {t} /\ t \notin Busy
    BY <1>4 DEF MustConnect, Begins, Goes, Busy, Holding, TypeOK
  <2>2. idle' = idle /\ idle = {} /\ lost' = lost
    BY <1>4 DEF MustConnect, pool
  <2>3. \A u \in Threads \ {t} : pc[u] \notin Inside
    BY <1>4 DEF MustConnect, Goes, Overlaps, Inside
  <2>4. Cardinality(Busy) + Cardinality(lost) # MaxConn
    BY <1>4, <2>3, CountIsBusy DEF MustConnect, Begins
  <2>5. Cardinality(Busy)' = Cardinality(Busy) + 1 /\ Cardinality(idle) = 0
    BY <2>1, <2>2, FS_AddElement, FS_EmptySet
  <2> QED
    BY <1>2, <2>2, <2>4, <2>5
<1>5. CASE ConnectFails(t)
  <2>1. Busy' = Busy \ {t} /\ idle' = idle /\ lost' = lost
    BY <1>5 DEF ConnectFails, Goes, Busy, Holding, TypeOK, pool
  <2>2. Cardinality(Busy)' <= Cardinality(Busy) /\ Cardinality(Busy)' \in Nat
    BY <2>1, ElementBounds
  <2> QED
    BY <1>2, <2>1, <2>2
<1>6. CASE \/ \E x \in Tx \union {Read} : Exhausted(t, x)
           \/ \E c \in Conns : Connect(t, c)
           \/ Register(t)
  <2>1. Busy' = Busy /\ idle' = idle /\ lost' = lost
    BY <1>6 DEF Exhausted, Connect, Register, Begins, Goes, Busy, Holding, TypeOK, pool
  <2> QED
    BY <1>2, <2>1
<1> QED
  BY <1>3, <1>4, <1>5, <1>6, PoolAssumption DEF Getconn

LEMMA BoundedBody ==
    ASSUME TypeOK, Bounded, NEW t \in Threads, Body(t)
    PROVE  Bounded'
<1> USE DEF Goes, Busy, Holding, TypeOK, pool
<1>1. ~overlapped' => ~overlapped
  BY GoesOn DEF Body, Execute, StatementFails, SessionIsGone, Commit, CommitUnanswered
<1>2. Busy' = Busy
  BY DEF Body, Execute, StatementFails, SessionIsGone, Commit, CommitUnanswered
<1>3. idle' = idle /\ lost' = lost
  BY DEF Body, Execute, StatementFails, SessionIsGone, Commit, CommitUnanswered
<1> QED
  BY <1>1, <1>2, <1>3 DEF Bounded

LEMMA BoundedPutconn ==
    ASSUME TypeOK, Bounded, NEW t \in Threads, Putconn(t)
    PROVE  Bounded'
<1> SUFFICES ASSUME ~overlapped'
             PROVE  Cardinality(idle)' + Cardinality(Busy)' + Cardinality(lost)' <= MaxConn
  BY DEF Bounded
<1>1. Cardinality(idle) + Cardinality(Busy) + Cardinality(lost) <= MaxConn
  BY GoesOn DEF Bounded, Putconn, Unkeyed, Keep, Discard, PutBack, RollbackFails, Close, Forget,
         Leaves
<1>2. Cardinality(Busy \ {t}) = IF t \in Busy THEN Cardinality(Busy) - 1 ELSE Cardinality(Busy)
  BY Finite, FS_RemoveElement
<1>3. /\ Cardinality(idle \union {conn[t]}) \in Nat
      /\ Cardinality(idle \union {conn[t]}) <= Cardinality(idle) + 1
      /\ Cardinality(lost \union {conn[t]}) \in Nat
      /\ Cardinality(lost \union {conn[t]}) <= Cardinality(lost) + 1
  BY Finite, ElementBounds
<1>4. CASE Unkeyed(t) \/ RollbackFails(t)
  <2>1. Busy' = Busy \ {t} /\ t \in Busy
    BY <1>4 DEF Unkeyed, RollbackFails, Leaves, Goes, Busy, Holding, TypeOK
  <2>2. idle' = idle /\ lost' = lost \union {conn[t]}
    BY <1>4 DEF Unkeyed, RollbackFails
  <2> QED
    BY <1>1, <1>2, <1>3, <2>1, <2>2, Finite, PoolAssumption
<1>5. CASE PutBack(t)
  <2>1. Busy' = Busy \ {t} /\ t \in Busy
    BY <1>5 DEF PutBack, Goes, Busy, Holding, TypeOK
  <2>2. idle' = idle \union {conn[t]} /\ lost' = lost
    BY <1>5 DEF PutBack
  <2> QED
    BY <1>1, <1>2, <1>3, <2>1, <2>2, Finite, PoolAssumption
<1>6. CASE Close(t)
  <2>1. Busy' = Busy \ {t} /\ t \in Busy /\ idle' = idle /\ lost' = lost
    BY <1>6 DEF Close, Goes, Busy, Holding, TypeOK, pool
  <2> QED
    BY <1>1, <1>2, <2>1, Finite, PoolAssumption
<1>7. CASE Keep(t) \/ Discard(t) \/ Forget(t)
  <2>1. Busy' = Busy
    BY <1>7 DEF Keep, Discard, Forget, Leaves, Goes, Busy, Holding, TypeOK
  <2>2. idle' = idle /\ lost' = lost
    BY <1>7 DEF Keep, Discard, Forget, pool
  <2> QED
    BY <1>1, <2>1, <2>2
<1> QED
  BY <1>4, <1>5, <1>6, <1>7 DEF Putconn

LEMMA BoundedInvariant == Spec => []Bounded
<1>1. Init => Bounded
  <2> SUFFICES ASSUME Init PROVE Bounded
    OBVIOUS
  <2>1. Busy = {} /\ lost = {}
    BY DEF Init, Busy, Holding
  <2>2. Cardinality(idle) = MinConn
    BY DEF Init
  <2> QED
    BY <2>1, <2>2, FS_EmptySet, PoolAssumption DEF Bounded
<1>2. TypeOK /\ Bounded /\ [Next]_vars => Bounded'
  <2> SUFFICES ASSUME TypeOK, Bounded, [Next]_vars PROVE Bounded'
    OBVIOUS
  <2>1. ASSUME NEW t \in Threads, Getconn(t) \/ Body(t) \/ Putconn(t) PROVE Bounded'
    BY <2>1, BoundedGetconn, BoundedBody, BoundedPutconn
  <2>2. CASE PostgresStops \/ PostgresStarts \/ UNCHANGED vars
    BY <2>2 DEF PostgresStops, PostgresStarts, vars, Bounded, Busy, pool, calls
  <2> QED
    BY <2>1, <2>2 DEF Next
<1> QED
  BY <1>1, <1>2, TypeCorrect, PTL DEF Spec

\* Sessions are among what is idle, held or lost.
LEMMA SessionsAreBounded ==
    ASSUME TypeOK, NoOrphanSessions
    PROVE  Cardinality(live) <= Cardinality(idle) + Cardinality(Busy) + Cardinality(lost)
<1> DEFINE H == {t \in Threads : pc[t] \in Holding}
           held == {conn[t] : t \in H}
           f == [t \in H |-> conn[t]]
<1>1. IsFiniteSet(H) /\ Cardinality(H) <= Cardinality(Busy)
  BY Finite, FS_Subset DEF Busy
<1>2. f \in Surjection(H, held)
  BY DEF Surjection
<1>3. IsFiniteSet(held) /\ Cardinality(held) <= Cardinality(H)
  BY <1>1, <1>2, FS_Surjection
<1>4. /\ IsFiniteSet(idle \union held)
      /\ Cardinality(idle \union held) <= Cardinality(idle) + Cardinality(held)
  BY <1>3, Finite, UnionBound
<1>5. /\ IsFiniteSet((idle \union held) \union lost)
      /\ Cardinality((idle \union held) \union lost)
            <= Cardinality(idle \union held) + Cardinality(lost)
  BY <1>4, Finite, UnionBound
<1>6. live \subseteq (idle \union held) \union lost
  BY DEF NoOrphanSessions
<1>7. Cardinality(live) <= Cardinality((idle \union held) \union lost)
  BY <1>5, <1>6, FS_Subset
<1>8. /\ Cardinality(live) \in Nat /\ Cardinality(H) \in Nat /\ Cardinality(held) \in Nat
      /\ Cardinality(idle \union held) \in Nat
      /\ Cardinality((idle \union held) \union lost) \in Nat
  BY <1>1, <1>3, <1>4, <1>5, <1>6, FS_Subset, FS_CardinalityType
<1> QED
  BY <1>1, <1>3, <1>4, <1>5, <1>7, <1>8, Finite

\* Used by one thread at a time, the pool keeps to maxconn.
THEOREM PoolIsBounded == Spec => []WithinMaxConn
<1>1. TypeOK /\ NoOrphanSessions /\ Bounded => WithinMaxConn
  <2> SUFFICES ASSUME TypeOK, NoOrphanSessions, Bounded, ~overlapped
               PROVE  Cardinality(live) <= MaxConn
    BY DEF WithinMaxConn
  <2>1. Cardinality(live) \in Nat
    BY PoolAssumption, FS_Subset, FS_CardinalityType DEF TypeOK
  <2> QED
    BY <2>1, SessionsAreBounded, Finite, PoolAssumption DEF Bounded
<1> QED
  BY <1>1, TypeCorrect, SessionsAreAccountedFor, BoundedInvariant, PTL
=============================================================================
