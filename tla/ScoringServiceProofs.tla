------------------------ MODULE ScoringServiceProofs ------------------------
(***************************************************************************)
(* Proofs about ScoringService, for any number of request threads, any     *)
(* length of the topic and any size of a batch.                            *)
(***************************************************************************)
EXTENDS ScoringService, TLAPS

Working == {"scoring", "inserting"}

\* Where the consumer stands in its batch.
ThreadInv ==
    /\ cons \in Working => next \in 1..position - 1
    /\ cons \notin {"polling"} \union Working => position = 0
    /\ cons = "connecting" => tries > 0
    /\ proc = "down" => cons = "none"
    /\ \A h \in HttpThreads : http[h] # "idle" => httpTx[h] \in HttpTx

Inv == TypeOK /\ ThreadInv

\* The producer's step keeps the type and the thread's frame.
LEMMA PublishInv == ASSUME Inv, Publish PROVE Inv'
<1>1. /\ published' = published + 1 /\ published' \in 0..MaxPublished
      /\ 0..published + 1 \subseteq 0..published' + 1 /\ 1..published \subseteq 1..published'
  BY ServiceAssumption DEF Inv, TypeOK, Publish
<1>2. UNCHANGED <<kafkaUp, committed, proc, thread, requests, counted, stores, history>>
  BY DEF Publish
<1> QED  BY <1>1, <1>2
         DEF Inv, TypeOK, ThreadInv, thread, requests, stores, history, Working

\* The end of the process, in an exit or a crash, keeps them.
LEMMA ProcessEndsInv == ASSUME Inv, ProcessEnds PROVE Inv'
<1>1. /\ http' \in [HttpThreads -> {"idle", "scoring", "inserting"}]
      /\ httpTx' \in [HttpThreads -> HttpTx \union {NoTx}]
      /\ answer' \in [HttpThreads -> {"none", "200", "500"}]
      /\ counted' \in [Actors -> SUBSET Labels]
      /\ \A h \in HttpThreads : http'[h] = "idle"
  BY DEF ProcessEnds
<1>2. proc' = "down" /\ cons' = "none" /\ tries' = 0 /\ position' = 0 /\ next' = 0
  BY DEF ProcessEnds
<1>3. unsaved' \subseteq handled' /\ UNCHANGED <<broker, stores, handled, skipped>>
  BY DEF ProcessEnds, GivenUp, Inv, TypeOK
<1>4. 0 \in 0..Retries /\ 0 \in 0..published + 1
  BY ServiceAssumption DEF Inv, TypeOK
<1> QED  BY <1>1, <1>2, <1>3, <1>4 DEF Inv, TypeOK, ThreadInv, broker, stores, Working

\* The steps of the process's life, and the broker's, keep them.
LEMMA LifeInv ==
    ASSUME Inv, BrokerChanges \/ Start \/ BeginStop \/ ClosePool \/ Exit \/ Crash
    PROVE  Inv'
<1>1. CASE BrokerChanges
  BY <1>1 DEF Inv, TypeOK, ThreadInv, BrokerChanges, thread, requests, stores, history
<1>2. CASE Start
  <2>1. Retries \in 0..Retries /\ Retries > 0
    BY ServiceAssumption
  <2> QED  BY <1>2, <2>1
           DEF Inv, TypeOK, ThreadInv, Start, broker, requests, stores, history, Working
<1>3. CASE BeginStop \/ ClosePool
  BY <1>3 DEF Inv, TypeOK, ThreadInv, BeginStop, ClosePool, broker, thread, requests,
              stores, history
<1>4. CASE Exit \/ Crash
  BY <1>4, ProcessEndsInv DEF Exit, Crash
<1> QED  BY <1>1, <1>2, <1>3, <1>4

\* Connecting and joining keep them.
LEMMA ConnectInv == ASSUME Inv, ConnectOk \/ ConnectFails \/ Join PROVE Inv'
<1> USE ServiceAssumption
<1>1. CASE ConnectOk
  BY <1>1 DEF Inv, TypeOK, ThreadInv, ConnectOk, broker, requests, stores, history, Working
<1>2. CASE ConnectFails
  BY <1>2 DEF Inv, TypeOK, ThreadInv, ConnectFails, broker, requests, stores, history, Working
<1>3. CASE Join
  <2>1. position' \in 0..published + 1 /\ skipped' \subseteq 1..published /\ position = 0
    BY <1>3 DEF Inv, TypeOK, Join
  <2>2. next = 0
    BY <2>1 DEF Inv, TypeOK
  <2>3. next \in 0..position'
    BY <2>1, <2>2
  <2>4. unsaved' \subseteq handled' /\ UNCHANGED handled
    BY <1>3 DEF Inv, TypeOK, Join
  <2> QED  BY <1>3, <2>1, <2>3, <2>4
           DEF Inv, TypeOK, ThreadInv, Join, broker, requests, stores, Working
<1> QED  BY <1>1, <1>2, <1>3

\* A poll frames the batch it returns.
LEMMA PollInv ==
    ASSUME Inv, NEW commits \in BOOLEAN, NEW n \in 0..MaxPoll, Poll(commits, n)
    PROVE  Inv'
<1> USE ServiceAssumption
<1>1. /\ position \in 1..published + 1 /\ position + n <= published + 1
      /\ position' = position + n /\ next' = position
      /\ committed' \in {committed, position}
      /\ cons' = IF n > 0 THEN "scoring" ELSE "polling"
  BY DEF Inv, TypeOK, Poll
<1>2. /\ position' \in 0..published + 1 /\ committed' \in 0..published + 1
      /\ next' \in 0..position' /\ (n > 0 => next' \in 1..position' - 1)
  BY <1>1 DEF Inv, TypeOK
<1> QED  BY <1>1, <1>2 DEF Inv, TypeOK, ThreadInv, Poll, requests, stores, history, Working

\* The record the loop is at has been published and can be marked handled.
LEMMA NextRecordInv ==
    ASSUME Inv, cons \in Working, NextRecord, UNCHANGED <<published, position>>
    PROVE  /\ next \in 1..published /\ handled' \subseteq 1..published
           /\ unsaved' \subseteq handled'
           /\ next' \in 0..position /\ cons' \in {"polling", "scoring"}
           /\ cons' = "scoring" => next' \in 1..position - 1
<1>1. /\ position \in 0..published + 1 /\ published \in Nat /\ next \in 1..position - 1
      /\ handled \subseteq 1..published /\ unsaved \subseteq handled
  BY ServiceAssumption DEF Inv, TypeOK, ThreadInv
<1> QED  BY <1>1 DEF NextRecord

\* Every outcome of a record keeps the type and the thread's frame.
LEMMA HandleRecordInv == ASSUME Inv, HandleRecord PROVE Inv'
<1> USE ServiceAssumption
<1>1. cons \in Working /\ next \in Offsets /\ Consumer \in Actors
  BY DEF Inv, TypeOK, ThreadInv, HandleRecord, ConsumerScores, ConsumerScoreRaises,
         ConsumerInserts, ConsumerInsertRaises, Working, Offsets, Actors
<1>2. counted' \in [Actors -> SUBSET Labels]
  BY <1>1 DEF Inv, TypeOK, HandleRecord, ConsumerScores, ConsumerScoreRaises,
              ConsumerInserts, ConsumerInsertRaises, Labels, requests
<1>3. recorded' \subseteq HttpTx \union Offsets /\ rows' \subseteq HttpTx \union Offsets
  BY <1>1 DEF Inv, TypeOK, HandleRecord, ConsumerScores, ConsumerScoreRaises,
              ConsumerInserts, ConsumerInsertRaises
<1>4. UNCHANGED <<broker, proc, tries, position, requests, skipped>>
  BY DEF HandleRecord, ConsumerScores, ConsumerScoreRaises, ConsumerInserts,
         ConsumerInsertRaises, history
<1>5. CASE NextRecord
  <2>1. /\ handled' \subseteq 1..published /\ unsaved' \subseteq handled'
        /\ next' \in 0..position /\ cons' \in {"polling", "scoring"}
        /\ cons' = "scoring" => next' \in 1..position - 1
    BY <1>1, <1>4, <1>5, NextRecordInv DEF broker
  <2>2. proc # "down"
    BY <1>1 DEF Inv, ThreadInv, Working
  <2> QED  BY <1>2, <1>3, <1>4, <2>1, <2>2
           DEF Inv, TypeOK, ThreadInv, broker, requests, Working
<1>6. CASE cons' = "inserting" /\ UNCHANGED <<next, handled, unsaved>>
  BY <1>1, <1>2, <1>3, <1>4, <1>6 DEF Inv, TypeOK, ThreadInv, broker, requests, Working
<1> QED  BY <1>5, <1>6 DEF HandleRecord, ConsumerScores, ConsumerScoreRaises,
                           ConsumerInserts, ConsumerInsertRaises, history

\* Every way of leaving the group keeps them.
LEMMA LeaveGroupInv ==
    ASSUME Inv, NEW commits \in BOOLEAN,
           LosesGroup(commits) \/ ConsumerStops(commits) \/ PollRaises(commits)
    PROVE  Inv'
<1>1. /\ position' = 0 /\ next' = 0 /\ committed' \in {committed, position}
      /\ unsaved' \subseteq handled
      /\ UNCHANGED <<kafkaUp, published, proc, tries, requests, counted, stores, handled,
                     skipped>>
  BY DEF LosesGroup, ConsumerStops, PollRaises, LeaveGroup, GivenUp, Inv, TypeOK
<1>2. cons' \in {"polling", "closed", "dead"} /\ cons = "polling"
  BY DEF LosesGroup, ConsumerStops, PollRaises
<1>3. committed' \in 0..published + 1 /\ 0 \in 0..published + 1
  BY <1>1, ServiceAssumption DEF Inv, TypeOK
<1> QED  BY <1>1, <1>2, <1>3 DEF Inv, TypeOK, ThreadInv, requests, stores, Working

\* The steps of a request keep them.
LEMMA HttpInv == ASSUME Inv, NEW h \in HttpThreads, Http(h) PROVE Inv'
<1>1. h \in Actors
  BY DEF Actors
<1>2. counted' \in [Actors -> SUBSET Labels]
  BY <1>1 DEF Inv, TypeOK, Http, Post, HttpScores, HttpScoreRaises, HttpInserts,
              HttpInsertRaises, Labels
<1>3. /\ http' \in [HttpThreads -> {"idle", "scoring", "inserting"}]
      /\ answer' \in [HttpThreads -> {"none", "200", "500"}]
      /\ httpTx' \in [HttpThreads -> HttpTx \union {NoTx}]
      /\ \A g \in HttpThreads : http'[g] # "idle" => httpTx'[g] \in HttpTx
  BY DEF Inv, TypeOK, ThreadInv, Http, Post, HttpScores, HttpScoreRaises, HttpInserts,
         HttpInsertRaises, Respond
<1>4. recorded' \subseteq HttpTx \union Offsets /\ rows' \subseteq HttpTx \union Offsets
  BY DEF Inv, TypeOK, ThreadInv, Http, Post, HttpScores, HttpScoreRaises, HttpInserts,
         HttpInsertRaises, stores
<1>5. UNCHANGED <<broker, proc, thread, history>>
  BY DEF Http, Post, HttpScores, HttpScoreRaises, HttpInserts, HttpInsertRaises
<1> QED  BY <1>2, <1>3, <1>4, <1>5
         DEF Inv, TypeOK, ThreadInv, broker, thread, history, Working

\* Every step keeps the type and the thread's frame.
LEMMA InvStep == ASSUME Inv, [Next]_vars PROVE Inv'
<1>1. CASE Publish
  BY <1>1, PublishInv
<1>2. CASE BrokerChanges \/ Start \/ BeginStop \/ ClosePool \/ Exit \/ Crash
  BY <1>2, LifeInv
<1>3. CASE Consume
  BY <1>3, ConnectInv, PollInv, HandleRecordInv, LeaveGroupInv DEF Consume, Fetch
<1>4. CASE \E h \in HttpThreads : Http(h)
  BY <1>4, HttpInv
<1>5. CASE UNCHANGED vars
  BY <1>5 DEF Inv, TypeOK, ThreadInv, vars, broker, thread, requests, stores, history,
              Working
<1> QED  BY <1>1, <1>2, <1>3, <1>4, <1>5 DEF Next

\* The service's state keeps its type; in particular no offset the consumer
\* holds or has committed lies beyond the topic's end.
THEOREM TypeCorrect == Spec => [](TypeOK /\ ThreadInv)
<1>1. Init => Inv
  <2>1. /\ 0 \in 0..MaxPublished /\ 0 \in 0..0 + 1 /\ 0 \in 0..0 /\ 0 \in 0..Retries
    BY ServiceAssumption
  <2> QED  BY <2>1 DEF Init, Inv, TypeOK, ThreadInv, Working
<1>2. Inv /\ [Next]_vars => Inv'
  BY InvStep
<1> QED  BY <1>1, <1>2, PTL DEF Spec, Inv

-----------------------------------------------------------------------------
(* At-least-once delivery. *)

Done == handled \union skipped

\* The strengthening of CommittedWereHandled: so was whatever the position
\* covers when it may be committed, and whatever precedes the current record.
DeliveryInv ==
    /\ CommittedWereHandled
    /\ cons = "polling" => \A o \in Offsets : o < position => o \in Done
    /\ cons \in Working => \A o \in Offsets : o < next => o \in Done

\* No step commits, or moves past, what was not handled.
LEMMA DeliveryInvStep == ASSUME Inv, DeliveryInv, [Next]_vars PROVE DeliveryInv'
<1> USE ServiceAssumption
<1>0. Offsets \subseteq Nat /\ published \in Nat /\ position \in Nat /\ committed \in Nat
      /\ next \in Nat
  BY DEF Inv, TypeOK, Offsets
<1>1. CASE Join
  <2>1. /\ position' = IF committed = 0 THEN published + 1 ELSE committed
        /\ Done \subseteq Done' /\ committed' = committed /\ cons' = "polling"
        /\ committed = 0 => 1..published \subseteq Done'
    BY <1>1 DEF Join, Done, broker
  <2>2. \A o \in Offsets : o < position' => o \in Done'
    BY <1>0, <2>1 DEF DeliveryInv, CommittedWereHandled, Offsets, Done
  <2> QED  BY <2>1, <2>2 DEF DeliveryInv, CommittedWereHandled, Done, Working
<1>2. ASSUME NEW commits \in BOOLEAN, NEW n \in 0..MaxPoll, Poll(commits, n)
      PROVE  DeliveryInv'
  <2>1. /\ cons = "polling" /\ Done' = Done /\ committed' \in {committed, position}
        /\ next' = position /\ position' = position + n
        /\ cons' = IF n > 0 THEN "scoring" ELSE "polling"
    BY <1>2 DEF Poll, Done, history
  <2>2. cons' = "polling" => position' = position
    BY <1>0, <2>1
  <2> QED  BY <2>1, <2>2 DEF DeliveryInv, CommittedWereHandled, Done, Working
<1>3. ASSUME HandleRecord, NextRecord
      PROVE  DeliveryInv'
  <2>1. /\ cons \in Working /\ next' = next + 1 /\ handled' = handled \union {next}
        /\ cons' = IF next + 1 = position THEN "polling" ELSE "scoring"
        /\ UNCHANGED <<committed, position, skipped>>
    BY <1>3 DEF NextRecord, HandleRecord, ConsumerScores, ConsumerScoreRaises,
                ConsumerInserts, ConsumerInsertRaises, Working, broker, history
  <2>2. \A o \in Offsets : o < next + 1 => o \in Done'
    BY <1>0, <2>1 DEF DeliveryInv, Done
  <2> QED  BY <2>1, <2>2 DEF DeliveryInv, CommittedWereHandled, Done, Working
<1>4. CASE ConsumerScores
  BY <1>4 DEF ConsumerScores, DeliveryInv, CommittedWereHandled, Done, Working, broker,
              history
<1>5. ASSUME NEW commits \in BOOLEAN,
             LosesGroup(commits) \/ ConsumerStops(commits) \/ PollRaises(commits)
      PROVE  DeliveryInv'
  <2>1. /\ cons = "polling" /\ cons' \in {"polling", "closed", "dead"}
        /\ committed' \in {committed, position} /\ position' = 0
        /\ UNCHANGED <<handled, skipped>>
    BY <1>5 DEF LosesGroup, ConsumerStops, PollRaises, LeaveGroup
  <2>2. \A o \in Offsets : ~(o < 0)
    BY <1>0
  <2> QED  BY <2>1, <2>2 DEF DeliveryInv, CommittedWereHandled, Done, Working
<1>6. CASE Exit \/ Crash
  <2>1. cons' = "none" /\ UNCHANGED <<committed, handled, skipped>>
    BY <1>6 DEF Exit, Crash, ProcessEnds, broker
  <2> QED  BY <2>1 DEF DeliveryInv, CommittedWereHandled, Done, Working
<1>7. CASE Start \/ ConnectOk \/ ConnectFails
  <2>1. /\ cons' \in {"connecting", "polling", "dead"} /\ position' = 0
        /\ UNCHANGED <<committed, handled, skipped>>
    BY <1>7 DEF Start, ConnectOk, ConnectFails, Inv, ThreadInv, Working, broker, history
  <2>2. \A o \in Offsets : ~(o < 0)
    BY <1>0
  <2> QED  BY <2>1, <2>2 DEF Done, DeliveryInv, CommittedWereHandled, Working
<1>8. CASE Publish \/ BrokerChanges \/ BeginStop \/ ClosePool
           \/ (\E h \in HttpThreads : Http(h)) \/ UNCHANGED vars
  BY <1>8 DEF Publish, BrokerChanges, BeginStop, ClosePool, Http, Post, HttpScores,
              HttpScoreRaises, HttpInserts, HttpInsertRaises, vars, broker, thread, history,
              DeliveryInv, CommittedWereHandled, Done
<1> QED  BY <1>1, <1>2, <1>3, <1>4, <1>5, <1>6, <1>7, <1>8
         DEF Next, Consume, Fetch, HandleRecord, ConsumerScoreRaises, ConsumerInserts,
             ConsumerInsertRaises

\* The stream is consumed at least once: the committed offset never passes a
\* record the loop has not handled.
THEOREM AtLeastOnce == Spec => []CommittedWereHandled
<1>1. Init => DeliveryInv
  BY DEF Init, DeliveryInv, CommittedWereHandled, Offsets, Working
<1>2. Inv /\ DeliveryInv /\ [Next]_vars => DeliveryInv'
  BY DeliveryInvStep
<1>3. DeliveryInv => CommittedWereHandled
  BY DEF DeliveryInv
<1> QED  BY <1>1, <1>2, <1>3, TypeCorrect, PTL DEF Spec, Inv

-----------------------------------------------------------------------------
(* The abstract delivery of the topic. *)

\* The strengthening that the refinement needs besides DeliveryInv: the group's
\* offset is never ahead of what the loop is about to poll or to handle.
CommitInv ==
    /\ cons = "polling" /\ position > 0 => committed <= position
    /\ cons \in Working => committed <= next

\* A step within the thread and the process keeps the offset behind.
LEMMA CommitInvStep == ASSUME Inv, CommitInv, [Next]_vars PROVE CommitInv'
<1> USE ServiceAssumption
<1>0. /\ published \in Nat /\ position \in Nat /\ committed \in Nat /\ next \in Nat
      /\ committed <= published + 1
      /\ cons \notin {"polling"} \union Working => position = 0
  BY DEF Inv, TypeOK, ThreadInv
<1>1. CASE Join
  BY <1>0, <1>1 DEF Join, CommitInv, Working, broker
<1>2. ASSUME NEW commits \in BOOLEAN, NEW n \in 0..MaxPoll, Poll(commits, n)
      PROVE  CommitInv'
  <2>1. /\ cons = "polling" /\ position > 0 /\ committed' \in {committed, position}
        /\ next' = position /\ position' = position + n
    BY <1>2 DEF Poll
  <2>2. committed' <= position
    BY <1>0, <2>1 DEF CommitInv
  <2>3. committed' \in Nat /\ position <= position'
    BY <1>0, <2>1
  <2> QED  BY <1>0, <2>1, <2>2, <2>3 DEF CommitInv
<1>3. ASSUME HandleRecord, NextRecord
      PROVE  CommitInv'
  <2>1. /\ cons \in Working /\ next' = next + 1 /\ UNCHANGED <<committed, position>>
        /\ cons' = IF next + 1 = position THEN "polling" ELSE "scoring"
    BY <1>3 DEF NextRecord, HandleRecord, ConsumerScores, ConsumerScoreRaises,
                ConsumerInserts, ConsumerInsertRaises, Working, broker
  <2> QED  BY <1>0, <2>1 DEF CommitInv, Working
<1>4. CASE ConsumerScores
  BY <1>4 DEF ConsumerScores, CommitInv, Working, broker, history
<1>5. ASSUME NEW commits \in BOOLEAN,
             LosesGroup(commits) \/ ConsumerStops(commits) \/ PollRaises(commits)
      PROVE  CommitInv'
  <2>1. position' = 0 /\ cons' \in {"polling", "closed", "dead"}
    BY <1>5 DEF LosesGroup, ConsumerStops, PollRaises, LeaveGroup
  <2> QED  BY <2>1 DEF CommitInv, Working
<1>6. CASE Exit \/ Crash
  BY <1>6 DEF Exit, Crash, ProcessEnds, CommitInv, Working
<1>7. CASE Start \/ ConnectOk \/ ConnectFails
  BY <1>0, <1>7 DEF Start, ConnectOk, ConnectFails, CommitInv, Inv, ThreadInv, Working
<1>8. CASE Publish \/ BrokerChanges \/ BeginStop \/ ClosePool
           \/ (\E h \in HttpThreads : Http(h)) \/ UNCHANGED vars
  BY <1>8 DEF Publish, BrokerChanges, BeginStop, ClosePool, Http, Post, HttpScores,
              HttpScoreRaises, HttpInserts, HttpInsertRaises, vars, broker, thread, CommitInv
<1> QED  BY <1>1, <1>2, <1>3, <1>4, <1>5, <1>6, <1>7, <1>8
         DEF Next, Consume, Fetch, HandleRecord, ConsumerScoreRaises, ConsumerInserts,
             ConsumerInsertRaises

\* What DeliveryInv says of an offset, in the abstract specification's words.
LEMMA AllBeforeIs ==
    ASSUME Inv, NEW o \in 0..published + 1, \A p \in Offsets : p < o => p \in Done
    PROVE  Topic!AllBefore(o)
<1>1. published \in 0..MaxPublished /\ MaxPublished \in Nat
  BY ServiceAssumption DEF Inv, TypeOK
<1>2. \A p \in 1..(o - 1) : p \in Offsets /\ p < o
  BY <1>1 DEF Offsets
<1> QED  BY <1>2 DEF Topic!AllBefore, Done

\* The commit of a position, where the code commits one, is an abstract commit.
LEMMA CommitIsAbstract ==
    ASSUME Inv, DeliveryInv, CommitInv, cons = "polling", committed' \in {committed, position},
           committed' = position => position > 0,
           UNCHANGED <<published, handled, skipped>>
    PROVE  [Topic!Next]_(Topic!vars)
<1>1. CASE committed' = committed
  BY <1>1 DEF Topic!vars
<1>2. CASE committed' = position
  <2>1. published \in Nat /\ position \in 1..published + 1 /\ committed <= position
    BY <1>2, ServiceAssumption DEF Inv, TypeOK, CommitInv
  <2>2. Topic!AllBefore(position)
    BY <2>1, AllBeforeIs DEF DeliveryInv
  <2>3. Topic!CommitUpTo(position)
    BY <1>2, <2>1, <2>2 DEF Topic!CommitUpTo
  <2> QED  BY <2>1, <2>3 DEF Topic!Next
<1> QED  BY <1>1, <1>2

\* Every step of the service is one of the topic's delivery, or none of its business.
LEMMA DeliveryStep ==
    ASSUME Inv, DeliveryInv, CommitInv, [Next]_vars
    PROVE  [Topic!Next]_(Topic!vars)
<1> USE ServiceAssumption
<1>1. CASE Publish
  BY <1>1 DEF Publish, history, Topic!Publish, Topic!Next
<1>2. CASE Join
  <2>1. CASE committed = 0
    BY <1>2, <2>1 DEF Join, broker, Topic!SkipToEnd, Topic!Next
  <2>2. CASE committed # 0
    BY <1>2, <2>2 DEF Join, broker, Topic!vars
  <2> QED  BY <2>1, <2>2
<1>3. ASSUME NEW commits \in BOOLEAN, NEW n \in 0..MaxPoll, Poll(commits, n)
      PROVE  [Topic!Next]_(Topic!vars)
  <2>1. /\ cons = "polling" /\ committed' \in {committed, position} /\ position > 0
        /\ UNCHANGED <<published, handled, skipped>>
    BY <1>3 DEF Poll, history
  <2> QED  BY <2>1, CommitIsAbstract
<1>4. ASSUME HandleRecord, NextRecord
      PROVE  [Topic!Next]_(Topic!vars)
  <2>1. /\ cons \in Working /\ handled' = handled \union {next}
        /\ UNCHANGED <<published, committed, skipped>>
    BY <1>4 DEF NextRecord, HandleRecord, ConsumerScores, ConsumerScoreRaises,
                ConsumerInserts, ConsumerInsertRaises, Working, broker, history
  <2>2. next \in 1..published /\ published \in Nat
    BY <2>1 DEF Inv, TypeOK, ThreadInv
  <2>3. committed <= next /\ Topic!AllBefore(next)
    BY <2>1, <2>2, AllBeforeIs DEF CommitInv, DeliveryInv
  <2>4. Topic!Handle(next)
    BY <2>1, <2>3 DEF Topic!Handle
  <2> QED  BY <2>2, <2>4 DEF Topic!Next
<1>5. CASE ConsumerScores
  BY <1>5 DEF ConsumerScores, broker, history, Topic!vars
<1>6. ASSUME NEW commits \in BOOLEAN,
             LosesGroup(commits) \/ ConsumerStops(commits) \/ PollRaises(commits)
      PROVE  [Topic!Next]_(Topic!vars)
  <2>1. /\ cons = "polling"
        /\ commits => position > 0
        /\ committed' = IF commits THEN position ELSE committed
        /\ UNCHANGED <<published, handled, skipped>>
    BY <1>6 DEF LosesGroup, ConsumerStops, PollRaises, LeaveGroup
  <2>2. CASE commits
    <3>1. committed' = position /\ position > 0
      BY <2>1, <2>2
    <3> QED  BY <2>1, <3>1, CommitIsAbstract
  <2>3. CASE ~commits
    BY <2>1, <2>3 DEF Topic!vars
  <2> QED  BY <2>2, <2>3
<1>7. CASE Exit \/ Crash
  BY <1>7 DEF Exit, Crash, ProcessEnds, broker, Topic!vars
<1>8. CASE \/ BrokerChanges \/ Start \/ BeginStop \/ ClosePool \/ ConnectOk \/ ConnectFails
           \/ (\E h \in HttpThreads : Http(h)) \/ UNCHANGED vars
  BY <1>8 DEF BrokerChanges, Start, BeginStop, ClosePool, ConnectOk, ConnectFails, Http, Post,
              HttpScores, HttpScoreRaises, HttpInserts, HttpInsertRaises, vars, broker, history,
              Topic!vars
<1> QED  BY <1>1, <1>2, <1>3, <1>4, <1>5, <1>6, <1>7, <1>8
         DEF Next, Consume, Fetch, HandleRecord, ConsumerScoreRaises, ConsumerInserts,
             ConsumerInsertRaises

\* The service delivers the topic as TopicDelivery says: in order and without a gap,
\* with commits that never go back and nothing handled again below them.
THEOREM ServiceImplementsTopicDelivery == Spec => ImplementsTopicDelivery
<1>1. Init => DeliveryInv /\ CommitInv /\ Topic!Init
  BY DEF Init, DeliveryInv, CommitInv, CommittedWereHandled, Offsets, Working, Topic!Init
<1>2. Inv /\ DeliveryInv /\ CommitInv /\ [Next]_vars => DeliveryInv' /\ CommitInv'
  BY DeliveryInvStep, CommitInvStep
<1>3. Inv /\ DeliveryInv /\ CommitInv /\ [Next]_vars => [Topic!Next]_(Topic!vars)
  BY DeliveryStep
<1> QED  BY <1>1, <1>2, <1>3, TypeCorrect, PTL
         DEF Spec, Inv, ImplementsTopicDelivery, Topic!Spec

-----------------------------------------------------------------------------
(* The consumer is never stuck: what PublishedIsHandled needs besides fairness. *)

\* The guards of the four steps that Fairness speaks of.
MayConnect == cons = "connecting" /\ kafkaUp
MayJoin == cons = "polling" /\ ~StopSet /\ position = 0 /\ kafkaUp
MayFetch == cons = "polling" /\ ~StopSet /\ position > 0 /\ position + 1 <= published + 1
MayHandle == cons = "scoring" \/ cons = "inserting"

Unhandled == (1..published) \ Done

\* As long as the process and the broker are up and the thread lives, it has a step
\* to take whenever a record is waiting.
NeverStuck ==
    proc = "up" /\ kafkaUp /\ cons # "dead" /\ Unhandled # {}
        => MayConnect \/ MayJoin \/ MayFetch \/ MayHandle

\* A process that serves has a consumer thread, alive or dead of an exception.
HasConsumer == proc = "up" => cons \notin {"none", "closed"}

LEMMA HasConsumerStep == ASSUME HasConsumer, [Next]_vars PROVE HasConsumer'
<1> USE DEF HasConsumer
<1>1. CASE Publish \/ BrokerChanges \/ Start \/ BeginStop \/ ClosePool \/ Exit \/ Crash
  BY <1>1 DEF Publish, BrokerChanges, Start, BeginStop, ClosePool, Exit, Crash, ProcessEnds,
              thread
<1>2. CASE ConnectOk \/ ConnectFails \/ Join
  BY <1>2 DEF ConnectOk, ConnectFails, Join
<1>3. ASSUME NEW commits \in BOOLEAN, NEW n \in 0..MaxPoll, Poll(commits, n)
      PROVE  HasConsumer'
  BY <1>3 DEF Poll
<1>4. CASE HandleRecord
  BY <1>4 DEF HandleRecord, ConsumerScores, ConsumerScoreRaises, ConsumerInserts,
              ConsumerInsertRaises, NextRecord
<1>5. ASSUME NEW commits \in BOOLEAN,
             LosesGroup(commits) \/ ConsumerStops(commits) \/ PollRaises(commits)
      PROVE  HasConsumer'
  BY <1>5 DEF LosesGroup, ConsumerStops, PollRaises, LeaveGroup, StopSet
<1>6. CASE (\E h \in HttpThreads : Http(h)) \/ UNCHANGED vars
  BY <1>6 DEF Http, Post, HttpScores, HttpScoreRaises, HttpInserts, HttpInsertRaises, vars,
              thread
<1> QED  BY <1>1, <1>2, <1>3, <1>4, <1>5, <1>6 DEF Next, Consume, Fetch

\* While it lives, the consumer thread of a serving process always has a step to
\* take towards a published record that is not dealt with: no state reached
\* through crashes, rebalances and outages leaves it waiting for nothing.
THEOREM ConsumerIsNeverStuck == Spec => []NeverStuck
<1>1. Init => DeliveryInv /\ HasConsumer
  BY DEF Init, DeliveryInv, HasConsumer, CommittedWereHandled, Offsets, Working
<1>2. Inv /\ DeliveryInv /\ HasConsumer /\ [Next]_vars => DeliveryInv' /\ HasConsumer'
  BY DeliveryInvStep, HasConsumerStep
<1>3. Inv /\ DeliveryInv /\ HasConsumer => NeverStuck
  <2> SUFFICES ASSUME Inv, DeliveryInv, HasConsumer, proc = "up", kafkaUp, cons # "dead",
                      NEW o \in Unhandled
               PROVE  MayConnect \/ MayJoin \/ MayFetch \/ MayHandle
    BY DEF NeverStuck
  <2>1. cons \in {"connecting", "polling", "scoring", "inserting"} /\ ~StopSet
    BY DEF Inv, TypeOK, HasConsumer, StopSet
  <2>2. ASSUME cons = "polling", position > 0
        PROVE  position + 1 <= published + 1
    <3>1. published \in 0..MaxPublished /\ position \in Nat /\ MaxPublished \in Nat
      BY ServiceAssumption DEF Inv, TypeOK
    <3>2. o \in Offsets /\ o <= published
      BY <3>1 DEF Unhandled, Offsets
    <3>3. ~(o < position)
      BY <2>2, <3>2 DEF DeliveryInv, Unhandled
    <3> QED  BY <3>1, <3>2, <3>3 DEF Offsets
  <2>3. position > 0 \/ position = 0
    BY ServiceAssumption DEF Inv, TypeOK
  <2> QED  BY <2>1, <2>2, <2>3 DEF MayConnect, MayJoin, MayFetch, MayHandle
<1> QED  BY <1>1, <1>2, <1>3, TypeCorrect, PTL DEF Spec, Inv

-----------------------------------------------------------------------------
(* Redelivery. *)

\* Where the loop is, or where the group would resume.
Frontier ==
    IF cons \in Working THEN next ELSE IF position > 0 THEN position ELSE committed

\* The strengthening of RedeliveredOnlyAfterUnsaved: what has been handled lies
\* before the frontier, except what a lost position gave up.
ProgressInv == \A o \in handled : o \in unsaved \/ o < Frontier

\* Whatever is handled and not committed is given up with the position.
LEMMA GivingUpIsProgress ==
    ASSUME Inv, ProgressInv, cons' \notin Working, position' = 0,
           IF position > 0 THEN unsaved' = GivenUp ELSE unsaved' = unsaved,
           UNCHANGED <<committed, handled>>
    PROVE  ProgressInv'
<1>0. /\ committed \in Nat /\ handled \subseteq Nat /\ position \in Nat
      /\ cons \in Working => position > 0
  BY ServiceAssumption DEF Inv, TypeOK, ThreadInv
<1>1. Frontier' = committed
  BY DEF Frontier
<1>2. CASE position > 0
  <2>1. \A o \in handled : o \in unsaved' \/ o < committed
    BY <1>0, <1>2 DEF GivenUp
  <2> QED  BY <1>1, <2>1 DEF ProgressInv
<1>3. CASE ~(position > 0)
  <2>1. Frontier = committed
    BY <1>0, <1>3 DEF Frontier
  <2> QED  BY <1>1, <1>3, <2>1 DEF ProgressInv
<1> QED  BY <1>2, <1>3

\* No step brings the loop back to what it handled, unless a position beyond it
\* was given up.
LEMMA ProgressInvStep == ASSUME Inv, ProgressInv, [Next]_vars PROVE ProgressInv'
<1> USE ServiceAssumption
<1>0. /\ published \in Nat /\ position \in Nat /\ committed \in Nat /\ next \in Nat
      /\ handled \subseteq 1..published
      /\ cons \in Working => position > 0
  BY DEF Inv, TypeOK, ThreadInv
<1>1. CASE Join
  <2>1. /\ position' = IF committed = 0 THEN published + 1 ELSE committed
        /\ unsaved' = {o \in unsaved : position' <= o}
        /\ UNCHANGED <<handled, committed>> /\ cons' = "polling" /\ cons = "polling"
        /\ position = 0
    BY <1>1 DEF Join, broker
  <2>2. position' > 0 /\ position' \in Nat /\ \A o \in handled : o < published + 1
    BY <1>0, <2>1
  <2>3. Frontier' = position' /\ Frontier = committed
    BY <1>0, <2>1, <2>2 DEF Frontier, Working
  <2>4. \A o \in handled : o \in unsaved \/ o < position'
    BY <1>0, <2>1, <2>2, <2>3 DEF ProgressInv
  <2>5. \A o \in handled : o < position' \/ position' <= o
    BY <1>0, <2>2
  <2> QED  BY <2>1, <2>3, <2>4, <2>5 DEF ProgressInv
<1>2. ASSUME NEW commits \in BOOLEAN, NEW n \in 0..MaxPoll, Poll(commits, n)
      PROVE  ProgressInv'
  <2>1. /\ cons = "polling" /\ position > 0 /\ UNCHANGED <<handled, unsaved>>
        /\ next' = position /\ position' = position + n
        /\ cons' = IF n > 0 THEN "scoring" ELSE "polling"
    BY <1>2 DEF Poll, history
  <2>2. position' > 0 /\ (cons' = "polling" => position' = position)
    BY <1>0, <2>1
  <2>3. Frontier = position /\ Frontier' = position
    BY <2>1, <2>2 DEF Frontier, Working
  <2> QED  BY <2>1, <2>3 DEF ProgressInv
<1>3. ASSUME HandleRecord, NextRecord
      PROVE  ProgressInv'
  <2>1. /\ cons \in Working /\ next' = next + 1 /\ handled' = handled \union {next}
        /\ unsaved' = unsaved \ {next}
        /\ cons' = IF next + 1 = position THEN "polling" ELSE "scoring"
        /\ UNCHANGED position
    BY <1>3 DEF NextRecord, HandleRecord, ConsumerScores, ConsumerScoreRaises,
                ConsumerInserts, ConsumerInsertRaises, Working
  <2>2. Frontier = next /\ Frontier' = next + 1
    BY <1>0, <2>1 DEF Frontier, Working
  <2>3. \A o \in handled' : o = next \/ o \in unsaved \/ o < next
    BY <2>1, <2>2 DEF ProgressInv
  <2>4. \A o \in handled' : o \in unsaved' \/ o < next + 1
    BY <1>0, <2>1, <2>3
  <2> QED  BY <2>2, <2>4 DEF ProgressInv
<1>4. CASE ConsumerScores
  <2>1. /\ cons = "scoring" /\ cons' = "inserting"
        /\ UNCHANGED <<next, position, committed, handled, unsaved>>
    BY <1>4 DEF ConsumerScores, broker, history
  <2> QED  BY <2>1 DEF ProgressInv, Frontier, Working
<1>5. ASSUME NEW commits \in BOOLEAN,
             LosesGroup(commits) \/ ConsumerStops(commits) \/ PollRaises(commits)
      PROVE  ProgressInv'
  <2>1. /\ cons = "polling" /\ cons' \in {"polling", "closed", "dead"}
        /\ commits => position > 0
        /\ committed' = IF commits THEN position ELSE committed
        /\ position' = 0 /\ UNCHANGED handled
        /\ unsaved' = IF position > 0 /\ ~commits THEN GivenUp ELSE unsaved
    BY <1>5 DEF LosesGroup, ConsumerStops, PollRaises, LeaveGroup
  <2>2. CASE ~commits
    BY <2>1, <2>2, GivingUpIsProgress DEF Working
  <2>3. CASE commits
    <3>1. Frontier = position /\ Frontier' = position /\ unsaved' = unsaved
      BY <2>1, <2>3 DEF Frontier, Working
    <3> QED  BY <2>1, <3>1 DEF ProgressInv
  <2> QED  BY <2>2, <2>3
<1>6. CASE Exit \/ Crash
  <2>1. /\ cons' = "none" /\ position' = 0 /\ UNCHANGED <<committed, handled>>
        /\ unsaved' = IF position > 0 THEN GivenUp ELSE unsaved
    BY <1>6 DEF Exit, Crash, ProcessEnds, broker
  <2> QED  BY <2>1, GivingUpIsProgress DEF Working
<1>7. CASE Start \/ ConnectOk \/ ConnectFails
  <2>1. /\ cons' \in {"connecting", "polling", "dead"} /\ position' = 0 /\ position = 0
        /\ UNCHANGED <<committed, handled, unsaved>>
    BY <1>7 DEF Start, ConnectOk, ConnectFails, Inv, ThreadInv, Working, broker, history
  <2> QED  BY <2>1, GivingUpIsProgress DEF Working
<1>8. CASE Publish \/ BrokerChanges \/ BeginStop \/ ClosePool
           \/ (\E h \in HttpThreads : Http(h)) \/ UNCHANGED vars
  BY <1>8 DEF Publish, BrokerChanges, BeginStop, ClosePool, Http, Post, HttpScores,
              HttpScoreRaises, HttpInserts, HttpInsertRaises, vars, broker, thread, history,
              ProgressInv, Frontier
<1> QED  BY <1>1, <1>2, <1>3, <1>4, <1>5, <1>6, <1>7, <1>8
         DEF Next, Consume, Fetch, HandleRecord, ConsumerScoreRaises, ConsumerInserts,
             ConsumerInsertRaises

\* A record is redelivered only once for each position beyond it that was given up
\* uncommitted: a stop, a rebalance or a dying thread that reaches the broker costs
\* nothing, whatever was lost before.
THEOREM CleanStopsRepeatNothing == Spec => []RedeliveredOnlyAfterUnsaved
<1>1. Init => ProgressInv
  BY DEF Init, ProgressInv
<1>2. Inv /\ ProgressInv /\ [Next]_vars => ProgressInv'
  BY ProgressInvStep
<1>3. Inv /\ ProgressInv => RedeliveredOnlyAfterUnsaved
  <2> SUFFICES ASSUME Inv, ProgressInv, cons \in {"scoring", "inserting"}, next \in handled
               PROVE  next \in unsaved
    BY DEF RedeliveredOnlyAfterUnsaved
  <2>1. Frontier = next /\ ~(next < next)
    BY ServiceAssumption DEF Frontier, Working, Inv, TypeOK
  <2> QED  BY <2>1 DEF ProgressInv
<1> QED  BY <1>1, <1>2, <1>3, TypeCorrect, PTL DEF Spec, Inv

-----------------------------------------------------------------------------
(* Rows and counters. *)

\* A transaction whose row is about to be written has been recorded.
RecordInv ==
    /\ rows \subseteq recorded
    /\ cons = "inserting" => next \in recorded
    /\ \A h \in HttpThreads : http[h] = "inserting" => httpTx[h] \in recorded

\* Postgres holds no transaction the feature history never held.
THEOREM RowsAreRecorded == Spec => []RowsWereRecorded
<1>1. Init => RecordInv
  BY DEF Init, RecordInv
<1>2. Inv /\ RecordInv /\ [Next]_vars => RecordInv'
  <2> SUFFICES ASSUME Inv, RecordInv, [Next]_vars
               PROVE  RecordInv'
    OBVIOUS
  <2>1. CASE Publish \/ BrokerChanges \/ Start \/ BeginStop \/ ClosePool
    BY <2>1 DEF Publish, BrokerChanges, Start, BeginStop, ClosePool, broker, thread,
                requests, stores, RecordInv
  <2>2. CASE Exit \/ Crash
    BY <2>2 DEF Exit, Crash, ProcessEnds, stores, RecordInv
  <2>3. CASE ConnectOk \/ ConnectFails \/ Join
    BY <2>3 DEF ConnectOk, ConnectFails, Join, requests, stores, RecordInv
  <2>4. ASSUME NEW commits \in BOOLEAN, NEW n \in 0..MaxPoll, Poll(commits, n)
        PROVE  RecordInv'
    BY <2>4 DEF Poll, requests, stores, RecordInv
  <2>5. CASE HandleRecord
    BY <2>5 DEF HandleRecord, ConsumerScores, ConsumerScoreRaises, ConsumerInserts,
                ConsumerInsertRaises, NextRecord, requests, RecordInv
  <2>6. ASSUME NEW commits \in BOOLEAN,
               LosesGroup(commits) \/ ConsumerStops(commits) \/ PollRaises(commits)
        PROVE  RecordInv'
    BY <2>6 DEF LosesGroup, ConsumerStops, PollRaises, LeaveGroup, requests, stores,
                RecordInv
  <2>7. ASSUME NEW h \in HttpThreads, Http(h)
        PROVE  RecordInv'
    BY <2>7 DEF Http, Post, HttpScores, HttpScoreRaises, HttpInserts, HttpInsertRaises,
                Respond, thread, stores, RecordInv, Inv, TypeOK
  <2>8. CASE UNCHANGED vars
    BY <2>8 DEF vars, thread, requests, stores, RecordInv
  <2> QED  BY <2>1, <2>2, <2>3, <2>4, <2>5, <2>6, <2>7, <2>8 DEF Next, Consume, Fetch
<1>3. RecordInv => RowsWereRecorded
  BY DEF RecordInv, RowsWereRecorded
<1> QED  BY <1>1, <1>2, <1>3, TypeCorrect, PTL DEF Spec, Inv

\* What the counters of a request thread say at each point of the handler.
AnswerInv(h) ==
    /\ http[h] = "scoring" => counted[h] = {}
    /\ http[h] = "inserting" => counted[h] = {"ok"}
    /\ http[h] = "idle" =>
         /\ answer[h] = "200" /\ httpTx[h] \notin rows => "db_insert_failure" \in counted[h]
         /\ answer[h] = "500" <=> "error" \in counted[h]

\* A step that leaves the thread alone and loses no row keeps it so.
LEMMA AnswerKeeps ==
    ASSUME NEW h \in HttpThreads, AnswerInv(h), rows \subseteq rows',
           UNCHANGED <<http[h], httpTx[h], answer[h], counted[h]>>
    PROVE  AnswerInv(h)'
BY DEF AnswerInv

\* POST /score loses no row without counting it.
THEOREM HttpLossIsCounted == Spec => []LostHttpRowsAreCounted
<1> DEFINE AllAnswers == \A h \in HttpThreads : AnswerInv(h)
<1>1. Init => AllAnswers
  BY DEF Init, AnswerInv, Actors
<1>2. Inv /\ AllAnswers /\ [Next]_vars => AllAnswers'
  <2> SUFFICES ASSUME Inv, AllAnswers, [Next]_vars, NEW h \in HttpThreads
               PROVE  AnswerInv(h)'
    OBVIOUS
  <2>0. AnswerInv(h) /\ h # Consumer /\ h \in Actors
    BY ServiceAssumption DEF Actors
  <2>1. ASSUME UNCHANGED <<requests, counted, rows>>
        PROVE  AnswerInv(h)'
    BY <2>0, <2>1, AnswerKeeps DEF requests
  <2>2. CASE Publish \/ BrokerChanges \/ Start \/ BeginStop \/ ClosePool \/ ConnectOk
             \/ ConnectFails \/ Join \/ UNCHANGED vars
    BY <2>1, <2>2 DEF Publish, BrokerChanges, Start, BeginStop, ClosePool, ConnectOk,
                      ConnectFails, Join, vars, stores
  <2>3. ASSUME NEW commits \in BOOLEAN, NEW n \in 0..MaxPoll,
               Poll(commits, n) \/ LosesGroup(commits) \/ ConsumerStops(commits)
                   \/ PollRaises(commits)
        PROVE  AnswerInv(h)'
    BY <2>1, <2>3 DEF Poll, LosesGroup, ConsumerStops, PollRaises, LeaveGroup, stores
  <2>4. CASE Exit \/ Crash
    BY <2>0, <2>4 DEF Exit, Crash, ProcessEnds, AnswerInv
  <2>5. CASE HandleRecord
    <3>1. rows \subseteq rows' /\ UNCHANGED requests
      BY <2>5 DEF HandleRecord, ConsumerScores, ConsumerScoreRaises, ConsumerInserts,
                  ConsumerInsertRaises
    <3>2. counted'[h] = counted[h]
      BY <2>0, <2>5 DEF HandleRecord, ConsumerScores, ConsumerScoreRaises, ConsumerInserts,
                        ConsumerInsertRaises, Inv, TypeOK
    <3> QED  BY <2>0, <3>1, <3>2, AnswerKeeps DEF requests
  <2>6. ASSUME NEW g \in HttpThreads, Http(g), g # h
        PROVE  AnswerInv(h)'
    <3>1. UNCHANGED <<http[h], httpTx[h], answer[h], counted[h]>> /\ rows \subseteq rows'
      BY <2>0, <2>6 DEF Http, Post, HttpScores, HttpScoreRaises, HttpInserts,
                        HttpInsertRaises, Respond, Inv, TypeOK, stores
    <3> QED  BY <2>0, <3>1, AnswerKeeps
  <2>7. CASE Http(h)
    <3> USE <2>0 DEF Inv, TypeOK, AnswerInv
    <3>1. CASE \E t \in HttpTx : Post(h, t)
      BY <3>1 DEF Post
    <3>2. CASE HttpScores(h)
      BY <3>2 DEF HttpScores
    <3>3. CASE HttpScoreRaises(h)
      BY <3>3 DEF HttpScoreRaises, Respond
    <3>4. CASE HttpInserts(h)
      BY <3>4 DEF HttpInserts, Respond
    <3>5. CASE HttpInsertRaises(h)
      BY <3>5 DEF HttpInsertRaises, Respond
    <3> QED  BY <2>7, <3>1, <3>2, <3>3, <3>4, <3>5 DEF Http
  <2> QED  BY <2>2, <2>3, <2>4, <2>5, <2>6, <2>7, ServiceAssumption
           DEF Next, Consume, Fetch
<1>3. AllAnswers => LostHttpRowsAreCounted
  BY DEF AnswerInv, LostHttpRowsAreCounted
<1> QED  BY <1>1, <1>2, <1>3, TypeCorrect, PTL DEF Spec, Inv

\* A record the consumer finishes has its row, or was counted as an error.
THEOREM StreamLossIsCounted == Spec => StreamLossIsAnError
<1> DEFINE Counted == \A o \in Finished : o \in rows' \/ "error" \in counted'[Consumer]
<1>1. Inv /\ [Next]_vars => [Counted]_vars
  <2> SUFFICES ASSUME Inv, [Next]_vars
               PROVE  Counted
    OBVIOUS
  <2>1. ASSUME HandleRecord
        PROVE  Counted
    <3>1. Consumer \in Actors
      BY DEF Actors
    <3> QED  BY <2>1, <3>1
             DEF HandleRecord, ConsumerScores, ConsumerScoreRaises, ConsumerInserts,
                 ConsumerInsertRaises, NextRecord, Finished, Inv, TypeOK, history
  <2>2. ASSUME ~HandleRecord
        PROVE  handled' = handled
    BY <2>2 DEF Next, Publish, BrokerChanges, Start, BeginStop, ClosePool, Exit, Crash,
                ProcessEnds, Consume, ConnectOk, ConnectFails, Join, Fetch, Poll, LosesGroup,
                ConsumerStops, PollRaises, LeaveGroup, Http, Post, HttpScores,
                HttpScoreRaises, HttpInserts, HttpInsertRaises, history, vars
  <2> QED  BY <2>1, <2>2 DEF Finished
<1> QED  BY <1>1, TypeCorrect, PTL DEF Spec, Inv, StreamLossIsAnError
=============================================================================
