------------------------- MODULE FeatureStoreProofs -------------------------
(***************************************************************************)
(* Proofs about FeatureStore, for any number of transactions, users,       *)
(* threads, any history length and any expiry.                             *)
(***************************************************************************)
EXTENDS FeatureStore, SequenceTheorems, TLAPS

-----------------------------------------------------------------------------
(* The lists of the store. *)

\* LTRIM and LRANGE keep a prefix of at most n entries.
LEMMA NewestProperties ==
    ASSUME NEW s \in Seq(Tx), NEW n \in Nat
    PROVE  /\ Newest(s, n) \in Seq(Tx)
           /\ Len(Newest(s, n)) = IF n < Len(s) THEN n ELSE Len(s)
           /\ \A i \in 1..Len(Newest(s, n)) : Newest(s, n)[i] = s[i]
<1> DEFINE k == IF n < Len(s) THEN n ELSE Len(s)
<1>1. k \in Nat /\ k <= Len(s)
  BY LenProperties
<1>2. \A i \in 1..k : s[i] \in Tx
  BY <1>1, ElementOfSeq
<1>3. /\ SubSeq(s, 1, k) \in Seq(Tx)
      /\ Len(SubSeq(s, 1, k)) = IF 1 <= k THEN k - 1 + 1 ELSE 0
      /\ \A i \in 1 .. k - 1 + 1 : SubSeq(s, 1, k)[i] = s[1 + i - 1]
  <2> HIDE DEF k
  <2>1. 1 \in Int /\ k \in Int
    BY <1>1
  <2> QED  BY <1>2, <2>1, SubSeqProperties
<1>4. Newest(s, n) = SubSeq(s, 1, k)
  BY DEF Newest
<1> HIDE DEF k
<1>5. Len(Newest(s, n)) = k
  BY <1>1, <1>3, <1>4
<1>6. \A i \in 1..k : Newest(s, n)[i] = s[i]
  BY <1>1, <1>3, <1>4
<1> QED  BY <1>3, <1>4, <1>5, <1>6 DEF k

\* An update puts t first, in front of what was there, and trims.
LEMMA PushTrimProperties ==
    ASSUME NEW s \in Seq(Tx), NEW t \in Tx
    PROVE  /\ PushTrim(s, t) \in Seq(Tx)
           /\ Len(PushTrim(s, t)) =
                IF HistoryLen < Len(s) + 1 THEN HistoryLen ELSE Len(s) + 1
           /\ \A i \in 1..Len(PushTrim(s, t)) :
                PushTrim(s, t)[i] = IF i = 1 THEN t ELSE s[i - 1]
<1> DEFINE p == <<t>> \o s
<1>1. <<t>> \in Seq(Tx) /\ Len(<<t>>) = 1 /\ <<t>>[1] = t
  OBVIOUS
<1>2. p \in Seq(Tx) /\ Len(p) = Len(s) + 1
  BY <1>1, ConcatProperties, LenProperties
<1>3. \A i \in 1..Len(p) : p[i] = IF i = 1 THEN t ELSE s[i - 1]
  <2>1. \A i \in 1 .. 1 + Len(s) : p[i] = IF i <= 1 THEN <<t>>[i] ELSE s[i - 1]
    BY <1>1, ConcatProperties
  <2> QED  BY <1>1, <1>2, <2>1, LenProperties
<1> HIDE DEF p
<1>4. PushTrim(s, t) = Newest(p, HistoryLen)
  BY DEF PushTrim, p
<1>5. HistoryLen \in Nat
  BY LengthAssumption
<1>6. Len(Newest(p, HistoryLen)) <= Len(p)
  BY <1>2, <1>5, NewestProperties, LenProperties
<1>7. \A i \in 1..Len(Newest(p, HistoryLen)) : i \in 1..Len(p)
  BY <1>2, <1>5, <1>6, NewestProperties, LenProperties
<1> QED  BY <1>2, <1>3, <1>4, <1>5, <1>7, NewestProperties

\* The reversal of a list of transactions.
LEMMA ReverseProperties ==
    ASSUME NEW s \in Seq(Tx)
    PROVE  /\ Reverse(s) \in Seq(Tx)
           /\ Len(Reverse(s)) = Len(s)
           /\ \A i \in 1..Len(s) : Reverse(s)[i] = s[Len(s) - i + 1]
<1>1. Len(s) \in Nat
  BY LenProperties
<1>2. \A i \in 1..Len(s) : s[Len(s) - i + 1] \in Tx
  BY <1>1, ElementOfSeq
<1>3. Reverse(s) = [i \in 1..Len(s) |-> s[Len(s) - i + 1]]
  BY DEF Reverse
<1>4. Reverse(s) \in [1..Len(s) -> Tx]
  BY <1>2, <1>3
<1>5. Reverse(s) \in Seq(Tx)
  BY <1>1, <1>4
<1>6. Len(Reverse(s)) = Len(s)
  BY <1>1, <1>3, <1>5, LenProperties
<1> QED  BY <1>3, <1>5, <1>6

\* amounts[-n:], the trainer's and the feature code's truncation, keeps the end
\* of a list.
LEMMA LastNProperties ==
    ASSUME NEW s \in Seq(Tx), NEW n \in Nat \ {0}
    PROVE  /\ LastN(s, n) \in Seq(Tx)
           /\ Len(LastN(s, n)) = IF n < Len(s) THEN n ELSE Len(s)
           /\ \A i \in 1..Len(LastN(s, n)) :
                LastN(s, n)[i] = s[i + Len(s) - Len(LastN(s, n))]
<1> DEFINE m == IF n < Len(s) THEN Len(s) - n + 1 ELSE 1
<1>1. Len(s) \in Nat
  BY LenProperties
<1>2. m \in Int /\ 1 <= m /\ m <= Len(s) + 1
  BY <1>1
<1>3. Len(s) - m + 1 = IF n < Len(s) THEN n ELSE Len(s)
  BY <1>1
<1>4. LastN(s, n) = SubSeq(s, m, Len(s))
  BY DEF LastN
<1> HIDE DEF m
<1>5. \A i \in m..Len(s) : s[i] \in Tx
  BY <1>1, <1>2, ElementOfSeq
<1>6. /\ SubSeq(s, m, Len(s)) \in Seq(Tx)
      /\ Len(SubSeq(s, m, Len(s))) = IF m <= Len(s) THEN Len(s) - m + 1 ELSE 0
      /\ \A i \in 1 .. Len(s) - m + 1 : SubSeq(s, m, Len(s))[i] = s[m + i - 1]
  BY <1>1, <1>2, <1>5, SubSeqProperties
<1>7. Len(LastN(s, n)) = Len(s) - m + 1
  BY <1>1, <1>2, <1>4, <1>6
<1>8. \A i \in 1..Len(LastN(s, n)) : LastN(s, n)[i] = s[m + i - 1]
  BY <1>4, <1>6, <1>7
<1>9. \A i \in 1..Len(LastN(s, n)) : m + i - 1 = i + Len(s) - Len(LastN(s, n))
  BY <1>1, <1>2, <1>7
<1> QED  BY <1>3, <1>4, <1>6, <1>7, <1>8, <1>9

\* A newest-first push-and-trim, read oldest first, is the trainer's append
\* and truncation of the oldest-first list.
LEMMA PushTrimIsReplay ==
    ASSUME NEW s \in Seq(Tx), NEW t \in Tx
    PROVE  Reverse(PushTrim(s, t)) = LastN(Append(Reverse(s), t), HistoryLen)
<1> DEFINE p == PushTrim(s, t)
           a == Append(Reverse(s), t)
           l == LastN(a, HistoryLen)
<1>1. Len(s) \in Nat /\ HistoryLen \in Nat \ {0}
  BY LenProperties, LengthAssumption
<1>2. /\ p \in Seq(Tx) /\ Len(p) = IF HistoryLen < Len(s) + 1 THEN HistoryLen ELSE Len(s) + 1
      /\ \A i \in 1..Len(p) : p[i] = IF i = 1 THEN t ELSE s[i - 1]
  BY PushTrimProperties
<1>3. /\ Reverse(s) \in Seq(Tx) /\ Len(Reverse(s)) = Len(s)
      /\ \A i \in 1..Len(s) : Reverse(s)[i] = s[Len(s) - i + 1]
  BY ReverseProperties
<1>4. /\ a \in Seq(Tx) /\ Len(a) = Len(s) + 1
      /\ \A i \in 1..Len(s) + 1 :
           a[i] = IF i = Len(s) + 1 THEN t ELSE Reverse(s)[i]
  BY <1>1, <1>3
<1> HIDE DEF p, a
<1>5. /\ l \in Seq(Tx) /\ Len(l) = IF HistoryLen < Len(a) THEN HistoryLen ELSE Len(a)
      /\ \A i \in 1..Len(l) : l[i] = a[i + Len(a) - Len(l)]
  BY <1>1, <1>4, LastNProperties
<1> HIDE DEF l
<1>6. /\ Reverse(p) \in Seq(Tx) /\ Len(Reverse(p)) = Len(p)
      /\ \A i \in 1..Len(p) : Reverse(p)[i] = p[Len(p) - i + 1]
  BY <1>2, ReverseProperties
<1>7. Len(Reverse(p)) = Len(l) /\ Len(l) \in Nat /\ Len(l) <= Len(s) + 1
  BY <1>1, <1>2, <1>4, <1>5, <1>6
<1>8. ASSUME NEW i \in 1..Len(Reverse(p))
      PROVE  Reverse(p)[i] = l[i]
  <2>1. /\ i \in 1..Len(p) /\ Len(p) - i + 1 \in 1..Len(p) /\ Len(l) = Len(p)
        /\ i + Len(a) - Len(l) \in 1..Len(s) + 1
    BY <1>1, <1>4, <1>6, <1>7
  <2>2. Reverse(p)[i] = p[Len(p) - i + 1] /\ l[i] = a[i + Len(a) - Len(l)]
    BY <1>5, <1>6, <1>7, <2>1
  <2>3. CASE i = Len(p)
    BY <1>1, <1>2, <1>4, <2>1, <2>2, <2>3
  <2>4. CASE i # Len(p)
    <3> DEFINE j == i + Len(a) - Len(l)
               q == Len(p) - i + 1
    <3>1. j \in 1..Len(s) /\ Len(s) - j + 1 = q - 1 /\ q \in 1..Len(p) /\ q # 1
      BY <1>1, <1>4, <1>7, <2>1, <2>4
    <3>2. Reverse(p)[i] = p[q] /\ l[i] = a[j]
      BY <2>2
    <3> HIDE DEF j, q
    <3>3. p[q] = s[q - 1]
      BY <1>2, <3>1
    <3>4. a[j] = Reverse(s)[j]
      BY <1>1, <1>4, <3>1
    <3>5. Reverse(s)[j] = s[Len(s) - j + 1]
      BY <1>3, <3>1
    <3> QED  BY <3>1, <3>2, <3>3, <3>4, <3>5
  <2> QED  BY <2>3, <2>4
<1> QED  BY <1>5, <1>6, <1>7, <1>8, SeqEqual DEF p, a, l

\* What the feature code looks at survives the store's trimming: the last k
\* of a list that was cut to its last n are the last k of the whole list.
LEMMA TrimmingIsLossless ==
    ASSUME NEW s \in Seq(Tx), NEW n \in Nat \ {0}, NEW k \in Nat \ {0}, k <= n
    PROVE  LastN(LastN(s, n), k) = LastN(s, k)
<1> DEFINE a == LastN(s, n)
           b == LastN(a, k)
           c == LastN(s, k)
<1>1. Len(s) \in Nat
  BY LenProperties
<1>2. /\ a \in Seq(Tx) /\ Len(a) = IF n < Len(s) THEN n ELSE Len(s)
      /\ \A i \in 1..Len(a) : a[i] = s[i + Len(s) - Len(a)]
  BY LastNProperties
<1>3. /\ c \in Seq(Tx) /\ Len(c) = IF k < Len(s) THEN k ELSE Len(s)
      /\ \A i \in 1..Len(c) : c[i] = s[i + Len(s) - Len(c)]
  BY LastNProperties
<1> HIDE DEF a, c
<1>4. /\ b \in Seq(Tx) /\ Len(b) = IF k < Len(a) THEN k ELSE Len(a)
      /\ \A i \in 1..Len(b) : b[i] = a[i + Len(a) - Len(b)]
  BY <1>2, LastNProperties
<1> HIDE DEF b
<1>5. /\ Len(a) \in Nat /\ Len(b) \in Nat
      /\ Len(b) = Len(c) /\ Len(b) <= Len(a)
  BY <1>1, <1>2, <1>3, <1>4
<1>6. ASSUME NEW i \in 1..Len(b)
      PROVE  b[i] = c[i]
  <2>1. i + Len(a) - Len(b) \in 1..Len(a)
    BY <1>1, <1>2, <1>5
  <2>2. a[i + Len(a) - Len(b)] = s[i + Len(a) - Len(b) + Len(s) - Len(a)]
    BY <1>2, <2>1
  <2>3. i + Len(a) - Len(b) + Len(s) - Len(a) = i + Len(s) - Len(c)
    <3>1. i \in Int
      BY <1>5
    <3> QED  BY <1>1, <1>5, <3>1
  <2>4. c[i] = s[i + Len(s) - Len(c)]
    BY <1>3, <1>5
  <2> QED  BY <1>4, <2>2, <2>3, <2>4
<1> QED  BY <1>3, <1>4, <1>5, <1>6, SeqEqual DEF a, b, c

\* The store keeps HISTORY_LEN amounts, and that is enough: the features over
\* the kept amounts are those over the user's whole history, whatever its
\* length, because no rolling window is longer (common/features.py).
THEOREM FeaturesSurviveTrimming ==
    ASSUME NEW s \in Seq(Tx), NEW t \in Tx, NEW known
    PROVE  ComputeFeatures(t, LastN(s, HistoryLen), known) = ComputeFeatures(t, s, known)
<1>1. HistoryLen \in Nat \ {0} /\ Len(s) \in Nat
  BY LengthAssumption, LenProperties
<1>2. \A i \in {"short", "mid", "long"} :
        Windows[i] \in Nat \ {0} /\ Windows[i] <= HistoryLen
  BY LengthAssumption
<1>3. \A i \in {"short", "mid", "long"} :
        LastN(LastN(s, HistoryLen), Windows[i]) = LastN(s, Windows[i])
  BY <1>1, <1>2, TrimmingIsLossless
<1>4. Len(LastN(s, HistoryLen)) = IF HistoryLen < Len(s) THEN HistoryLen ELSE Len(s)
  BY <1>1, LastNProperties
<1>5. (IF Len(LastN(s, HistoryLen)) < Windows["long"]
       THEN Len(LastN(s, HistoryLen)) ELSE Windows["long"])
      = (IF Len(s) < Windows["long"] THEN Len(s) ELSE Windows["long"])
  BY <1>1, <1>2, <1>4
<1> QED  BY <1>3, <1>5 DEF ComputeFeatures

\* get_history returns a whole list of the store, oldest first.
LEMMA OldestFirstProperties ==
    ASSUME NEW s \in Seq(Tx)
    PROVE  /\ OldestFirst(s) \in Seq(Tx) /\ Kept(OldestFirst(s))
           /\ Kept(s) => OldestFirst(s) = Reverse(s)
<1>1. HistoryLen \in Nat /\ Len(s) \in Nat
  BY LengthAssumption, LenProperties
<1>2. /\ Newest(s, HistoryLen) \in Seq(Tx)
      /\ Len(Newest(s, HistoryLen)) = IF HistoryLen < Len(s) THEN HistoryLen ELSE Len(s)
      /\ \A i \in 1..Len(Newest(s, HistoryLen)) : Newest(s, HistoryLen)[i] = s[i]
  BY <1>1, NewestProperties
<1>3. Len(Newest(s, HistoryLen)) <= HistoryLen
  BY <1>1, <1>2
<1>4. OldestFirst(s) \in Seq(Tx) /\ Len(OldestFirst(s)) = Len(Newest(s, HistoryLen))
  BY <1>2, ReverseProperties DEF OldestFirst
<1>5. ASSUME Kept(s)
      PROVE  Newest(s, HistoryLen) = s
  <2>1. Len(Newest(s, HistoryLen)) = Len(s)
    BY <1>1, <1>2, <1>5 DEF Kept
  <2> QED  BY <1>2, <2>1, SeqEqual
<1> QED  BY <1>3, <1>4, <1>5 DEF Kept, OldestFirst

\* A push leaves a list in bounds and not empty.
LEMMA PushTrimKept ==
    ASSUME NEW s \in Seq(Tx), NEW t \in Tx
    PROVE  /\ PushTrim(s, t) \in Seq(Tx)
           /\ Kept(PushTrim(s, t))
           /\ PushTrim(s, t) # <<>>
<1>1. HistoryLen \in Nat \ {0} /\ Len(s) \in Nat
  BY LengthAssumption, LenProperties
<1>2. /\ PushTrim(s, t) \in Seq(Tx)
      /\ Len(PushTrim(s, t)) = IF HistoryLen < Len(s) + 1 THEN HistoryLen ELSE Len(s) + 1
  BY PushTrimProperties
<1>3. Len(PushTrim(s, t)) <= HistoryLen /\ Len(PushTrim(s, t)) # 0
  BY <1>1, <1>2
<1> QED  BY <1>2, <1>3, EmptySeq DEF Kept

\* The empty list is a history.
LEMMA EmptyIsKept == <<>> \in Seq(Tx) /\ Kept(<<>>) /\ Len(<<>>) = 0
BY EmptySeq, LengthAssumption DEF Kept

-----------------------------------------------------------------------------
(* The type invariant. *)

\* What each step does to the part of a worker that score() ends for.
LEMMA LeaveTypes ==
    ASSUME NEW w \in Workers, TypeOK, Leave(w)
    PROVE  /\ pc' \in [Workers -> Phases]
           /\ cur' \in [Workers -> Tx \union {NoTx}]
           /\ \A v \in Workers : pc'[v] # "idle" => cur'[v] \in Tx
           /\ seenAmounts' \in [Workers -> Seq(Tx)]
           /\ \A v \in Workers : Kept(seenAmounts'[v])
           /\ seenDevices' \in [Workers -> SUBSET DeviceIds]
BY EmptyIsKept DEF TypeOK, Leave, Phases

\* Marking workers keeps the type of the marks.
LEMMA InterfereTypes ==
    ASSUME TypeOK, NEW W, NEW e \in {"update", "drop"}, Interfere(W, e)
    PROVE  interference' \in [Workers -> SUBSET {"update", "drop"}]
BY DEF TypeOK, Interfere

\* The state of the store and of every thread inside score() keeps its type;
\* the lists stay within HISTORY_LEN.
THEOREM TypeCorrect == Spec => []TypeOK
<1>1. Init => TypeOK
  BY EmptyIsKept, StoreAssumption DEF Init, TypeOK, Phases
<1>2. TypeOK /\ [Next]_vars => TypeOK'
  <2> SUFFICES ASSUME TypeOK, [Next]_vars
               PROVE  TypeOK'
    OBVIOUS
  <2> USE TxAssumption, StoreAssumption
  <2>1. ASSUME NEW w \in Workers, NEW t \in Tx, ReadAmounts(w, t)
        PROVE  TypeOK'
    <3>1. UserOf[t] \in Users /\ amounts[UserOf[t]] \in Seq(Tx)
      BY DEF TypeOK
    <3>2. /\ OldestFirst(amounts[UserOf[t]]) \in Seq(Tx)
          /\ Kept(OldestFirst(amounts[UserOf[t]]))
      BY <3>1, OldestFirstProperties
    <3>3. /\ seenAmounts' \in [Workers -> Seq(Tx)]
          /\ \A v \in Workers : Kept(seenAmounts'[v])
      BY <2>1, <3>2 DEF TypeOK, ReadAmounts
    <3>4. /\ pc' \in [Workers -> Phases]
          /\ cur' \in [Workers -> Tx \union {NoTx}]
          /\ \A v \in Workers : pc'[v] # "idle" => cur'[v] \in Tx
      BY <2>1 DEF TypeOK, ReadAmounts, Phases
    <3>5. /\ recorded' \subseteq Tx
          /\ interference' \in [Workers -> SUBSET {"update", "drop"}]
      BY <2>1 DEF TypeOK, ReadAmounts
    <3> QED  BY <2>1, <3>3, <3>4, <3>5 DEF TypeOK, ReadAmounts, store
  <2>2. ASSUME NEW w \in Workers, ReadDevices(w)
        PROVE  TypeOK'
    <3>1. UserOf[cur[w]] \in Users
      BY <2>2 DEF TypeOK, ReadDevices
    <3> QED  BY <2>2, <3>1 DEF TypeOK, ReadDevices, store, Phases
  <2>3. ASSUME NEW w \in Workers, Update(w)
        PROVE  TypeOK'
    <3> DEFINE t == cur[w]
               u == UserOf[t]
    <3>1. t \in Tx /\ u \in Users /\ amounts[u] \in Seq(Tx) /\ DeviceOf[t] \in DeviceIds
      BY <2>3 DEF TypeOK, Update
    <3>2. PushTrim(amounts[u], t) \in Seq(Tx) /\ Kept(PushTrim(amounts[u], t))
      BY <3>1, PushTrimKept
    <3>3. /\ amounts' = [amounts EXCEPT ![u] = PushTrim(amounts[u], t)]
          /\ devices' = [devices EXCEPT ![u] = devices[u] \union {DeviceOf[t]}]
          /\ amountsTtl' = [amountsTtl EXCEPT ![u] = TtlSec]
          /\ devicesTtl' = [devicesTtl EXCEPT ![u] = TtlSec]
      BY <2>3 DEF Update
    <3> HIDE DEF t, u
    <3>4. /\ amounts' \in [Users -> Seq(Tx)]
          /\ \A v \in Users : Kept(amounts'[v])
      BY <3>1, <3>2, <3>3 DEF TypeOK
    <3>5. /\ devices' \in [Users -> SUBSET DeviceIds]
          /\ amountsTtl' \in [Users -> 0..TtlSec]
          /\ devicesTtl' \in [Users -> 0..TtlSec]
      BY <3>1, <3>3 DEF TypeOK
    <3>6. interference' \in [Workers -> SUBSET {"update", "drop"}]
      BY <2>3, InterfereTypes DEF Update
    <3>7. Leave(w) /\ recorded' = recorded \union {t} /\ UNCHANGED uncovered
      BY <2>3 DEF Update, t
    <3> QED  BY <3>1, <3>4, <3>5, <3>6, <3>7, LeaveTypes DEF TypeOK
  <2>4. ASSUME NEW w \in Workers, ScoreRaises(w)
        PROVE  TypeOK'
    BY <2>4, LeaveTypes DEF TypeOK, ScoreRaises, store
  <2>5. ASSUME Tick
        PROVE  TypeOK'
    <3>1. /\ amounts' \in [Users -> Seq(Tx)]
          /\ \A v \in Users : Kept(amounts'[v])
      BY <2>5, EmptyIsKept DEF TypeOK, Tick
    <3>2. /\ amountsTtl' \in [Users -> 0..TtlSec]
          /\ devicesTtl' \in [Users -> 0..TtlSec]
      BY <2>5 DEF TypeOK, Tick
    <3>3. devices' \in [Users -> SUBSET DeviceIds] /\ uncovered' \subseteq Users
      BY <2>5 DEF TypeOK, Tick
    <3>4. interference' \in [Workers -> SUBSET {"update", "drop"}]
      BY <2>5, InterfereTypes DEF Tick
    <3> QED  BY <2>5, <3>1, <3>2, <3>3, <3>4 DEF TypeOK, Tick, reads
  <2>6. ASSUME NEW u \in Users, EvictAmounts(u)
        PROVE  TypeOK'
    <3>1. interference' \in [Workers -> SUBSET {"update", "drop"}]
      BY <2>6, InterfereTypes DEF EvictAmounts
    <3> QED  BY <2>6, <3>1, EmptyIsKept DEF TypeOK, EvictAmounts, reads
  <2>7. ASSUME NEW u \in Users, EvictDevices(u)
        PROVE  TypeOK'
    <3>1. interference' \in [Workers -> SUBSET {"update", "drop"}]
      BY <2>7, InterfereTypes DEF EvictDevices
    <3> QED  BY <2>7, <3>1 DEF TypeOK, EvictDevices, reads
  <2>8. CASE UNCHANGED vars
    BY <2>8 DEF TypeOK, vars, store, reads
  <2> QED  BY <2>1, <2>2, <2>3, <2>4, <2>5, <2>6, <2>7, <2>8 DEF Next, Score
<1> QED  BY <1>1, <1>2, PTL DEF Spec

-----------------------------------------------------------------------------
(* Expiry. *)

\* Every step keeps a user's two keys on one expiry.
LEMMA KeysExpireTogetherStep ==
    ASSUME TypeOK, KeysExpireTogether, [Next]_vars
    PROVE  KeysExpireTogether'
<1> USE TxAssumption, StoreAssumption
<1>1. ASSUME NEW w \in Workers, Update(w)
      PROVE  KeysExpireTogether'
  <2> DEFINE t == cur[w]
             u == UserOf[t]
  <2>1. t \in Tx /\ u \in Users /\ amounts[u] \in Seq(Tx) /\ DeviceOf[t] \in DeviceIds
    BY <1>1 DEF TypeOK, Update
  <2>2. PushTrim(amounts[u], t) # <<>>
    BY <2>1, PushTrimKept
  <2>3. /\ amounts' = [amounts EXCEPT ![u] = PushTrim(amounts[u], t)]
        /\ devices' = [devices EXCEPT ![u] = devices[u] \union {DeviceOf[t]}]
        /\ amountsTtl' = [amountsTtl EXCEPT ![u] = TtlSec]
        /\ devicesTtl' = [devicesTtl EXCEPT ![u] = TtlSec]
    BY <1>1 DEF Update
  <2> HIDE DEF t, u
  <2>4. /\ amounts'[u] # <<>> /\ devices'[u] # {}
        /\ amountsTtl'[u] = TtlSec /\ devicesTtl'[u] = TtlSec /\ TtlSec > 0
    BY <2>1, <2>2, <2>3 DEF TypeOK
  <2>5. \A v \in Users \ {u} :
          /\ amounts'[v] = amounts[v] /\ amountsTtl'[v] = amountsTtl[v]
          /\ devices'[v] = devices[v] /\ devicesTtl'[v] = devicesTtl[v]
    BY <2>3 DEF TypeOK
  <2> QED  BY <2>4, <2>5 DEF KeysExpireTogether
<1>2. ASSUME Tick
      PROVE  KeysExpireTogether'
  <2> SUFFICES ASSUME NEW u \in Users
               PROVE  /\ amounts'[u] # <<>> <=> amountsTtl'[u] > 0
                      /\ devices'[u] # {} <=> devicesTtl'[u] > 0
                      /\ amounts'[u] # <<>> /\ devices'[u] # {} =>
                           amountsTtl'[u] = devicesTtl'[u]
    BY DEF KeysExpireTogether
  <2>1. /\ amountsTtl[u] \in Nat /\ devicesTtl[u] \in Nat
        /\ amounts[u] # <<>> <=> amountsTtl[u] > 0
        /\ devices[u] # {} <=> devicesTtl[u] > 0
        /\ amounts[u] # <<>> /\ devices[u] # {} => amountsTtl[u] = devicesTtl[u]
    BY DEF TypeOK, KeysExpireTogether
  <2>2. /\ amountsTtl'[u] = IF amountsTtl[u] > 0 THEN amountsTtl[u] - 1 ELSE 0
        /\ devicesTtl'[u] = IF devicesTtl[u] > 0 THEN devicesTtl[u] - 1 ELSE 0
        /\ amounts'[u] = IF amountsTtl[u] = 1 THEN <<>> ELSE amounts[u]
        /\ devices'[u] = IF devicesTtl[u] = 1 THEN {} ELSE devices[u]
    BY <1>2 DEF Tick
  <2> QED  BY <2>1, <2>2
<1>3. ASSUME NEW u \in Users, EvictAmounts(u)
      PROVE  KeysExpireTogether'
  BY <1>3 DEF TypeOK, KeysExpireTogether, EvictAmounts
<1>4. ASSUME NEW u \in Users, EvictDevices(u)
      PROVE  KeysExpireTogether'
  BY <1>4 DEF TypeOK, KeysExpireTogether, EvictDevices
<1>5. CASE UNCHANGED store
  BY <1>5 DEF KeysExpireTogether, store
<1>6. ASSUME NEW w \in Workers,
             (\E t \in Tx : ReadAmounts(w, t)) \/ ReadDevices(w) \/ ScoreRaises(w)
      PROVE  UNCHANGED store
  BY <1>6 DEF ReadAmounts, ReadDevices, ScoreRaises
<1> QED  BY <1>1, <1>2, <1>3, <1>4, <1>5, <1>6 DEF Next, Score, vars

\* Both keys of a user carry an expiry and expire in the same tick.
THEOREM ExpiryCorrect == Spec => []KeysExpireTogether
<1>1. Init => KeysExpireTogether
  BY DEF Init, KeysExpireTogether
<1>2. TypeOK /\ KeysExpireTogether /\ [Next]_vars => KeysExpireTogether'
  BY KeysExpireTogetherStep
<1> QED  BY <1>1, <1>2, TypeCorrect, PTL DEF Spec

-----------------------------------------------------------------------------
(* The two reads of get_history. *)

\* The devices in D account for every amount of the list s.
Covers(D, s) == \A i \in 1..Len(s) : DeviceOf[s[i]] \in D

\* The strengthening of ReadsFitTogether: the store itself fits together for
\* every user whose devices were not evicted, and a worker that has only read
\* the amounts will find their devices.
StoreFits == \A u \in Users \ uncovered : Covers(devices[u], amounts[u])

ReaderFits(w) ==
    "drop" \notin interference[w] =>
        /\ pc[w] = "readAmounts" => Covers(devices[UserOf[cur[w]]], seenAmounts[w])
        /\ pc[w] = "readDevices" => Covers(seenDevices[w], seenAmounts[w])

FitInv == StoreFits /\ \A w \in Workers : ReaderFits(w)

\* A step that leaves the reads of worker w alone, and drops none of its
\* user's devices without telling it, keeps what w has read together.
LEMMA ReaderKeeps ==
    ASSUME NEW w \in Workers, ReaderFits(w),
           UNCHANGED <<pc[w], cur[w], seenAmounts[w], seenDevices[w]>>,
           "drop" \in interference[w] => "drop" \in interference'[w],
           pc[w] = "readAmounts" /\ "drop" \notin interference'[w] =>
               devices[UserOf[cur[w]]] \subseteq devices'[UserOf[cur[w]]]
    PROVE  ReaderFits(w)'
BY DEF ReaderFits, Covers

\* Reversing or cutting a list does not change which devices account for it.
LEMMA OldestFirstCovered ==
    ASSUME NEW s \in Seq(Tx), NEW D, Covers(D, s)
    PROVE  Covers(D, OldestFirst(s))
<1>1. HistoryLen \in Nat /\ Len(s) \in Nat
  BY LengthAssumption, LenProperties
<1> DEFINE n == Newest(s, HistoryLen)
<1>2. /\ n \in Seq(Tx) /\ Len(n) \in Nat /\ Len(n) <= Len(s)
      /\ \A i \in 1..Len(n) : n[i] = s[i]
  BY <1>1, NewestProperties
<1> HIDE DEF n
<1>3. \A i \in 1..Len(n) : DeviceOf[n[i]] \in D
  BY <1>1, <1>2 DEF Covers
<1>4. /\ Len(Reverse(n)) = Len(n)
      /\ \A i \in 1..Len(n) : Reverse(n)[i] = n[Len(n) - i + 1]
  BY <1>2, ReverseProperties
<1>5. \A i \in 1..Len(n) : Len(n) - i + 1 \in 1..Len(n)
  BY <1>2
<1> QED  BY <1>3, <1>4, <1>5 DEF Covers, OldestFirst, n

\* Redis dropping keys keeps what the workers have read together, when it
\* marks the workers of every user whose devices shrink.
LEMMA DropKeepsReaders ==
    ASSUME TypeOK, FitInv, UNCHANGED reads, NEW W, Interfere(W, "drop"),
           \A x \in Users : devices[x] \subseteq devices'[x] \/ Scoring(x) \subseteq W
    PROVE  \A w \in Workers : ReaderFits(w)'
<1> SUFFICES ASSUME NEW w \in Workers
             PROVE  ReaderFits(w)'
  OBVIOUS
<1>1. ReaderFits(w) /\ UNCHANGED <<pc[w], cur[w], seenAmounts[w], seenDevices[w]>>
  BY DEF FitInv, reads
<1>2. interference'[w] = IF w \in W THEN interference[w] \union {"drop"} ELSE interference[w]
  BY DEF Interfere
<1>3. ASSUME pc[w] = "readAmounts", "drop" \notin interference'[w]
      PROVE  devices[UserOf[cur[w]]] \subseteq devices'[UserOf[cur[w]]]
  <2>1. w \notin W
    BY <1>2, <1>3
  <2>2. cur[w] \in Tx /\ UserOf[cur[w]] \in Users
    BY <1>3, TxAssumption DEF TypeOK
  <2>3. w \in Scoring(UserOf[cur[w]])
    BY <1>3 DEF Scoring
  <2> QED  BY <2>1, <2>2, <2>3
<1>4. "drop" \in interference[w] => "drop" \in interference'[w]
  BY <1>2
<1> QED  BY <1>1, <1>3, <1>4, ReaderKeeps

\* Every step keeps devices accounting for amounts, in the store and in hand.
LEMMA FitInvStep ==
    ASSUME TypeOK, KeysExpireTogether, FitInv, [Next]_vars
    PROVE  FitInv'
<1> USE TxAssumption, StoreAssumption
<1>1. ASSUME NEW w \in Workers, NEW t \in Tx, ReadAmounts(w, t)
      PROVE  FitInv'
  <2>1. StoreFits'
    BY <1>1 DEF FitInv, StoreFits, ReadAmounts, store
  <2>2. ASSUME NEW v \in Workers \ {w}
        PROVE  ReaderFits(v)'
    <3>1. ReaderFits(v) /\ UNCHANGED <<pc[v], cur[v], seenAmounts[v], seenDevices[v]>>
      BY <1>1 DEF TypeOK, FitInv, ReadAmounts
    <3>2. UNCHANGED <<devices, interference[v]>>
      BY <1>1 DEF TypeOK, ReadAmounts, store
    <3> QED  BY <3>1, <3>2, ReaderKeeps
  <2>3. ReaderFits(w)'
    <3> DEFINE u == UserOf[t]
    <3>1. u \in Users /\ amounts[u] \in Seq(Tx)
      BY DEF TypeOK
    <3>2. /\ pc'[w] = "readAmounts" /\ cur'[w] = t /\ devices' = devices
          /\ seenAmounts'[w] = OldestFirst(amounts[u])
          /\ interference'[w] = IF u \in uncovered THEN {"drop"} ELSE {}
      BY <1>1 DEF TypeOK, ReadAmounts, store
    <3>3. "drop" \notin interference'[w] => Covers(devices[u], amounts[u])
      BY <3>1, <3>2 DEF FitInv, StoreFits
    <3>4. "drop" \notin interference'[w] => Covers(devices[u], OldestFirst(amounts[u]))
      BY <3>1, <3>3, OldestFirstCovered
    <3>5. "drop" \notin interference'[w] =>
            Covers(devices'[UserOf[cur'[w]]], seenAmounts'[w])
      BY <3>2, <3>4
    <3> QED  BY <3>2, <3>5 DEF ReaderFits, Covers
  <2> QED  BY <2>1, <2>2, <2>3 DEF FitInv
<1>2. ASSUME NEW w \in Workers, ReadDevices(w)
      PROVE  FitInv'
  <2>1. StoreFits'
    BY <1>2 DEF FitInv, StoreFits, ReadDevices, store
  <2>2. ASSUME NEW v \in Workers \ {w}
        PROVE  ReaderFits(v)'
    <3>1. ReaderFits(v) /\ UNCHANGED <<pc[v], cur[v], seenAmounts[v], seenDevices[v]>>
      BY <1>2 DEF TypeOK, FitInv, ReadDevices
    <3>2. UNCHANGED <<devices, interference[v]>>
      BY <1>2 DEF ReadDevices, store
    <3> QED  BY <3>1, <3>2, ReaderKeeps
  <2>3. ReaderFits(w)'
    <3>1. /\ pc[w] = "readAmounts" /\ pc'[w] = "readDevices"
          /\ seenDevices'[w] = devices[UserOf[cur[w]]]
          /\ seenAmounts'[w] = seenAmounts[w] /\ interference'[w] = interference[w]
      BY <1>2 DEF TypeOK, ReadDevices
    <3> QED  BY <3>1 DEF FitInv, ReaderFits, Covers
  <2> QED  BY <2>1, <2>2, <2>3 DEF FitInv
<1>3. ASSUME NEW w \in Workers, Update(w)
      PROVE  FitInv'
  <2> DEFINE t == cur[w]
             u == UserOf[t]
  <2>1. t \in Tx /\ u \in Users /\ amounts[u] \in Seq(Tx)
    BY <1>3 DEF TypeOK, Update
  <2>2. /\ amounts' = [amounts EXCEPT ![u] = PushTrim(amounts[u], t)]
        /\ devices' = [devices EXCEPT ![u] = devices[u] \union {DeviceOf[t]}]
        /\ uncovered' = uncovered
    BY <1>3 DEF Update
  <2>3. \A x \in Users : devices[x] \subseteq devices'[x]
    BY <2>1, <2>2 DEF TypeOK
  <2>4. StoreFits'
    <3> SUFFICES ASSUME NEW x \in Users \ uncovered
                 PROVE  Covers(devices'[x], amounts'[x])
      BY <2>2 DEF StoreFits, Covers
    <3>1. Covers(devices[x], amounts[x])
      BY DEF FitInv, StoreFits
    <3>2. CASE x # u
      BY <2>1, <2>2, <3>1, <3>2 DEF TypeOK
    <3>3. CASE x = u
      <4> DEFINE p == PushTrim(amounts[u], t)
      <4>1. /\ p \in Seq(Tx)
            /\ Len(p) = IF HistoryLen < Len(amounts[u]) + 1
                        THEN HistoryLen ELSE Len(amounts[u]) + 1
            /\ \A i \in 1..Len(p) : p[i] = IF i = 1 THEN t ELSE amounts[u][i - 1]
        BY <2>1, PushTrimProperties
      <4>2. Len(amounts[u]) \in Nat /\ HistoryLen \in Nat
        BY <2>1, LenProperties, LengthAssumption
      <4>3. amounts'[u] = p /\ devices'[u] = devices[u] \union {DeviceOf[t]}
        BY <2>1, <2>2 DEF TypeOK
      <4> HIDE DEF p, t, u
      <4>4. ASSUME NEW i \in 1..Len(p)
            PROVE  DeviceOf[p[i]] \in devices[u] \union {DeviceOf[t]}
        <5>1. CASE i = 1
          BY <4>1, <5>1
        <5>2. CASE i # 1
          <6>1. i - 1 \in 1..Len(amounts[u]) /\ p[i] = amounts[u][i - 1]
            BY <4>1, <4>2, <5>2
          <6> QED  BY <3>1, <3>3, <6>1 DEF Covers
        <5> QED  BY <5>1, <5>2
      <4> QED  BY <3>3, <4>3, <4>4 DEF Covers
    <3> QED  BY <3>2, <3>3
  <2>5. ASSUME NEW v \in Workers \ {w}
        PROVE  ReaderFits(v)'
    <3>1. ReaderFits(v) /\ UNCHANGED <<pc[v], cur[v], seenAmounts[v], seenDevices[v]>>
      BY <1>3 DEF TypeOK, FitInv, Update, Leave
    <3>2. interference[v] \subseteq interference'[v]
      BY <1>3 DEF TypeOK, Update, Interfere
    <3>3. pc[v] = "readAmounts" => UserOf[cur[v]] \in Users
      BY DEF TypeOK
    <3> QED  BY <2>3, <3>1, <3>2, <3>3, ReaderKeeps
  <2>6. ReaderFits(w)'
    BY <1>3 DEF TypeOK, Update, Leave, ReaderFits
  <2> QED  BY <2>4, <2>5, <2>6 DEF FitInv
<1>4. ASSUME NEW w \in Workers, ScoreRaises(w)
      PROVE  FitInv'
  <2>1. StoreFits'
    BY <1>4 DEF FitInv, StoreFits, ScoreRaises, store
  <2>2. ASSUME NEW v \in Workers \ {w}
        PROVE  ReaderFits(v)'
    <3>1. ReaderFits(v) /\ UNCHANGED <<pc[v], cur[v], seenAmounts[v], seenDevices[v]>>
      BY <1>4 DEF TypeOK, FitInv, ScoreRaises, Leave
    <3>2. UNCHANGED <<devices, interference[v]>>
      BY <1>4 DEF ScoreRaises, store
    <3> QED  BY <3>1, <3>2, ReaderKeeps
  <2>3. ReaderFits(w)'
    BY <1>4 DEF TypeOK, ScoreRaises, Leave, ReaderFits
  <2> QED  BY <2>1, <2>2, <2>3 DEF FitInv
<1>5. ASSUME Tick
      PROVE  FitInv'
  <2> DEFINE goneA == {u \in Users : amountsTtl[u] = 1}
             goneD == {u \in Users : devicesTtl[u] = 1}
             W == UNION {Scoring(u) : u \in goneA \union goneD}
  <2>1. /\ amounts' = [u \in Users |-> IF u \in goneA THEN <<>> ELSE amounts[u]]
        /\ devices' = [u \in Users |-> IF u \in goneD THEN {} ELSE devices[u]]
        /\ uncovered' = uncovered \ goneA
        /\ Interfere(W, "drop") /\ UNCHANGED reads
    BY <1>5 DEF Tick
  <2>2. \A x \in Users : devices[x] \subseteq devices'[x] \/ Scoring(x) \subseteq W
    BY <2>1
  <2>3. ASSUME NEW x \in Users \ uncovered'
        PROVE  Covers(devices'[x], amounts'[x])
    <3>1. CASE x \in goneA
      BY <2>1, <3>1, EmptyIsKept DEF Covers
    <3>2. CASE x \notin goneA
      <4>1. Covers(devices[x], amounts[x]) /\ amounts'[x] = amounts[x]
        BY <2>1, <3>2 DEF FitInv, StoreFits
      <4>2. CASE x \in goneD
        <5>1. devicesTtl[x] = 1 /\ amountsTtl[x] # 1
          BY <3>2, <4>2
        <5>2. devices[x] # {}
          BY <5>1 DEF KeysExpireTogether
        <5>3. amounts[x] = <<>>
          BY <5>1, <5>2 DEF KeysExpireTogether
        <5> QED  BY <4>1, <5>3, EmptyIsKept DEF Covers
      <4>3. CASE x \notin goneD
        BY <2>1, <4>1, <4>3
      <4> QED  BY <4>2, <4>3
    <3> QED  BY <3>1, <3>2
  <2> HIDE DEF W
  <2>4. \A v \in Workers : ReaderFits(v)'
    BY <2>1, <2>2, DropKeepsReaders
  <2> QED  BY <2>3, <2>4 DEF FitInv, StoreFits, Covers
<1>6. ASSUME NEW u \in Users, EvictAmounts(u)
      PROVE  FitInv'
  <2>1. /\ amounts' = [amounts EXCEPT ![u] = <<>>] /\ uncovered' = uncovered \ {u}
        /\ devices' = devices /\ Interfere(Scoring(u), "drop") /\ UNCHANGED reads
    BY <1>6 DEF EvictAmounts
  <2>2. StoreFits'
    BY <2>1, EmptyIsKept DEF TypeOK, FitInv, StoreFits, Covers
  <2>3. \A v \in Workers : ReaderFits(v)'
    BY <2>1, DropKeepsReaders
  <2> QED  BY <2>2, <2>3 DEF FitInv
<1>7. ASSUME NEW u \in Users, EvictDevices(u)
      PROVE  FitInv'
  <2>1. /\ devices' = [devices EXCEPT ![u] = {}] /\ amounts' = amounts
        /\ uncovered' = IF amounts[u] = <<>> THEN uncovered ELSE uncovered \union {u}
        /\ Interfere(Scoring(u), "drop") /\ UNCHANGED reads
    BY <1>7 DEF EvictDevices
  <2>2. StoreFits'
    <3>1. ASSUME NEW x \in Users \ uncovered', x # u
          PROVE  Covers(devices'[x], amounts'[x])
      BY <2>1, <3>1 DEF TypeOK, FitInv, StoreFits
    <3>2. u \notin uncovered' => Covers(devices'[u], amounts'[u])
      BY <2>1, EmptyIsKept DEF Covers
    <3> QED  BY <3>1, <3>2 DEF StoreFits, Covers
  <2>3. \A x \in Users : devices[x] \subseteq devices'[x] \/ Scoring(x) \subseteq Scoring(u)
    BY <2>1 DEF TypeOK
  <2>4. \A v \in Workers : ReaderFits(v)'
    BY <2>1, <2>3, DropKeepsReaders
  <2> QED  BY <2>2, <2>4 DEF FitInv
<1>8. CASE UNCHANGED vars
  BY <1>8 DEF vars, store, reads, FitInv, StoreFits, ReaderFits, Covers
<1> QED  BY <1>1, <1>2, <1>3, <1>4, <1>5, <1>6, <1>7, <1>8 DEF Next, Score

\* What get_history returns fits together although its two reads are two
\* commands, however many threads score the user meanwhile.
THEOREM ReadsCorrect == Spec => []ReadsFitTogether
<1>1. Init => FitInv
  BY EmptyIsKept DEF Init, FitInv, StoreFits, ReaderFits, Covers
<1>2. TypeOK /\ KeysExpireTogether /\ FitInv /\ [Next]_vars => FitInv'
  BY FitInvStep
<1>3. FitInv => ReadsFitTogether
  BY DEF FitInv, ReaderFits, Covers, ReadsFitTogether
<1> QED  BY <1>1, <1>2, <1>3, TypeCorrect, ExpiryCorrect, PTL DEF Spec

-----------------------------------------------------------------------------
(* A transaction not recorded yet does not meet itself. *)

\* The transactions of a list.
Entries(s) == {s[i] : i \in 1..Len(s)}

\* A push brings no transaction into the list but its own.
LEMMA PushTrimEntries ==
    ASSUME NEW s \in Seq(Tx), NEW t \in Tx
    PROVE  Entries(PushTrim(s, t)) \subseteq Entries(s) \union {t}
<1> DEFINE p == PushTrim(s, t)
<1>1. /\ p \in Seq(Tx)
      /\ Len(p) = IF HistoryLen < Len(s) + 1 THEN HistoryLen ELSE Len(s) + 1
      /\ \A i \in 1..Len(p) : p[i] = IF i = 1 THEN t ELSE s[i - 1]
  BY PushTrimProperties
<1>2. Len(s) \in Nat /\ HistoryLen \in Nat
  BY LenProperties, LengthAssumption
<1> HIDE DEF p
<1>3. ASSUME NEW i \in 1..Len(p), i # 1
      PROVE  i - 1 \in 1..Len(s) /\ p[i] = s[i - 1]
  BY <1>1, <1>2, <1>3
<1>4. \A i \in 1..Len(p) : p[i] \in Entries(s) \union {t}
  BY <1>1, <1>3 DEF Entries
<1> QED  BY <1>4 DEF Entries, p

\* Reading a list invents no entry.
LEMMA OldestFirstEntries ==
    ASSUME NEW s \in Seq(Tx)
    PROVE  Entries(OldestFirst(s)) \subseteq Entries(s)
<1>1. HistoryLen \in Nat /\ Len(s) \in Nat
  BY LengthAssumption, LenProperties
<1> DEFINE n == Newest(s, HistoryLen)
<1>2. /\ n \in Seq(Tx) /\ Len(n) \in Nat /\ Len(n) <= Len(s)
      /\ \A i \in 1..Len(n) : n[i] = s[i]
  BY <1>1, NewestProperties
<1> HIDE DEF n
<1>3. /\ Len(Reverse(n)) = Len(n)
      /\ \A i \in 1..Len(n) : Reverse(n)[i] = n[Len(n) - i + 1]
  BY <1>2, ReverseProperties
<1>4. ASSUME NEW i \in 1..Len(n)
      PROVE  Reverse(n)[i] \in Entries(s)
  <2> DEFINE j == Len(n) - i + 1
  <2>1. j \in 1..Len(n) /\ j \in 1..Len(s) /\ Reverse(n)[i] = n[j]
    BY <1>1, <1>2, <1>3
  <2> HIDE DEF j
  <2> QED  BY <1>2, <2>1 DEF Entries
<1>5. Entries(Reverse(n)) \subseteq Entries(s)
  BY <1>3, <1>4 DEF Entries
<1> QED  BY <1>5 DEF OldestFirst, n

\* The strengthening of NotInOwnHistory: only what was recorded is in any list,
\* or in what a worker has read of one.
FreshInv ==
    /\ \A u \in Users : Entries(amounts[u]) \subseteq recorded
    /\ \A w \in Workers : pc[w] # "idle" => Entries(seenAmounts[w]) \subseteq recorded

\* A list gets a transaction only by the update that records it, and a worker reads
\* it before its own.
LEMMA FreshInvStep ==
    ASSUME TypeOK, FreshInv, [Next]_vars
    PROVE  FreshInv'
<1> USE TxAssumption
<1>1. ASSUME NEW w \in Workers, NEW t \in Tx, ReadAmounts(w, t)
      PROVE  FreshInv'
  <2>1. /\ pc' = [pc EXCEPT ![w] = "readAmounts"]
        /\ seenAmounts' = [seenAmounts EXCEPT ![w] = OldestFirst(amounts[UserOf[t]])]
        /\ UNCHANGED <<amounts, recorded>>
    BY <1>1 DEF ReadAmounts, store
  <2>2. UserOf[t] \in Users /\ amounts[UserOf[t]] \in Seq(Tx)
    BY DEF TypeOK
  <2>3. Entries(seenAmounts'[w]) \subseteq recorded
    BY <2>1, <2>2, OldestFirstEntries DEF TypeOK, FreshInv
  <2>4. \A v \in Workers \ {w} : pc'[v] = pc[v] /\ seenAmounts'[v] = seenAmounts[v]
    BY <2>1 DEF TypeOK
  <2> QED  BY <2>1, <2>3, <2>4 DEF FreshInv
<1>2. ASSUME NEW w \in Workers, ReadDevices(w)
      PROVE  FreshInv'
  <2>1. /\ pc' = [pc EXCEPT ![w] = "readDevices"] /\ pc[w] = "readAmounts"
        /\ UNCHANGED <<amounts, seenAmounts, recorded>>
    BY <1>2 DEF ReadDevices, store
  <2>2. \A v \in Workers : pc'[v] # "idle" <=> pc[v] # "idle"
    BY <2>1 DEF TypeOK
  <2> QED  BY <2>1, <2>2 DEF FreshInv
<1>3. ASSUME NEW w \in Workers, Update(w)
      PROVE  FreshInv'
  <2> DEFINE t == cur[w]
             u == UserOf[t]
  <2>1. t \in Tx /\ u \in Users /\ amounts[u] \in Seq(Tx)
    BY <1>3 DEF TypeOK, Update
  <2>2. /\ amounts' = [amounts EXCEPT ![u] = PushTrim(amounts[u], t)]
        /\ recorded' = recorded \union {t}
    BY <1>3 DEF Update
  <2>3. \A x \in Users : Entries(amounts'[x]) \subseteq Entries(amounts[x]) \union {t}
    BY <2>1, <2>2, PushTrimEntries DEF TypeOK
  <2>4. /\ pc'[w] = "idle"
        /\ \A v \in Workers \ {w} : pc'[v] = pc[v] /\ seenAmounts'[v] = seenAmounts[v]
    BY <1>3 DEF TypeOK, Update, Leave
  <2> QED  BY <2>2, <2>3, <2>4 DEF FreshInv
<1>4. ASSUME NEW w \in Workers, ScoreRaises(w)
      PROVE  FreshInv'
  <2>1. /\ pc'[w] = "idle"
        /\ \A v \in Workers \ {w} : pc'[v] = pc[v] /\ seenAmounts'[v] = seenAmounts[v]
        /\ UNCHANGED <<amounts, recorded>>
    BY <1>4 DEF TypeOK, ScoreRaises, Leave, store
  <2> QED  BY <2>1 DEF FreshInv
<1>5. ASSUME UNCHANGED <<reads, recorded>>,
             \A u \in Users : amounts'[u] \in {amounts[u], <<>>}
      PROVE  FreshInv'
  <2>1. \A u \in Users : Entries(amounts'[u]) \subseteq Entries(amounts[u])
    BY <1>5, EmptyIsKept DEF Entries
  <2>2. UNCHANGED <<pc, seenAmounts, recorded>>
    BY <1>5 DEF reads
  <2> QED  BY <2>1, <2>2 DEF FreshInv
<1>6. ASSUME Tick \/ (\E u \in Users : EvictAmounts(u) \/ EvictDevices(u)) \/ UNCHANGED vars
      PROVE  /\ UNCHANGED <<reads, recorded>>
             /\ \A u \in Users : amounts'[u] \in {amounts[u], <<>>}
  BY <1>6 DEF TypeOK, Tick, EvictAmounts, EvictDevices, vars, store
<1> QED  BY <1>1, <1>2, <1>3, <1>4, <1>5, <1>6 DEF Next, Score

\* score() records a transaction only after it has read the history, and that
\* order is enough: no interleaving of any number of threads, and no earlier try
\* that failed before it was recorded, lets a transaction see itself.
THEOREM NeverInOwnHistory == Spec => []NotInOwnHistory
<1>1. Init => FreshInv
  BY EmptyIsKept DEF Init, FreshInv, Entries
<1>2. TypeOK /\ FreshInv /\ [Next]_vars => FreshInv'
  BY FreshInvStep
<1>3. FreshInv => NotInOwnHistory
  BY DEF FreshInv, Entries, NotInOwnHistory, Contains
<1> QED  BY <1>1, <1>2, <1>3, TypeCorrect, PTL DEF Spec

-----------------------------------------------------------------------------
(* Parity with the trainer's replay. *)

\* While nothing has interfered, what a worker has read is still in the store.
Undisturbed(w) ==
    interference[w] = {} =>
        /\ pc[w] # "idle" => seenAmounts[w] = Reverse(amounts[UserOf[cur[w]]])
        /\ pc[w] = "readDevices" => seenDevices[w] = devices[UserOf[cur[w]]]

\* A step that leaves worker w alone either marks it or leaves its user's keys.
LEMMA UndisturbedKeeps ==
    ASSUME NEW w \in Workers, Undisturbed(w),
           UNCHANGED <<pc[w], cur[w], seenAmounts[w], seenDevices[w]>>,
           interference'[w] = {} =>
               /\ interference[w] = {}
               /\ pc[w] # "idle" =>
                    /\ amounts'[UserOf[cur[w]]] = amounts[UserOf[cur[w]]]
                    /\ devices'[UserOf[cur[w]]] = devices[UserOf[cur[w]]]
    PROVE  Undisturbed(w)'
BY DEF Undisturbed

\* Every step that does not mark a worker leaves what it has read in step with
\* the store.
LEMMA UndisturbedStep ==
    ASSUME TypeOK, \A w \in Workers : Undisturbed(w), [Next]_vars
    PROVE  \A w \in Workers : Undisturbed(w)'
<1> USE TxAssumption
<1>1. ASSUME NEW w \in Workers, NEW t \in Tx, ReadAmounts(w, t)
      PROVE  \A v \in Workers : Undisturbed(v)'
  <2>1. ASSUME NEW v \in Workers \ {w}
        PROVE  Undisturbed(v)'
    <3>1. /\ Undisturbed(v)
          /\ UNCHANGED <<pc[v], cur[v], seenAmounts[v], seenDevices[v], interference[v]>>
          /\ UNCHANGED <<amounts, devices>>
      BY <1>1 DEF TypeOK, ReadAmounts, store
    <3> QED  BY <3>1, UndisturbedKeeps
  <2>2. Undisturbed(w)'
    <3>1. /\ pc'[w] = "readAmounts" /\ cur'[w] = t /\ UNCHANGED <<amounts, devices>>
          /\ seenAmounts'[w] = OldestFirst(amounts[UserOf[t]])
      BY <1>1 DEF TypeOK, ReadAmounts, store
    <3>2. /\ UserOf[t] \in Users /\ amounts[UserOf[t]] \in Seq(Tx)
          /\ Kept(amounts[UserOf[t]])
      BY DEF TypeOK
    <3>3. OldestFirst(amounts[UserOf[t]]) = Reverse(amounts[UserOf[t]])
      BY <3>2, OldestFirstProperties
    <3> QED  BY <3>1, <3>3 DEF Undisturbed
  <2> QED  BY <2>1, <2>2
<1>2. ASSUME NEW w \in Workers, ReadDevices(w)
      PROVE  \A v \in Workers : Undisturbed(v)'
  <2>1. ASSUME NEW v \in Workers \ {w}
        PROVE  Undisturbed(v)'
    <3>1. /\ Undisturbed(v)
          /\ UNCHANGED <<pc[v], cur[v], seenAmounts[v], seenDevices[v], interference[v]>>
          /\ UNCHANGED <<amounts, devices>>
      BY <1>2 DEF TypeOK, ReadDevices, store
    <3> QED  BY <3>1, UndisturbedKeeps
  <2>2. Undisturbed(w)'
    <3>1. /\ pc[w] # "idle" /\ pc'[w] = "readDevices"
          /\ seenDevices'[w] = devices[UserOf[cur[w]]]
          /\ UNCHANGED <<amounts, devices, cur[w], seenAmounts[w], interference[w]>>
      BY <1>2 DEF TypeOK, ReadDevices, store
    <3> QED  BY <3>1 DEF Undisturbed
  <2> QED  BY <2>1, <2>2
<1>3. ASSUME NEW w \in Workers, Update(w)
      PROVE  \A v \in Workers : Undisturbed(v)'
  <2> DEFINE u == UserOf[cur[w]]
  <2>1. ASSUME NEW v \in Workers \ {w}
        PROVE  Undisturbed(v)'
    <3>1. Undisturbed(v) /\ UNCHANGED <<pc[v], cur[v], seenAmounts[v], seenDevices[v]>>
      BY <1>3 DEF TypeOK, Update, Leave
    <3>2. interference'[v] = IF v \in Scoring(u) \ {w}
                             THEN interference[v] \union {"update"} ELSE interference[v]
      BY <1>3 DEF Update, Interfere
    <3>3. \A x \in Users \ {u} : amounts'[x] = amounts[x] /\ devices'[x] = devices[x]
      BY <1>3 DEF TypeOK, Update
    <3>4. pc[v] # "idle" => UserOf[cur[v]] \in Users
      BY DEF TypeOK
    <3>5. pc[v] # "idle" /\ UserOf[cur[v]] = u => v \in Scoring(u)
      BY DEF Scoring
    <3> HIDE DEF u
    <3>6. interference'[v] = {} =>
            /\ interference[v] = {}
            /\ pc[v] # "idle" =>
                 /\ amounts'[UserOf[cur[v]]] = amounts[UserOf[cur[v]]]
                 /\ devices'[UserOf[cur[v]]] = devices[UserOf[cur[v]]]
      BY <3>2, <3>3, <3>4, <3>5
    <3> QED  BY <3>1, <3>6, UndisturbedKeeps
  <2>2. Undisturbed(w)'
    BY <1>3 DEF TypeOK, Update, Leave, Undisturbed
  <2> QED  BY <2>1, <2>2
<1>4. ASSUME NEW w \in Workers, ScoreRaises(w)
      PROVE  \A v \in Workers : Undisturbed(v)'
  <2>1. ASSUME NEW v \in Workers \ {w}
        PROVE  Undisturbed(v)'
    <3>1. /\ Undisturbed(v) /\ UNCHANGED <<amounts, devices, interference>>
          /\ UNCHANGED <<pc[v], cur[v], seenAmounts[v], seenDevices[v]>>
      BY <1>4 DEF TypeOK, ScoreRaises, Leave, store
    <3> QED  BY <3>1, UndisturbedKeeps
  <2>2. Undisturbed(w)'
    BY <1>4 DEF TypeOK, ScoreRaises, Leave, Undisturbed
  <2> QED  BY <2>1, <2>2
<1>5. ASSUME NEW W, Interfere(W, "drop"), UNCHANGED reads,
             \A x \in Users : \/ amounts'[x] = amounts[x] /\ devices'[x] = devices[x]
                              \/ Scoring(x) \subseteq W
      PROVE  \A v \in Workers : Undisturbed(v)'
  <2> SUFFICES ASSUME NEW v \in Workers
               PROVE  Undisturbed(v)'
    OBVIOUS
  <2>1. Undisturbed(v) /\ UNCHANGED <<pc[v], cur[v], seenAmounts[v], seenDevices[v]>>
    BY <1>5 DEF reads
  <2>2. interference'[v] = IF v \in W THEN interference[v] \union {"drop"} ELSE interference[v]
    BY <1>5 DEF Interfere
  <2>3. pc[v] # "idle" => UserOf[cur[v]] \in Users /\ v \in Scoring(UserOf[cur[v]])
    BY DEF TypeOK, Scoring
  <2>4. interference'[v] = {} =>
          /\ interference[v] = {}
          /\ pc[v] # "idle" =>
               /\ amounts'[UserOf[cur[v]]] = amounts[UserOf[cur[v]]]
               /\ devices'[UserOf[cur[v]]] = devices[UserOf[cur[v]]]
    BY <1>5, <2>2, <2>3
  <2> QED  BY <2>1, <2>4, UndisturbedKeeps
<1>6. ASSUME Tick
      PROVE  \A v \in Workers : Undisturbed(v)'
  <2> DEFINE goneA == {u \in Users : amountsTtl[u] = 1}
             goneD == {u \in Users : devicesTtl[u] = 1}
             W == UNION {Scoring(u) : u \in goneA \union goneD}
  <2>1. Interfere(W, "drop") /\ UNCHANGED reads
    BY <1>6 DEF Tick
  <2>2. \A x \in Users : \/ amounts'[x] = amounts[x] /\ devices'[x] = devices[x]
                         \/ Scoring(x) \subseteq W
    BY <1>6 DEF Tick
  <2> HIDE DEF W
  <2> QED  BY <1>5, <2>1, <2>2
<1>7. ASSUME NEW u \in Users, EvictAmounts(u) \/ EvictDevices(u)
      PROVE  \A v \in Workers : Undisturbed(v)'
  <2>1. Interfere(Scoring(u), "drop") /\ UNCHANGED reads
    BY <1>7 DEF EvictAmounts, EvictDevices
  <2>2. \A x \in Users : \/ amounts'[x] = amounts[x] /\ devices'[x] = devices[x]
                         \/ Scoring(x) \subseteq Scoring(u)
    BY <1>7 DEF TypeOK, EvictAmounts, EvictDevices
  <2> QED  BY <1>5, <2>1, <2>2
<1>8. CASE UNCHANGED vars
  BY <1>8 DEF vars, store, reads, Undisturbed
<1> QED  BY <1>1, <1>2, <1>3, <1>4, <1>6, <1>7, <1>8 DEF Next, Score

\* When no other update and no dropped key comes between a worker's reads and
\* its own update, it scored the vector the offline trainer computes.
THEOREM TrainServeParity == Spec => UnracedMatchesReplay
<1>1. Init => \A w \in Workers : Undisturbed(w)
  BY DEF Init, Undisturbed
<1>2. TypeOK /\ (\A w \in Workers : Undisturbed(w)) /\ [Next]_vars =>
        (\A w \in Workers : Undisturbed(w))'
  BY UndisturbedStep
<1>3. (\A w \in Workers : Undisturbed(w)) /\ [Next]_vars =>
        [\A w \in Workers : Update(w) /\ interference[w] = {} =>
             OnlineFeatures(w) = ReplayFeatures(cur[w])]_vars
  BY DEF Undisturbed, Update, OnlineFeatures, ReplayFeatures
<1> QED  BY <1>1, <1>2, <1>3, TypeCorrect, PTL DEF Spec, UnracedMatchesReplay

-----------------------------------------------------------------------------
(* The store implements the rolling history. *)

\* No history reversed is no history.
LEMMA ReverseEmpty == Reverse(<<>>) = <<>>
BY EmptyIsKept, ReverseProperties, EmptySeq

\* One pipeline is one row of the trainer's replay.
LEMMA UpdateIsReplay ==
    ASSUME TypeOK, NEW w \in Workers, Update(w)
    PROVE  Replay!Replay(cur[w])
<1> DEFINE t == cur[w]
           u == UserOf[t]
<1>1. t \in Tx /\ u \in Users /\ amounts[u] \in Seq(Tx)
  BY TxAssumption DEF TypeOK, Update
<1>2. /\ amounts' = [amounts EXCEPT ![u] = PushTrim(amounts[u], t)]
      /\ devices' = [devices EXCEPT ![u] = devices[u] \union {DeviceOf[t]}]
  BY DEF Update
<1>3. Reverse(PushTrim(amounts[u], t)) = LastN(Append(Reverse(amounts[u]), t), HistoryLen)
  BY <1>1, PushTrimIsReplay
<1> HIDE DEF t, u
<1>4. [x \in Users |-> Reverse(amounts'[x])] =
        [[x \in Users |-> Reverse(amounts[x])] EXCEPT ![u] =
            LastN(Append(Reverse(amounts[u]), t), HistoryLen)]
  BY <1>1, <1>2, <1>3 DEF TypeOK
<1> QED  BY <1>1, <1>2, <1>4 DEF Replay!Replay, Replay!LastN, LastN, t, u

\* Dropping keys is forgetting.
LEMMA DropIsForget ==
    ASSUME NEW A, NEW D,
           amounts' = [u \in Users |-> IF u \in A THEN <<>> ELSE amounts[u]],
           devices' = [u \in Users |-> IF u \in D THEN {} ELSE devices[u]]
    PROVE  Replay!Forget(A, D)
BY ReverseEmpty DEF Replay!Forget

\* Every behaviour of the store, with its races, expiries and evictions, is a
\* sequential replay of one transaction after the other.
THEOREM StoreImplementsReplay == Spec => ImplementsReplay
<1>1. Init => Replay!Init
  BY ReverseEmpty DEF Init, Replay!Init
<1>2. TypeOK /\ [Next]_vars => [Replay!Next]_Replay!rhVars
  <2> SUFFICES ASSUME TypeOK, [Next]_vars
               PROVE  Replay!Next \/ UNCHANGED <<amounts, devices>>
    BY DEF Replay!rhVars
  <2>1. ASSUME NEW w \in Workers, Update(w)
        PROVE  Replay!Next
    <3>1. cur[w] \in Tx
      BY <2>1 DEF TypeOK, Update
    <3> QED  BY <2>1, <3>1, UpdateIsReplay DEF Replay!Next
  <2>2. ASSUME Tick
        PROVE  Replay!Next
    <3> DEFINE A == {u \in Users : amountsTtl[u] = 1}
               D == {u \in Users : devicesTtl[u] = 1}
    <3>1. Replay!Forget(A, D)
      BY <2>2, DropIsForget DEF Tick
    <3> QED  BY <3>1 DEF Replay!Next
  <2>3. ASSUME NEW u \in Users, EvictAmounts(u)
        PROVE  Replay!Next
    <3>1. /\ amounts' = [x \in Users |-> IF x \in {u} THEN <<>> ELSE amounts[x]]
          /\ devices' = [x \in Users |-> IF x \in {} THEN {} ELSE devices[x]]
      BY <2>3 DEF TypeOK, EvictAmounts
    <3>2. Replay!Forget({u}, {})
      BY <3>1, DropIsForget
    <3> QED  BY <3>2 DEF Replay!Next
  <2>4. ASSUME NEW u \in Users, EvictDevices(u)
        PROVE  Replay!Next
    <3>1. /\ amounts' = [x \in Users |-> IF x \in {} THEN <<>> ELSE amounts[x]]
          /\ devices' = [x \in Users |-> IF x \in {u} THEN {} ELSE devices[x]]
      BY <2>4 DEF TypeOK, EvictDevices
    <3>2. Replay!Forget({}, {u})
      BY <3>1, DropIsForget
    <3> QED  BY <3>2 DEF Replay!Next
  <2>5. ASSUME NEW w \in Workers,
               (\E t \in Tx : ReadAmounts(w, t)) \/ ReadDevices(w) \/ ScoreRaises(w)
        PROVE  UNCHANGED <<amounts, devices>>
    BY <2>5 DEF ReadAmounts, ReadDevices, ScoreRaises, store
  <2>6. CASE UNCHANGED vars
    BY <2>6 DEF vars, store
  <2> QED  BY <2>1, <2>2, <2>3, <2>4, <2>5, <2>6 DEF Next, Score
<1> QED  BY <1>1, <1>2, TypeCorrect, PTL DEF Spec, ImplementsReplay, Replay!Spec
=============================================================================
