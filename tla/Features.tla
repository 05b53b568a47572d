------------------------------ MODULE Features ------------------------------
(***************************************************************************)
(* The feature vector of one transaction, common/features.py.  The online  *)
(* scorer and the offline trainer both compute it from the same two        *)
(* inputs: the user's prior amounts, oldest first, and known devices.      *)
(*                                                                         *)
(* An amount is represented by the transaction that carries it, and a mean *)
(* or a deviation by the window it is computed over: two vectors are equal *)
(* here when every statistic of them is taken over the same amounts.       *)
(***************************************************************************)
EXTENDS Naturals, Sequences

CONSTANTS
    Tx,          \* transactions, as POST /score or the topic carries them
    Users,       \* user_id
    DeviceIds,   \* device_id
    UserOf,      \* [Tx -> Users]
    DeviceOf,    \* [Tx -> DeviceIds]
    HistoryLen,  \* HISTORY_LEN
    Windows      \* the lengths of the rolling windows: avg5, avg10, avg30

ASSUME TxAssumption ==
    /\ UserOf \in [Tx -> Users]
    /\ DeviceOf \in [Tx -> DeviceIds]

ASSUME LengthAssumption ==
    /\ HistoryLen \in Nat \ {0}
    /\ Windows \in [{"short", "mid", "long"} -> Nat \ {0}]
    /\ \A i \in {"short", "mid", "long"} : Windows[i] <= HistoryLen

\* amounts[-n:]
LastN(s, n) == SubSeq(s, IF n < Len(s) THEN Len(s) - n + 1 ELSE 1, Len(s))

\* The amounts each statistic of the vector ranges over, the count feature
\* and the new-device flag.
ComputeFeatures(t, prior, known) ==
    [tx            |-> t,
     short         |-> LastN(prior, Windows["short"]),
     mid           |-> LastN(prior, Windows["mid"]),
     long          |-> LastN(prior, Windows["long"]),
     tx_count_seen |-> IF Len(prior) < Windows["long"]
                       THEN Len(prior) ELSE Windows["long"],
     is_new_device |-> DeviceOf[t] \notin known]
=============================================================================
