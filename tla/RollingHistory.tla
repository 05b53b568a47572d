--------------------------- MODULE RollingHistory ---------------------------
(***************************************************************************)
(* What the per-user rolling history promises: the in-memory replay of the *)
(* offline trainer (training/train.py, build_feature_matrix), one          *)
(* transaction at a time, in order.  A cache may forget keys as well; the  *)
(* trainer never does.                                                     *)
(***************************************************************************)
EXTENDS Features

VARIABLES
    history_amounts,  \* per user, oldest first
    history_devices   \* per user

rhVars == <<history_amounts, history_devices>>

Init ==
    /\ history_amounts = [u \in Users |-> <<>>]
    /\ history_devices = [u \in Users |-> {}]

\* One row of the replay.
Replay(t) ==
    LET u == UserOf[t] IN
    /\ history_amounts' =
         [history_amounts EXCEPT ![u] = LastN(Append(@, t), HistoryLen)]
    /\ history_devices' = [history_devices EXCEPT ![u] = @ \union {DeviceOf[t]}]

\* Keys expire or are evicted: amounts of the users in A, devices of those in D.
Forget(A, D) ==
    /\ history_amounts' =
         [u \in Users |-> IF u \in A THEN <<>> ELSE history_amounts[u]]
    /\ history_devices' =
         [u \in Users |-> IF u \in D THEN {} ELSE history_devices[u]]

Next ==
    \/ \E t \in Tx : Replay(t)
    \/ \E A, D \in SUBSET Users : Forget(A, D)

Spec == Init /\ [][Next]_rhVars
=============================================================================
