------------------------------ MODULE RowStore ------------------------------
(***************************************************************************)
(* What a caller of api/db.py may rely on, whatever becomes of pool,       *)
(* sessions and server: a call is asked once and answered once, an insert  *)
(* that returns has its row, a row appears only while an insert of it is   *)
(* under way, and none goes away.  A call that raises may have written its *)
(* row.  ScoringService takes insert_score for exactly this.               *)
(***************************************************************************)
CONSTANTS Threads, Tx, Read, Answers

VARIABLES
    rows,   \* the transactions in scored_transactions
    tx,     \* what each thread asked for: a transaction to insert, or Read
    answer  \* what its call came to; "none" while it is under way

vars == <<rows, tx, answer>>

Init ==
    /\ rows = {}
    /\ tx = [t \in Threads |-> Read]
    /\ answer = [t \in Threads |-> "ok"]

\* A call begins, or is refused at once.
Ask(t) ==
    /\ answer[t] # "none" /\ UNCHANGED rows
    /\ \E a \in Answers \union {"none"} : a # "ok" /\ answer' = [answer EXCEPT ![t] = a]
    /\ \E x \in Tx \union {Read} : tx' = [tx EXCEPT ![t] = x]

\* The row is in the table, for good.
Write(t) ==
    /\ answer[t] = "none" /\ tx[t] \in Tx
    /\ rows' = rows \union {tx[t]}
    /\ UNCHANGED <<tx, answer>>

Answer(t) ==
    /\ answer[t] = "none" /\ UNCHANGED <<rows, tx>>
    /\ \E a \in Answers :
          /\ a = "ok" => tx[t] \in rows \union {Read}
          /\ answer' = [answer EXCEPT ![t] = a]

Next == \E t \in Threads : Ask(t) \/ Write(t) \/ Answer(t)

Spec == Init /\ [][Next]_vars
=============================================================================
