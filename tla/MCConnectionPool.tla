-------------------------- MODULE MCConnectionPool --------------------------
(***************************************************************************)
(* Three threads, one that reads and two that insert, over a pool that     *)
(* keeps one connection idle and opens at most two: the third caller finds *)
(* it exhausted, and the second connection is one too many to keep.  Three *)
(* connection objects, as a lost slot keeps its own.                       *)
(***************************************************************************)
EXTENDS ConnectionPool, TLC

CONSTANT t1

MCAsks == [t \in Threads |-> IF t = t1 THEN {Read} ELSE Tx]

Symmetry ==
    Permutations(Threads \ {t1}) \union Permutations(Tx) \union Permutations(Conns)
=============================================================================
