-------------------------- MODULE MCModelLifecycle -------------------------
(***************************************************************************)
(* Three trainings: a version to serve, one to replace it with and one to  *)
(* have on the side, every promotion of each to every stage, and services  *)
(* that start and stop at any time.                                        *)
(***************************************************************************)
EXTENDS ModelLifecycle
=============================================================================
