--------------------------- MODULE MCRateLimiter ---------------------------
(***************************************************************************)
(* Two threads, two keys and three requests, a limit of one.  A minute has *)
(* two seconds of two ticks and a bucket lives for two minutes, so that a  *)
(* request can be counted half a second before a boundary, answered after  *)
(* it, or stall until its bucket has expired.                              *)
(***************************************************************************)
EXTENDS RateLimiter, TLC

Symmetry == Permutations(Threads) \union Permutations(Keys)
=============================================================================
