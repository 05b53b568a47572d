-------------------------- MODULE MCScoringService --------------------------
(***************************************************************************)
(* One request thread posting one transaction, any number of times, beside *)
(* a consumer that sees two records in batches of at most two: batches     *)
(* are cut short, end inside the topic, and are redelivered in full or in  *)
(* part.                                                                   *)
(***************************************************************************)
EXTENDS ScoringService
=============================================================================
