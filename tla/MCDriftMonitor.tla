--------------------------- MODULE MCDriftMonitor ---------------------------
(***************************************************************************)
(* Two required windows, a count of at most four, and a metric whose       *)
(* drift_share may say anything: below, at and above the threshold, or     *)
(* nothing.  EvidentlyReports is what the metric of Evidently 0.4 says of  *)
(* three columns: drift_share is its own threshold, 0.5.                   *)
(***************************************************************************)
EXTENDS DriftMonitor

AnyReports ==
    {[drift_share |-> s, drifted_columns |-> 0] : s \in {NoShare, 33, 50, 67}}

EvidentlyReports ==
    {[drift_share |-> 50, drifted_columns |-> c] : c \in {0, 33, 67, 100}}
=============================================================================
