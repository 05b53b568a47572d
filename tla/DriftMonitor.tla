---------------------------- MODULE DriftMonitor ----------------------------
(***************************************************************************)
(* The monitor container: run_once (monitor/main.py), once per interval,   *)
(* and the retrain trigger it drives (monitor/alerting.py, DriftTrigger).  *)
(*                                                                         *)
(* The trigger's count and flag live in memory and in drift_state.json,    *)
(* replaced atomically.  The process may die between any two steps, every  *)
(* write may fail, and Slack may not be reached.                           *)
(***************************************************************************)
EXTENDS Naturals

CONSTANTS
    RequiredWindows,  \* DRIFT_CONSECUTIVE_WINDOWS
    Threshold,        \* DRIFT_SHARE_THRESHOLD, in percent
    Reports,          \* what Evidently's dataset drift metric may say of a window
    NoShare,          \* a drift_share of None
    MaxConsecutive    \* bound: the count stays there, beyond what any decision tells apart

ASSUME MonitorAssumption ==
    /\ RequiredWindows \in Nat \ {0}
    /\ MaxConsecutive \in Nat /\ RequiredWindows <= MaxConsecutive
    /\ Threshold \in Nat /\ NoShare \notin Nat
    /\ Reports \subseteq [drift_share : Nat \union {NoShare}, drifted_columns : Nat]

VARIABLES
    up,           \* the process runs
    pc,           \* how far it is into run_once
    window,       \* the report of the window being handled
    consecutive,  \* DriftTrigger, in memory
    alerted,
    disk,         \* drift_state.json; its default when there is no file
    recommended,  \* latest.json's retrain_recommended
    html,         \* latest.html: the last report made
    changed,      \* rows have been scored since, or the reference loaded again
    \* History variables:
    streak,       \* drifted windows observed since the last clear one, capped
    samples,      \* the same, of windows that had changed before they were compared
    columnStreak, \* the same, by the share of columns that drifted
    episode,      \* between the decision to alert and the next clear window
    paged,        \* a page was delivered in the episode
    stateLost,    \* since the last clear window, the process died with a state it had
                  \* failed to save
    brokenOff     \* the last window observed was not reported to latest.json

trigger == <<consecutive, alerted, disk>>
compared == <<html, changed>>
ghosts == <<streak, samples, columnStreak, episode, paged, stateLost, brokenOff>>
vars == <<up, pc, window, trigger, recommended, compared, ghosts>>

CleanState == [consecutive |-> 0, alerted |-> FALSE]
Memory == [consecutive |-> consecutive, alerted |-> alerted]

NoReport == [drift_share |-> NoShare, drifted_columns |-> 0]

Drifted(r) == r.drift_share # NoShare /\ r.drift_share >= Threshold

\* Mutant of Count: one less instead of none.
CountDown(n, holds, cap) ==
    IF ~holds THEN n - 1 ELSE IF n < cap THEN n + 1 ELSE cap

\* One more if the condition holds, counted no further than cap; else none.
Count(n, holds, cap) ==
    IF ~holds THEN 0 ELSE IF n < cap THEN n + 1 ELSE cap

-----------------------------------------------------------------------------
Init ==
    /\ up = FALSE /\ pc = "idle" /\ window = NoReport
    /\ consecutive = 0 /\ alerted = FALSE /\ disk = CleanState
    /\ recommended = FALSE /\ html = NoReport /\ changed = TRUE
    /\ streak = 0 /\ samples = 0 /\ columnStreak = 0 /\ episode = FALSE /\ paged = FALSE
    /\ stateLost = FALSE /\ brokenOff = FALSE

\* Mutants of Start: the flag is not loaded; nothing is.
StartUnarmed ==
    /\ ~up
    /\ up' = TRUE /\ changed' = TRUE
    /\ consecutive' = disk.consecutive /\ alerted' = FALSE
    /\ UNCHANGED <<pc, window, disk, recommended, html, ghosts>>

StartClean ==
    /\ ~up
    /\ up' = TRUE /\ changed' = TRUE
    /\ consecutive' = 0 /\ alerted' = FALSE
    /\ UNCHANGED <<pc, window, disk, recommended, html, ghosts>>

\* main() up to its loop: the reference is read, and DriftTrigger.__init__ loads
\* the file.
Start ==
    /\ ~up
    /\ up' = TRUE /\ changed' = TRUE
    /\ consecutive' = disk.consecutive /\ alerted' = disk.alerted
    /\ UNCHANGED <<pc, window, disk, recommended, html, ghosts>>

\* The process dies, in the middle of anything, or leaves its loop.
Stop ==
    /\ up
    /\ up' = FALSE /\ pc' = "idle" /\ window' = NoReport
    /\ consecutive' = 0 /\ alerted' = FALSE
    /\ stateLost' = (stateLost \/ disk # Memory)
    /\ brokenOff' = (brokenOff \/ pc \in {"alerting", "clearing", "writing"})
    /\ UNCHANGED <<disk, recommended, compared, streak, samples, columnStreak, episode, paged>>

\* Transactions are scored: fetch_recent's latest rows are others.
RowsArrive ==
    /\ ~changed
    /\ changed' = TRUE
    /\ UNCHANGED <<up, pc, window, trigger, recommended, html, ghosts>>

\* At least MIN_ROWS rows were fetched, and latest.html is written.  Too few
\* rows, or anything that raises so far, leaves all as it was.  The same rows
\* and reference give the same report.
Report(r) ==
    /\ up /\ pc = "idle"
    /\ ~changed => r = html
    /\ pc' = "reported" /\ window' = r
    /\ html' = r /\ changed' = FALSE
    /\ samples' = IF changed \/ ~Drifted(r)
                  THEN Count(samples, Drifted(r), RequiredWindows) ELSE samples
    /\ UNCHANGED <<up, trigger, recommended, streak, columnStreak, episode, paged, stateLost,
                   brokenOff>>

\* Mutant of NextCount: a clear window does not reset the streak.
NextCountKept(r) ==
    IF Drifted(r) THEN Count(consecutive, TRUE, MaxConsecutive) ELSE consecutive

\* DriftTrigger.observe: the count a window leads to, and what it decides.
NextCount(r) == Count(consecutive, Drifted(r), MaxConsecutive)

\* Mutant of Decision: one window more than required.
DecisionLate(r) ==
    IF NextCount(r) > RequiredWindows /\ ~alerted THEN "alerting"
    ELSE IF ~Drifted(r) /\ alerted THEN "clearing"
    ELSE "writing"

Decision(r) ==
    IF NextCount(r) >= RequiredWindows /\ ~alerted THEN "alerting"
    ELSE IF ~Drifted(r) /\ alerted THEN "clearing"
    ELSE "writing"

\* observe() up to _save: the trigger has changed in memory.
Decide ==
    LET decision == Decision(window) IN
    /\ up /\ pc = "reported"
    /\ consecutive' = NextCount(window)
    /\ alerted' = (decision = "alerting" \/ (alerted /\ decision # "clearing"))
    /\ streak' = Count(streak, Drifted(window), RequiredWindows)
    /\ columnStreak' =
         Count(columnStreak, window.drifted_columns >= Threshold, RequiredWindows)
    /\ episode' = (decision = "alerting" \/ (episode /\ Drifted(window)))
    /\ paged' = (paged /\ decision # "alerting")
    /\ stateLost' = (stateLost /\ Drifted(window))
    /\ window' = NoReport
    /\ UNCHANGED <<up, recommended, compared, samples>>

\* Mutant of Observe: the state is not saved.
ObserveInMemory ==
    /\ Decide
    /\ pc' = Decision(window)
    /\ UNCHANGED <<disk, brokenOff>>

\* _save replaces the file; run_once goes on with the decision.
Observe ==
    /\ Decide
    /\ disk' = Memory'
    /\ pc' = Decision(window)
    /\ UNCHANGED brokenOff

\* _save raises before it has replaced the file, and run_once with it: memory
\* has moved on, and nobody is told.
ObserveRaises ==
    /\ Decide
    /\ pc' = "idle" /\ brokenOff' = TRUE
    /\ UNCHANGED disk

\* send_slack returns, whatever became of the message.
Tell(delivered) ==
    /\ up /\ pc \in {"alerting", "clearing"}
    /\ paged' = (paged \/ (delivered /\ pc = "alerting"))
    /\ pc' = "writing"
    /\ UNCHANGED <<up, window, trigger, recommended, compared, streak, samples, columnStreak,
                   episode, stateLost, brokenOff>>

\* latest.json is replaced, and run_once is done.
WriteReport ==
    /\ up /\ pc = "writing"
    /\ pc' = "idle"
    /\ recommended' = alerted
    /\ brokenOff' = FALSE
    /\ UNCHANGED <<up, window, trigger, compared, streak, samples, columnStreak, episode, paged,
                   stateLost>>

\* send_slack raises what it does not catch, or latest.json cannot be written:
\* main() logs it and waits for the next interval.
RunRaises ==
    /\ up /\ pc \in {"alerting", "clearing", "writing"}
    /\ pc' = "idle"
    /\ brokenOff' = TRUE
    /\ UNCHANGED <<up, window, trigger, recommended, compared, streak, samples, columnStreak,
                   episode, paged, stateLost>>

Next ==
    \/ Start \/ Stop \/ RowsArrive
    \/ \E r \in Reports : Report(r)
    \/ Observe \/ ObserveRaises
    \/ \E delivered \in BOOLEAN : Tell(delivered)
    \/ WriteReport \/ RunRaises

\* Compose restarts the monitor, and it does not die at the same line or fail
\* the same write for ever.
Fairness ==
    /\ WF_vars(Start)
    /\ SF_vars(\E r \in Reports : Report(r))
    /\ SF_vars(Observe)
    /\ SF_vars(WriteReport)
    /\ WF_vars(\E delivered \in BOOLEAN : Tell(delivered))

Spec == Init /\ [][Next]_vars /\ Fairness

-----------------------------------------------------------------------------
(* Properties *)

States == [consecutive : 0..MaxConsecutive, alerted : BOOLEAN]

TypeOK ==
    /\ up \in BOOLEAN
    /\ pc \in {"idle", "reported", "alerting", "clearing", "writing"}
    /\ window \in Reports \union {NoReport}
    /\ Memory \in States /\ disk \in States
    /\ recommended \in BOOLEAN
    /\ html \in Reports \union {NoReport} /\ changed \in BOOLEAN
    /\ samples \in 0..RequiredWindows
    /\ streak \in 0..RequiredWindows /\ columnStreak \in 0..RequiredWindows
    /\ episode \in BOOLEAN /\ paged \in BOOLEAN
    /\ stateLost \in BOOLEAN /\ brokenOff \in BOOLEAN

\* The count and the flag cannot disagree, in memory or on disk, whatever was
\* lost on the way: the trigger is alerted exactly when its count has reached
\* the required windows, so no restart leaves it armed under a full count
\* (a second page) or alerted under an empty one (a recovery never sent).
FlagFollowsCount ==
    /\ alerted <=> consecutive >= RequiredWindows
    /\ disk.alerted <=> disk.consecutive >= RequiredWindows

\* A page takes RequiredWindows consecutive drifted windows, counted across
\* crashes and restarts at any step, as long as no state of those windows was lost
\* unsaved (alerting.py:3-7 and 38-40).  A clear window sets everything right again.
AlertsNeedAStreak ==
    pc = "alerting" /\ ~stateLost => streak = RequiredWindows

\* And RequiredWindows of them never go without one, whatever restarts lie between
\* (alerting.py:38-40): once the streak is complete the trigger is alerted, or
\* will be when the next process has loaded it.
StreaksAreAlerted ==
    streak = RequiredWindows /\ ~stateLost => IF up THEN alerted ELSE disk.alerted

\* One page per episode, across restarts: alerts and recoveries alternate
\* (alerting.py:72-74), also in the episodes after one whose state was lost.
AlertsAlternate ==
    [][/\ pc' = "alerting" /\ pc # "alerting" /\ ~stateLost => ~episode
       /\ pc' = "clearing" /\ pc # "clearing" /\ ~stateLost => episode]_vars

\* latest.json and the trigger agree between two runs, across restarts, unless
\* the last run that observed a window did not get to write its summary.
ReportFollowsTrigger ==
    up /\ pc = "idle" /\ ~brokenOff => (recommended <=> alerted)

\* A crash-looping monitor still accumulates windows (alerting.py:38-40): if
\* from some time on every window has drifted, the alert is raised.
SustainedDriftAlerts ==
    <>[](pc = "reported" => Drifted(window)) => <>[]disk.alerted

\* README.md:307-308 says "The alert fires once on the transition and re-arms
\* on recovery, so a condition that persists for an hour pages once".  Where every
\* step of the run succeeded, the alert saved before it is sent, a page that was
\* not delivered is never retried.
PagesOnce == up /\ pc = "idle" /\ ~brokenOff /\ alerted => paged

\* alerting.py:3-10 requires consecutive windows because a single one crosses the
\* threshold for boring reasons, and says that two of them mean sustained drift:
\* a page would then take RequiredWindows samples, each with rows the one before
\* did not have.  fetch_recent takes the latest 5000 rows, whatever their age.
PagesNeedSeveralSamples ==
    pc = "alerting" /\ ~stateLost => samples = RequiredWindows

\* RUNBOOK.md:109-110 says drift_share "is the fraction of monitored columns
\* [...] that Evidently flagged as drifted", and that the page means it stayed
\* above the threshold for the required windows.  The field of that name is
\* the metric's own threshold (README.md:223 shows it: 0.5 of three columns,
\* with dataset_drift false).
AlertsMeanDriftedColumns ==
    pc = "alerting" /\ ~stateLost => columnStreak = RequiredWindows
=============================================================================
