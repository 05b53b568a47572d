------------------------- MODULE DriftMonitorProofs -------------------------
(***************************************************************************)
(* Proofs about DriftMonitor, for any threshold, any number of required    *)
(* windows and whatever Evidently reports.                                 *)
(***************************************************************************)
EXTENDS DriftMonitor, TLAPS

\* A capped count stays below its cap.
LEMMA CountType ==
    ASSUME NEW cap \in Nat, NEW n \in 0..cap, NEW holds
    PROVE  Count(n, holds, cap) \in 0..cap
BY DEF Count

\* The fields of a saved state, and the states that have such fields.
LEMMA StatesHave ==
    /\ \A c \in 0..MaxConsecutive, a \in BOOLEAN :
         [consecutive |-> c, alerted |-> a] \in States
    /\ \A s \in States : s.consecutive \in 0..MaxConsecutive /\ s.alerted \in BOOLEAN
BY DEF States

\* The default of a missing drift_state.json is a state of the trigger.
LEMMA CleanIsAState == CleanState \in States
<1>1. 0 \in 0..MaxConsecutive
  BY MonitorAssumption
<1> QED  BY <1>1, StatesHave DEF CleanState

\* A window leads the trigger to a count of its range.
LEMMA NextCountType ==
    ASSUME TypeOK, NEW r
    PROVE  NextCount(r) \in 0..MaxConsecutive
BY CountType, MonitorAssumption DEF TypeOK, States, Memory, NextCount

\* What observe() does to the trigger in memory keeps its type.
LEMMA DecideTypes ==
    ASSUME TypeOK, Decide
    PROVE  /\ Memory' \in States /\ up' \in BOOLEAN /\ recommended' \in BOOLEAN
           /\ Decision(window) \in {"alerting", "clearing", "writing"}
           /\ window' \in Reports \union {NoReport}
           /\ streak' \in 0..RequiredWindows /\ columnStreak' \in 0..RequiredWindows
           /\ episode' \in BOOLEAN /\ paged' \in BOOLEAN /\ stateLost' \in BOOLEAN
           /\ UNCHANGED <<html, changed, samples>>
<1>1. RequiredWindows \in Nat
  BY MonitorAssumption
<1>2. Memory' \in States
  BY NextCountType DEF TypeOK, Decide, Memory, States
<1>3. streak' \in 0..RequiredWindows
  BY <1>1, CountType DEF TypeOK, Decide
<1>4. columnStreak' \in 0..RequiredWindows
  BY <1>1, CountType DEF TypeOK, Decide
<1>5. Decision(window) \in {"alerting", "clearing", "writing"}
  BY DEF Decision
<1> QED  BY <1>2, <1>3, <1>4, <1>5 DEF TypeOK, Decide, compared

\* The monitor's state keeps its type through every failure and restart.
THEOREM TypeCorrect == Spec => []TypeOK
<1> USE MonitorAssumption
<1>1. Init => TypeOK
  <2>1. 0 \in 0..RequiredWindows
    OBVIOUS
  <2>2. CleanState \in States
    BY CleanIsAState
  <2>3. Init => Memory = CleanState
    BY DEF Init, Memory, CleanState
  <2> QED  BY <2>1, <2>2, <2>3 DEF Init, TypeOK
<1>2. TypeOK /\ [Next]_vars => TypeOK'
  <2> SUFFICES ASSUME TypeOK, [Next]_vars
               PROVE  TypeOK'
    OBVIOUS
  <2>1. CASE Start
    <3>1. Memory' \in States
      BY <2>1, StatesHave DEF Start, TypeOK, Memory
    <3> QED  BY <2>1, <3>1 DEF Start, TypeOK, ghosts
  <2>2. CASE Stop
    <3>1. Memory' \in States
      BY <2>2, CleanIsAState DEF Stop, Memory, CleanState
    <3>2. stateLost' \in BOOLEAN /\ brokenOff' \in BOOLEAN
      BY <2>2 DEF Stop
    <3>3. window' \in Reports \union {NoReport} /\ pc' = "idle" /\ up' = FALSE
      BY <2>2 DEF Stop
    <3>4. UNCHANGED <<disk, recommended, compared, samples, streak, columnStreak, episode, paged>>
      BY <2>2 DEF Stop
    <3> QED  BY <3>1, <3>2, <3>3, <3>4 DEF TypeOK, compared
  <2>3. CASE \E r \in Reports : Report(r)
    <3>1. PICK r \in Reports : Report(r)
      BY <2>3
    <3>2. samples' \in 0..RequiredWindows
      BY <3>1, CountType DEF Report, TypeOK
    <3>3. /\ pc' = "reported" /\ window' = r /\ html' = r /\ changed' = FALSE
          /\ UNCHANGED <<up, consecutive, alerted, disk, recommended, streak, columnStreak,
                         episode, paged, stateLost, brokenOff>>
      BY <3>1 DEF Report, trigger
    <3> QED  BY <3>2, <3>3 DEF TypeOK, Memory
  <2>10. CASE RowsArrive
    BY <2>10 DEF RowsArrive, TypeOK, Memory, States, trigger, ghosts
  <2>4. CASE Observe
    BY <2>4, DecideTypes DEF Observe, TypeOK
  <2>5. CASE ObserveRaises
    BY <2>5, DecideTypes DEF ObserveRaises, TypeOK
  <2>6. CASE \E delivered \in BOOLEAN : Tell(delivered)
    BY <2>6 DEF Tell, TypeOK, Memory, States, trigger, compared
  <2>7. CASE WriteReport
    BY <2>7 DEF WriteReport, TypeOK, Memory, States, trigger, compared
  <2>8. CASE RunRaises
    BY <2>8 DEF RunRaises, TypeOK, Memory, States, trigger, compared
  <2>9. CASE UNCHANGED vars
    BY <2>9 DEF vars, trigger, compared, ghosts, TypeOK, Memory, States
  <2> QED  BY <2>1, <2>2, <2>3, <2>4, <2>5, <2>6, <2>7, <2>8, <2>9, <2>10 DEF Next
<1> QED  BY <1>1, <1>2, PTL DEF Spec

-----------------------------------------------------------------------------
(* The trigger's pair of count and flag. *)

Agrees(s) == s.alerted <=> s.consecutive >= RequiredWindows

\* observe() leaves flag and count in agreement.
LEMMA DecideAgrees ==
    ASSUME TypeOK, Agrees(Memory), Decide
    PROVE  Agrees(Memory')
<1> USE MonitorAssumption
<1>1. /\ consecutive \in Nat /\ alerted \in BOOLEAN
      /\ alerted <=> consecutive >= RequiredWindows
  BY DEF TypeOK, Memory, States, Agrees
<1>2. CASE Drifted(window)
  <2>1. NextCount(window) = IF consecutive < MaxConsecutive
                            THEN consecutive + 1 ELSE MaxConsecutive
    BY <1>2 DEF NextCount, Count
  <2>2. consecutive' = NextCount(window) /\ NextCount(window) \in Nat
    BY <1>1, <2>1 DEF Decide
  <2>3. Decision(window) = IF NextCount(window) >= RequiredWindows /\ ~alerted
                           THEN "alerting" ELSE "writing"
    BY <1>2 DEF Decision
  <2>4. alerted' = (NextCount(window) >= RequiredWindows \/ alerted)
    BY <1>1, <2>3 DEF Decide
  <2>5. alerted => NextCount(window) >= RequiredWindows
    BY <1>1, <2>1
  <2> QED  BY <2>2, <2>4, <2>5 DEF Agrees, Memory
<1>3. CASE ~Drifted(window)
  <2>1. NextCount(window) = 0
    BY <1>3 DEF NextCount, Count
  <2>2. consecutive' = 0
    BY <2>1 DEF Decide
  <2>3. Decision(window) = IF alerted THEN "clearing" ELSE "writing"
    BY <1>3, <2>1 DEF Decision
  <2>4. alerted' = FALSE
    BY <1>1, <2>3 DEF Decide
  <2> QED  BY <2>2, <2>4 DEF Agrees, Memory
<1> QED  BY <1>2, <1>3

\* However the monitor dies and whichever writes fail, the trigger is alerted
\* exactly when its count has reached the required windows.
THEOREM FlagIsTheCount == Spec => []FlagFollowsCount
<1> USE MonitorAssumption
<1> DEFINE IInv == Agrees(Memory) /\ Agrees(disk)
<1>1. Init => IInv
  BY DEF Init, Agrees, Memory, CleanState
<1>2. TypeOK /\ IInv /\ [Next]_vars => IInv'
  <2> SUFFICES ASSUME TypeOK, IInv, [Next]_vars
               PROVE  IInv'
    OBVIOUS
  <2>1. CASE Start
    BY <2>1 DEF Start, TypeOK, States, Agrees, Memory
  <2>2. CASE Stop
    BY <2>2 DEF Stop, Agrees, Memory
  <2>3. CASE Observe
    BY <2>3, DecideAgrees DEF Observe
  <2>4. CASE ObserveRaises
    BY <2>4, DecideAgrees DEF ObserveRaises
  <2>5. CASE UNCHANGED trigger
    BY <2>5 DEF trigger, Agrees, Memory
  <2> QED  BY <2>1, <2>2, <2>3, <2>4, <2>5
           DEF Next, RowsArrive, Report, Tell, WriteReport, RunRaises, vars
<1>3. IInv => FlagFollowsCount
  BY DEF Agrees, Memory, FlagFollowsCount
<1> QED  BY <1>1, <1>2, <1>3, TypeCorrect, PTL DEF Spec

-----------------------------------------------------------------------------
(* Pages and recoveries across restarts. *)

Capped(n) == IF n < RequiredWindows THEN n ELSE RequiredWindows

\* The state s of the trigger tells the truth about the windows observed.
Truthful(s) == streak = Capped(s.consecutive) /\ (episode <=> s.alerted)

\* The strengthening of AlertsNeedAStreak and AlertsAlternate: unless a state was
\* lost since the last clear window, the trigger is truthful, in memory or, while
\* the process is down, on disk; and a page being sent is one the count calls for.
PageInv ==
    /\ pc # "idle" => up
    /\ ~stateLost => Truthful(IF up THEN Memory ELSE disk)
    /\ pc = "alerting" => consecutive >= RequiredWindows

\* observe() counts as the history variables do, and decides to page or to
\* recover only at an edge; after a clear window both are at zero, whatever was lost.
LEMMA DecideTruthful ==
    ASSUME TypeOK, ~stateLost => Truthful(Memory), Decide
    PROVE  /\ ~stateLost' => Truthful(Memory)'
           /\ Decision(window) = "alerting" /\ ~stateLost => ~episode
           /\ Decision(window) = "clearing" /\ ~stateLost => episode
<1> USE MonitorAssumption
<1>1. /\ consecutive \in 0..MaxConsecutive /\ streak \in 0..RequiredWindows
      /\ alerted \in BOOLEAN /\ episode \in BOOLEAN
      /\ ~stateLost => streak = Capped(consecutive) /\ (episode <=> alerted)
  BY StatesHave DEF TypeOK, Memory, Truthful
<1>2. /\ consecutive' = Count(consecutive, Drifted(window), MaxConsecutive)
      /\ streak' = Count(streak, Drifted(window), RequiredWindows)
      /\ stateLost' = (stateLost /\ Drifted(window))
  BY DEF Decide, NextCount
<1>3. ~stateLost' => streak' = Capped(consecutive')
  <2> SUFFICES ASSUME ~stateLost'
               PROVE  streak' = Capped(consecutive')
    OBVIOUS
  <2>1. CASE Drifted(window)
    <3>1. streak = Capped(consecutive)
      BY <1>1, <1>2, <2>1
    <3> QED  BY <1>1, <1>2, <2>1, <3>1 DEF Count, Capped
  <2>2. CASE ~Drifted(window)
    BY <1>1, <1>2, <2>2 DEF Count, Capped
  <2> QED  BY <2>1, <2>2
<1>4. ~stateLost' => (episode' <=> alerted')
  <2>1. CASE Drifted(window)
    <3>1. Decision(window) # "clearing"
      BY <2>1 DEF Decision
    <3> QED  BY <1>1, <1>2, <2>1, <3>1 DEF Decide
  <2>2. CASE ~Drifted(window)
    <3>1. NextCount(window) = 0
      BY <2>2 DEF NextCount, Count
    <3>2. Decision(window) = IF alerted THEN "clearing" ELSE "writing"
      BY <2>2, <3>1 DEF Decision
    <3> QED  BY <1>1, <2>2, <3>2 DEF Decide
  <2> QED  BY <2>1, <2>2
<1>5. /\ Decision(window) = "alerting" => ~alerted
      /\ Decision(window) = "clearing" => alerted
  BY DEF Decision
<1> QED  BY <1>1, <1>3, <1>4, <1>5 DEF Truthful, Memory

\* Every step of the monitor keeps the trigger truthful, or loses a state, or sets
\* right what an earlier loss left.
LEMMA PageInvStep ==
    ASSUME TypeOK, PageInv, [Next]_vars
    PROVE  PageInv'
<1>1. CASE Start
  <2>1. Memory' = disk /\ up' /\ ~up
    <3>1. disk = [consecutive |-> disk.consecutive, alerted |-> disk.alerted]
      BY DEF TypeOK, States
    <3> QED  BY <1>1, <3>1 DEF Start, Memory
  <2>2. UNCHANGED <<pc, stateLost, streak, episode>>
    BY <1>1 DEF Start, ghosts
  <2> QED  BY <2>1, <2>2 DEF PageInv, Truthful
<1>2. CASE Stop
  <2>1. /\ up /\ ~up' /\ pc' = "idle" /\ UNCHANGED <<disk, streak, episode>>
        /\ ~stateLost' => ~stateLost /\ disk = Memory
    BY <1>2 DEF Stop
  <2> QED  BY <2>1 DEF PageInv, Truthful
<1>3. ASSUME Decide, pc' = Decision(window) \/ pc' = "idle"
      PROVE  PageInv'
  <2>1. up /\ up'
    BY <1>3 DEF Decide
  <2>2. ~stateLost' => Truthful(Memory)'
    BY <2>1, <1>3, DecideTruthful DEF PageInv
  <2>3. pc' = "alerting" => consecutive' >= RequiredWindows
    BY <1>3 DEF Decide, Decision
  <2> QED  BY <2>1, <2>2, <2>3 DEF PageInv, Truthful, Memory
<1>4. ASSUME UNCHANGED <<up, trigger, streak, episode, stateLost>>,
             pc' # "idle" => up, pc' = "alerting" => pc = "alerting"
      PROVE  PageInv'
  BY <1>4 DEF PageInv, Truthful, Memory, trigger
<1>5. CASE (\E r \in Reports : Report(r)) \/ (\E delivered \in BOOLEAN : Tell(delivered))
           \/ RowsArrive \/ WriteReport \/ RunRaises \/ UNCHANGED vars
  BY <1>4, <1>5 DEF PageInv, RowsArrive, Report, Tell, WriteReport, RunRaises, vars, ghosts
<1> QED  BY <1>1, <1>2, <1>3, <1>5 DEF Next, Observe, ObserveRaises

\* Unless a state was lost unsaved since the last clear window, the trigger tells
\* the truth about the windows it observed and the episode it is in, across every
\* death and restart.
THEOREM PageInvariant == Spec => []PageInv
<1>1. Init => PageInv
  BY MonitorAssumption DEF Init, PageInv, Truthful, Capped, CleanState
<1>2. TypeOK /\ PageInv /\ [Next]_vars => PageInv'
  BY PageInvStep
<1> QED  BY <1>1, <1>2, TypeCorrect, PTL DEF Spec

\* A page takes the required number of consecutive drifted windows, however
\* often the monitor was restarted between them.
THEOREM PagesNeedAStreak == Spec => []AlertsNeedAStreak
<1>1. TypeOK /\ PageInv => AlertsNeedAStreak
  BY MonitorAssumption
     DEF TypeOK, States, PageInv, Truthful, Capped, Memory, AlertsNeedAStreak
<1> QED  BY <1>1, TypeCorrect, PageInvariant, PTL

\* A completed streak never goes without its alert, however often the monitor was
\* restarted while it grew: what a restart loads tells the truth, and the flag
\* follows the count.
THEOREM CompletedStreaksAlert == Spec => []StreaksAreAlerted
<1>1. TypeOK /\ PageInv /\ FlagFollowsCount => StreaksAreAlerted
  <2> SUFFICES ASSUME TypeOK, PageInv, FlagFollowsCount, streak = RequiredWindows, ~stateLost
               PROVE  IF up THEN alerted ELSE disk.alerted
    BY DEF StreaksAreAlerted
  <2>1. /\ RequiredWindows \in Nat /\ Memory.consecutive = consecutive
        /\ Memory.consecutive \in Nat /\ disk.consecutive \in Nat
    BY MonitorAssumption, StatesHave DEF TypeOK, Memory
  <2>2. CASE up
    <3>1. streak = Capped(consecutive)
      BY <2>1, <2>2 DEF PageInv, Truthful
    <3> QED  BY <2>1, <2>2, <3>1 DEF Capped, FlagFollowsCount
  <2>3. CASE ~up
    <3>1. streak = Capped(disk.consecutive)
      BY <2>3 DEF PageInv, Truthful
    <3> QED  BY <2>1, <2>3, <3>1 DEF Capped, FlagFollowsCount
  <2> QED  BY <2>2, <2>3
<1> QED  BY <1>1, TypeCorrect, PageInvariant, FlagIsTheCount, PTL

\* The field that is read is the only fault in what a page says: were drift_share the
\* share of columns that drifted, a page would mean RequiredWindows windows with
\* as many drifted columns, which run wrong_field shows that it does not.
THEOREM RightFieldWouldDo ==
    ASSUME \A r \in Reports : r.drift_share = r.drifted_columns
    PROVE  Spec => []AlertsMeanDriftedColumns
<1> DEFINE SameStreak == columnStreak = streak
           WindowIsReported == pc = "reported" => window \in Reports
<1>1. Init => SameStreak /\ WindowIsReported
  BY DEF Init
<1>2. TypeOK /\ SameStreak /\ WindowIsReported /\ [Next]_vars => SameStreak'
  <2> SUFFICES ASSUME TypeOK, SameStreak, WindowIsReported, [Next]_vars
               PROVE  SameStreak'
    OBVIOUS
  <2>1. ASSUME Decide
        PROVE  SameStreak'
    <3>1. /\ window \in Reports
          /\ streak' = Count(streak, Drifted(window), RequiredWindows)
          /\ columnStreak' =
               Count(columnStreak, window.drifted_columns >= Threshold, RequiredWindows)
      BY <2>1 DEF Decide
    <3>2. window.drift_share = window.drifted_columns /\ window.drifted_columns \in Nat
      BY <3>1, MonitorAssumption
    <3>3. window.drift_share # NoShare
      BY <3>1, <3>2, MonitorAssumption
    <3> QED  BY <3>1, <3>2, <3>3 DEF Drifted
  <2>2. ASSUME ~Decide
        PROVE  UNCHANGED <<streak, columnStreak>>
    BY <2>2 DEF Next, Start, Stop, RowsArrive, Report, Observe, ObserveRaises, Tell, WriteReport,
                RunRaises, vars, ghosts
  <2> QED  BY <2>1, <2>2
<1>3. WindowIsReported /\ [Next]_vars => WindowIsReported'
  BY DEF Next, Start, Stop, RowsArrive, Report, Observe, ObserveRaises, Decide, Decision, Tell,
         WriteReport, RunRaises, vars
<1>4. SameStreak /\ AlertsNeedAStreak => AlertsMeanDriftedColumns
  BY DEF AlertsNeedAStreak, AlertsMeanDriftedColumns
<1> QED  BY <1>1, <1>2, <1>3, <1>4, TypeCorrect, PagesNeedAStreak, PTL DEF Spec

\* Pages and recoveries alternate, across restarts.
THEOREM PagesAlternate == Spec => AlertsAlternate
<1> DEFINE Alternates ==
      /\ pc' = "alerting" /\ pc # "alerting" /\ ~stateLost => ~episode
      /\ pc' = "clearing" /\ pc # "clearing" /\ ~stateLost => episode
<1>1. TypeOK /\ PageInv /\ [Next]_vars => [Alternates]_vars
  <2> SUFFICES ASSUME TypeOK, PageInv, [Next]_vars
               PROVE  Alternates
    OBVIOUS
  <2>1. ASSUME Observe, ~stateLost
        PROVE  /\ pc' = "alerting" => ~episode
               /\ pc' = "clearing" => episode
    <3>1. up /\ Decide
      BY <2>1 DEF Observe, Decide
    <3>2. Truthful(Memory)
      BY <2>1, <3>1 DEF PageInv
    <3> QED  BY <2>1, <3>1, <3>2, DecideTruthful DEF Observe
  <2>2. ASSUME ~Observe
        PROVE  pc' \notin {"alerting", "clearing"} \/ pc' = pc
    BY <2>2 DEF Next, Start, Stop, RowsArrive, Report, ObserveRaises, Tell, WriteReport, RunRaises, vars
  <2> QED  BY <2>1, <2>2
<1> QED  BY <1>1, TypeCorrect, PageInvariant, PTL DEF Spec, AlertsAlternate

-----------------------------------------------------------------------------
(* The report that /monitoring serves. *)

\* The strengthening of ReportFollowsTrigger: a run that saved its decision
\* has the file in step with memory until the next one.
ReportInv ==
    /\ ~up => pc = "idle"
    /\ pc \in {"alerting", "clearing", "writing"} => disk = Memory
    /\ ~brokenOff /\ up /\ pc \in {"idle", "reported"} =>
         (recommended <=> alerted) /\ disk = Memory
    /\ ~brokenOff /\ ~up => (recommended <=> disk.alerted)

\* latest.json recommends retraining exactly when the trigger is alerted,
\* unless the last run that observed a window broke off.
THEOREM ReportsAgree == Spec => []ReportFollowsTrigger
<1>1. Init => ReportInv
  BY DEF Init, ReportInv, CleanState
<1>2. TypeOK /\ ReportInv /\ [Next]_vars => ReportInv'
  <2> SUFFICES ASSUME TypeOK, ReportInv, [Next]_vars
               PROVE  ReportInv'
    OBVIOUS
  <2>1. CASE Start
    <3>1. disk = [consecutive |-> disk.consecutive, alerted |-> disk.alerted]
      BY DEF TypeOK, States
    <3> QED  BY <2>1, <3>1 DEF Start, ReportInv, Memory, ghosts
  <2>2. CASE Stop
    <3>1. Memory.alerted = alerted
      BY DEF Memory
    <3> QED  BY <2>2, <3>1 DEF Stop, ReportInv, TypeOK
  <2>3. CASE \E r \in Reports : Report(r)
    BY <2>3 DEF Report, ReportInv, Memory, trigger, ghosts
  <2>4. CASE Observe
    BY <2>4 DEF Observe, Decide, Decision, ReportInv
  <2>5. CASE ObserveRaises
    BY <2>5 DEF ObserveRaises, Decide, ReportInv
  <2>6. CASE \E delivered \in BOOLEAN : Tell(delivered)
    BY <2>6 DEF Tell, ReportInv, Memory, trigger
  <2>7. CASE WriteReport
    BY <2>7 DEF WriteReport, ReportInv, Memory, trigger
  <2>8. CASE RunRaises
    BY <2>8 DEF RunRaises, ReportInv, Memory, trigger
  <2>9. CASE UNCHANGED vars
    BY <2>9 DEF vars, trigger, ghosts, ReportInv, Memory
  <2>10. CASE RowsArrive
    BY <2>10 DEF RowsArrive, ReportInv, Memory, trigger, ghosts
  <2> QED  BY <2>1, <2>2, <2>3, <2>4, <2>5, <2>6, <2>7, <2>8, <2>9, <2>10 DEF Next
<1>3. ReportInv => ReportFollowsTrigger
  BY DEF ReportInv, ReportFollowsTrigger
<1> QED  BY <1>1, <1>2, <1>3, TypeCorrect, PTL DEF Spec
=============================================================================
