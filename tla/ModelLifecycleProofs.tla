------------------------ MODULE ModelLifecycleProofs -----------------------
(***************************************************************************)
(* Theorems about ModelLifecycle, for any number of trainings and so of    *)
(* registered versions.                                                    *)
(***************************************************************************)
EXTENDS ModelLifecycle, TLAPS, SequenceTheorems, WellFoundedInduction

\* A set of naturals with an element has a least one.
LEMMA Least ==
    ASSUME NEW S \in SUBSET Nat, S # {}
    PROVE  \E m \in S : \A n \in S : m <= n
<1> DEFINE R == {ss \in Nat \X Nat : ss[1] < ss[2]}
<1>1. IsWellFoundedOn(R, Nat)
  BY NatLessThanWellFounded, Zenon DEF OpToRel
<1> HIDE DEF R
<1>2. PICK m \in S : \A n \in S : <<n, m>> \notin R
  BY <1>1, WFMin, Zenon
<1>3. ASSUME NEW n \in S PROVE ~(n < m)
  <2>1. <<n, m>> \in Nat \X Nat /\ <<n, m>> \notin R
    BY <1>2
  <2> QED
    BY <2>1, Zenon DEF R
<1> QED
  BY <1>3, SMT

\* The stage of Production, when it is not empty, has a latest version.
LEMMA LatestIsThere ==
    ASSUME TypeOK, AtStage("Production") # {}
    PROVE  LatestVersion \in AtStage("Production")
<1> DEFINE A == AtStage("Production")
           S == {Len(registry) - v : v \in A}
<1>1. Len(registry) \in Nat /\ A \subseteq 1..Len(registry)
  BY LenProperties, Zenon DEF TypeOK, AtStage
<1> HIDE DEF A
<1>2. S \in SUBSET Nat /\ S # {}
  BY <1>1, SMT DEF A
<1>3. PICK m \in S : \A n \in S : m <= n
  BY <1>2, Least
<1>4. PICK v \in A : m = Len(registry) - v
  BY <1>3
<1>5. \A u \in A : u <= v
  <2> SUFFICES ASSUME NEW u \in A PROVE u <= v
    OBVIOUS
  <2>1. m <= Len(registry) - u
    BY <1>3
  <2> QED
    BY <1>1, <1>4, <2>1, SMT
<1> QED
  BY <1>5, Zenon DEF LatestVersion, A

\* A transition changes stages and nothing else.
LEMMA TransitionProperties ==
    ASSUME TypeOK, NEW v \in DOMAIN registry, NEW stage \in Stages, NEW keep \in BOOLEAN
    PROVE  LET r == Transition(v, stage, keep) IN
           /\ r \in Seq(Version) /\ DOMAIN r = DOMAIN registry
           /\ \A u \in DOMAIN registry :
                 /\ r[u].model = registry[u].model /\ r[u].passed = registry[u].passed
                 /\ r[u].stage = IF u = v THEN stage
                                 ELSE IF ~keep /\ registry[u].stage = stage THEN "Archived"
                                 ELSE registry[u].stage
<1> DEFINE r == Transition(v, stage, keep)
           st(u) == IF u = v THEN stage
                    ELSE IF ~keep /\ registry[u].stage = stage THEN "Archived"
                    ELSE registry[u].stage
<1>1. Len(registry) \in Nat /\ DOMAIN registry = 1..Len(registry)
  BY LenProperties DEF TypeOK
<1>2. \A u \in DOMAIN registry : registry[u] \in Version
  BY ElementOfSeq, <1>1 DEF TypeOK
<1>3. DOMAIN r = DOMAIN registry /\ \A u \in DOMAIN registry : r[u] = [registry[u] EXCEPT !.stage = st(u)]
  BY Zenon DEF Transition
<1>4. \A u \in DOMAIN registry :
        /\ r[u] \in Version /\ r[u].model = registry[u].model
        /\ r[u].passed = registry[u].passed /\ r[u].stage = st(u)
  <2> SUFFICES ASSUME NEW u \in DOMAIN registry
               PROVE  /\ r[u] \in Version /\ r[u].model = registry[u].model
                      /\ r[u].passed = registry[u].passed /\ r[u].stage = st(u)
    OBVIOUS
  <2>1. st(u) \in Stages \cup {"None"}
    BY <1>2, SMT DEF Version, Stages
  <2> HIDE DEF st, r
  <2> QED
    BY <1>2, <1>3, <2>1, SMT DEF Version
<1>5. r \in Seq(Version)
  <2>1. r \in [1..Len(registry) -> Version]
    BY <1>1, <1>3, <1>4, Zenon DEF Transition
  <2> HIDE DEF r
  <2> QED
    BY <1>1, <2>1, SeqDef, SMT
<1> QED
  BY <1>3, <1>4, <1>5, Zenon

\* The inductive form of the type invariant: a training at work has a number.
Typed == TypeOK /\ (trainer # "idle" => trained \in Models)

\* What a promotion does to the registry.
LEMMA PromoteProperties ==
    ASSUME Typed, NEW v \in DOMAIN registry, NEW stage \in Stages,
           NEW force \in BOOLEAN, NEW keep \in BOOLEAN, Promote(v, stage, force, keep)
    PROVE  /\ registry' \in Seq(Version) /\ DOMAIN registry' = DOMAIN registry
           /\ forced \subseteq forced'
           /\ \A u \in DOMAIN registry :
                 /\ registry'[u].model = registry[u].model
                 /\ registry'[u].passed = registry[u].passed
                 /\ registry'[u].stage =
                      IF u = v THEN stage
                      ELSE IF ~keep /\ registry[u].stage = stage THEN "Archived"
                      ELSE registry[u].stage
<1> DEFINE r == Transition(v, stage, keep)
<1>1. /\ r \in Seq(Version) /\ DOMAIN r = DOMAIN registry
      /\ \A u \in DOMAIN registry :
            /\ r[u].model = registry[u].model /\ r[u].passed = registry[u].passed
            /\ r[u].stage = IF u = v THEN stage
                            ELSE IF ~keep /\ registry[u].stage = stage THEN "Archived"
                            ELSE registry[u].stage
  BY TransitionProperties DEF Typed
<1>2. registry' = r /\ forced \subseteq forced'
  BY SMT DEF Promote
<1> HIDE DEF r
<1> QED
  BY <1>1, <1>2, SMT

\* A registered version comes last, without a stage, and leaves the others alone.
LEMMA RegisterProperties ==
    ASSUME Typed, NEW pass \in BOOLEAN, Register(pass)
    PROVE  /\ registry' \in Seq(Version)
           /\ DOMAIN registry \subseteq DOMAIN registry'
           /\ \A v \in DOMAIN registry : registry'[v] = registry[v]
           /\ \A v \in DOMAIN registry' \ DOMAIN registry : registry'[v].stage = "None"
<1>1. NewVersion(pass) \in Version /\ NewVersion(pass).stage = "None"
  BY Zenon DEF NewVersion, Typed, Register, Version
<1>2. /\ registry \in Seq(Version) /\ Len(registry) \in Nat /\ DOMAIN registry = 1..Len(registry)
      /\ registry' = Append(registry, NewVersion(pass))
  BY LenProperties, Zenon DEF Typed, TypeOK, Register
<1>3. /\ registry' \in Seq(Version) /\ Len(registry') = Len(registry) + 1
      /\ \A v \in 1..Len(registry) : registry'[v] = registry[v]
      /\ registry'[Len(registry) + 1] = NewVersion(pass)
  BY <1>1, <1>2, AppendProperties
<1>4. DOMAIN registry' = 1..(Len(registry) + 1)
  BY <1>3, LenProperties
<1>5. \A v \in DOMAIN registry' \ DOMAIN registry : v = Len(registry) + 1
  BY <1>2, <1>4, SMT
<1> QED
  BY <1>1, <1>2, <1>3, <1>4, <1>5, SMT

LEMMA TypedInit == Init => Typed
<1> SUFFICES ASSUME Init PROVE Typed
  OBVIOUS
<1>1. registry \in Seq(Version)
  BY EmptySeq, Zenon DEF Init
<1>2. trained \in 0..MaxTrainings
  BY TrainingAssumption, SMT DEF Init
<1>3. forced \subseteq DOMAIN registry /\ current \subseteq {"scorer", "monitor"}
  BY SMT DEF Init
<1> QED
  BY <1>1, <1>2, <1>3, Zenon DEF Init, Typed, TypeOK

\* The model a scorer that starts from the registry loads has been trained.
LEMMA WouldServeType ==
    ASSUME TypeOK PROVE WouldServe \in Models \cup {Absent}
<1>1. CASE AtStage("Production") = {}
  BY <1>1 DEF WouldServe
<1>2. CASE AtStage("Production") # {}
  <2>1. LatestVersion \in DOMAIN registry
    BY <1>2, LatestIsThere, Zenon DEF AtStage
  <2>2. registry[LatestVersion] \in Version
    <3>1. DOMAIN registry = 1..Len(registry)
      BY LenProperties DEF TypeOK
    <3> QED
      BY <2>1, <3>1, ElementOfSeq, Zenon DEF TypeOK
  <2> QED
    BY <1>2, <2>2, Zenon DEF WouldServe, Version
<1> QED
  BY <1>1, <1>2

LEMMA TypedStep == Typed /\ [Next]_vars => Typed'
<1> SUFFICES ASSUME Typed, [Next]_vars PROVE Typed'
  OBVIOUS
<1> USE DEF Typed, TypeOK
<1>1. CASE BeginBundle
  <2>1. trained' \in Models /\ trained' \in 0..MaxTrainings
    BY <1>1, TrainingAssumption, SMT DEF BeginBundle, Models
  <2> QED
    BY <1>1, <2>1, Zenon DEF BeginBundle, WriteBundle, services, operator
<1>2. CASE SaveBundle
  BY <1>2, Zenon DEF SaveBundle, WriteBundle, services, operator
<1>3. CASE BeginReference
  BY <1>3, Zenon DEF BeginReference, WriteReference, services, operator
<1>4. CASE SaveReference
  BY <1>4, Zenon DEF SaveReference, WriteReference, services, operator
<1>5. ASSUME NEW pass \in BOOLEAN, Register(pass) PROVE Typed'
  <2>1. registry' \in Seq(Version) /\ DOMAIN registry \subseteq DOMAIN registry'
    BY <1>5, RegisterProperties, Zenon
  <2> QED
    BY <1>5, <2>1, Zenon DEF Register, files, services, operator
<1>6. CASE FinishUnregistered
  BY <1>6, Zenon DEF FinishUnregistered, files, services, operator
<1>7. CASE TrainerDies
  BY <1>7, Zenon DEF TrainerDies, files, services, operator
<1>8. ASSUME NEW v \in DOMAIN registry, NEW stage \in Stages,
             NEW force \in BOOLEAN, NEW keep \in BOOLEAN, Promote(v, stage, force, keep)
      PROVE  Typed'
  <2>1. registry' \in Seq(Version) /\ DOMAIN registry' = DOMAIN registry
    BY <1>8, PromoteProperties, Zenon
  <2>2. forced' \subseteq DOMAIN registry
    BY <1>8, SMT DEF Promote
  <2>3. asked' \in {0} \cup DOMAIN registry
    BY <1>8, SMT DEF Promote
  <2>4. UNCHANGED <<trained, trainer, bundle, reference, served, source, compared, current, halved>>
    BY <1>8, Zenon DEF Promote, files, services
  <2> QED
    BY <2>1, <2>2, <2>3, <2>4, Zenon
<1>9. CASE StartsFromFile
  BY <1>9, Zenon DEF StartsFromFile, ReadableBundle, ScorerStarts, files, operator
<1>10. CASE StartsFromRegistry
  BY <1>10, WouldServeType, Zenon DEF StartsFromRegistry, ScorerStarts, files, operator
<1>11. CASE ScorerStops
  BY <1>11, Zenon DEF ScorerStops, files, operator
<1>12. CASE MonitorStarts
  BY <1>12, Zenon DEF MonitorStarts, files, operator
<1>13. CASE MonitorStops
  BY <1>13, Zenon DEF MonitorStops, files, operator
<1>14. CASE UNCHANGED vars
  BY <1>14, Zenon DEF vars, files, services, operator
<1> QED
  BY <1>1, <1>2, <1>3, <1>4, <1>5, <1>6, <1>7, <1>8, <1>9, <1>10, <1>11, <1>12, <1>13, <1>14
  DEF Next, Train

LEMMA TypedAlways == Spec => []Typed
<1> QED
  BY TypedInit, TypedStep, PTL DEF Spec

\* Files, services and versions keep their types; in particular no scorer
\* serves a bundle that was being written (train.py:129).
THEOREM TypeCorrect == Spec => []TypeOK
<1>1. Typed => TypeOK
  BY DEF Typed
<1> QED
  BY <1>1, TypedAlways, PTL

-----------------------------------------------------------------------------
(* Promotion *)

\* What a step does to the registry.
LEMMA RegistryStep ==
    ASSUME Typed, [Next]_vars
    PROVE  \/ registry' = registry /\ forced' = forced /\ asked' = asked
           \/ \E pass \in BOOLEAN : Register(pass)
           \/ \E v \in DOMAIN registry, stage \in Stages, force, keep \in BOOLEAN :
                 Promote(v, stage, force, keep)
<1>1. CASE Train
  BY <1>1, Zenon DEF Train, BeginBundle, SaveBundle, BeginReference, SaveReference,
                     FinishUnregistered, TrainerDies, operator
<1>2. CASE StartsFromFile \/ StartsFromRegistry \/ ScorerStops \/ MonitorStarts \/ MonitorStops
  BY <1>2, Zenon DEF StartsFromFile, StartsFromRegistry, ScorerStarts, ScorerStops,
                     MonitorStarts, MonitorStops, operator
<1>3. CASE UNCHANGED vars
  BY <1>3, Zenon DEF vars, operator
<1> QED
  BY <1>1, <1>2, <1>3, Zenon DEF Next

\* The versions at a stage that something may serve from have been decided on.
Decided ==
    \A v \in DOMAIN registry :
        registry[v].stage \in {"Staging", "Production"} => registry[v].passed \/ v \in forced

LEMMA DecidedStep == Typed /\ Decided /\ [Next]_vars => Decided'
<1> SUFFICES ASSUME Typed, Decided, [Next]_vars PROVE Decided'
  OBVIOUS
<1>1. ASSUME NEW pass \in BOOLEAN, Register(pass) PROVE Decided'
  <2>1. forced' = forced
    BY <1>1, Zenon DEF Register, operator
  <2> QED
    BY <1>1, <2>1, RegisterProperties, SMT DEF Decided
<1>2. ASSUME NEW v \in DOMAIN registry, NEW stage \in Stages,
             NEW force \in BOOLEAN, NEW keep \in BOOLEAN, Promote(v, stage, force, keep)
      PROVE  Decided'
  <2> SUFFICES ASSUME NEW u \in DOMAIN registry, registry'[u].stage \in {"Staging", "Production"}
               PROVE  registry[u].passed \/ u \in forced'
    BY <1>2, PromoteProperties, SMT DEF Decided
  <2>1. registry'[u].stage = IF u = v THEN stage
                             ELSE IF ~keep /\ registry[u].stage = stage THEN "Archived"
                             ELSE registry[u].stage
    BY <1>2, PromoteProperties
  <2>2. forced \subseteq forced'
    BY <1>2, PromoteProperties
  <2>3. CASE u = v
    <3>1. stage # "Archived" /\ (registry[v].passed \/ force)
      BY <1>2, <2>1, <2>3, SMT DEF Promote, GatesHold
    <3> QED
      BY <1>2, <2>3, <3>1, SMT DEF Promote
  <2>4. CASE u # v
    <3>1. registry[u].stage \in {"Staging", "Production"}
      BY <2>1, <2>4, SMT
    <3> QED
      BY <2>2, <3>1, SMT DEF Decided
  <2> QED
    BY <2>3, <2>4
<1>3. CASE registry' = registry /\ forced' = forced
  BY <1>3, Zenon DEF Decided
<1> QED
  BY <1>1, <1>2, <1>3, RegistryStep, Zenon

\* The registry remembers what was decided about every model it ever served.
LEMMA PromotedStep ==
    Typed /\ Decided /\ ServedWasPromoted /\ [Next]_vars => ServedWasPromoted'
<1> SUFFICES ASSUME Typed, Decided, ServedWasPromoted, [Next]_vars, source' = "registry"
             PROVE  \E v \in DOMAIN registry' :
                        /\ registry'[v].model = served'
                        /\ registry'[v].passed \/ v \in forced'
  BY Zenon DEF ServedWasPromoted
<1>1. CASE StartsFromRegistry
  <2>1. /\ WouldServe # Absent /\ served' = WouldServe
        /\ registry' = registry /\ forced' = forced
    BY <1>1, Zenon DEF StartsFromRegistry, ScorerStarts, operator
  <2>2. LatestVersion \in AtStage("Production") /\ served' = registry[LatestVersion].model
    BY <2>1, LatestIsThere, Zenon DEF WouldServe, Typed
  <2> QED
    BY <2>1, <2>2, SMT DEF AtStage, Decided
<1>2. CASE ~StartsFromRegistry
  <2>1. served' = served /\ source = "registry"
    BY <1>2, Zenon DEF Next, Train, BeginBundle, SaveBundle, BeginReference, SaveReference,
                       Register, FinishUnregistered, TrainerDies, Promote, StartsFromFile,
                       ScorerStarts, ScorerStops, MonitorStarts, MonitorStops, services, vars
  <2>2. PICK v \in DOMAIN registry :
            registry[v].model = served /\ (registry[v].passed \/ v \in forced)
    BY <2>1, Zenon DEF ServedWasPromoted
  <2> DEFINE Kept == /\ v \in DOMAIN registry' /\ registry'[v].model = registry[v].model
                     /\ registry'[v].passed = registry[v].passed
                     /\ v \in forced => v \in forced'
  <2>3. Kept
    <3>1. ASSUME NEW pass \in BOOLEAN, Register(pass) PROVE Kept
      BY <3>1, RegisterProperties, Zenon DEF Register, operator
    <3>2. ASSUME NEW w \in DOMAIN registry, NEW stage \in Stages,
                 NEW force \in BOOLEAN, NEW keep \in BOOLEAN, Promote(w, stage, force, keep)
          PROVE  Kept
      BY <3>2, PromoteProperties, SMT
    <3> QED
      <4>1. CASE registry' = registry /\ forced' = forced
        BY <4>1
      <4> HIDE DEF Kept
      <4> QED
        BY <3>1, <3>2, <4>1, RegistryStep, Zenon
  <2> QED
    BY <2>1, <2>2, <2>3, Zenon
<1> QED
  BY <1>1, <1>2

\* What is served from the registry was decided on (train.py:151-154,
\* promote_model.py:1-6): it passed the gates or was forced past them.
THEOREM NothingServedUndecided == Spec => []ServedWasPromoted
<1>1. Init => Decided /\ ServedWasPromoted
  BY SMT DEF Init, Decided, ServedWasPromoted
<1> QED
  BY <1>1, DecidedStep, PromotedStep, TypedAlways, PTL DEF Spec

\* A version asked for alone is alone at Production.
Exclusive == asked # 0 => AtStage("Production") = {asked}

LEMMA ExclusiveStep == Typed /\ Exclusive /\ [Next]_vars => Exclusive'
<1> SUFFICES ASSUME Typed, Exclusive, [Next]_vars PROVE Exclusive'
  OBVIOUS
<1>1. ASSUME NEW pass \in BOOLEAN, Register(pass) PROVE Exclusive'
  <2>1. asked' = asked
    BY <1>1, Zenon DEF Register, operator
  <2>2. AtStage("Production")' = AtStage("Production")
    BY <1>1, RegisterProperties, SMT DEF AtStage
  <2> QED
    BY <2>1, <2>2, Zenon DEF Exclusive
<1>2. ASSUME NEW v \in DOMAIN registry, NEW stage \in Stages,
             NEW force \in BOOLEAN, NEW keep \in BOOLEAN, Promote(v, stage, force, keep)
      PROVE  Exclusive'
  <2>1. /\ DOMAIN registry' = DOMAIN registry
        /\ \A u \in DOMAIN registry : registry'[u].stage =
              IF u = v THEN stage
              ELSE IF ~keep /\ registry[u].stage = stage THEN "Archived"
              ELSE registry[u].stage
    BY <1>2, PromoteProperties
  <2>2. asked' = IF stage = "Production" THEN IF keep THEN 0 ELSE v
                 ELSE IF asked = v THEN 0 ELSE asked
    BY <1>2 DEF Promote
  <2>3. CASE stage = "Production"
    BY <2>1, <2>2, <2>3, SMT DEF Exclusive, AtStage
  <2>4. CASE stage # "Production"
    BY <2>1, <2>2, <2>4, SMT DEF Exclusive, AtStage
  <2> QED
    BY <2>3, <2>4
<1>3. CASE registry' = registry /\ asked' = asked
  BY <1>3, Zenon DEF Exclusive, AtStage
<1> QED
  BY <1>1, <1>2, <1>3, RegistryStep, Zenon

\* Rollback works (RUNBOOK.md:63-68): the version last promoted to Production,
\* older or newer, is what the next start of the scorer loads.
THEOREM RollbackIsEffective == Spec => []RollbackServes
<1>1. Init => Exclusive
  BY SMT DEF Init, Exclusive
<1>2. Typed /\ Exclusive => RollbackServes
  <2> SUFFICES ASSUME Typed, Exclusive, asked # 0 PROVE WouldServe = registry[asked].model
    BY DEF RollbackServes
  <2>1. AtStage("Production") = {asked} /\ AtStage("Production") # {}
    BY DEF Exclusive
  <2>2. LatestVersion = asked
    BY <2>1, LatestIsThere, SMT DEF Typed
  <2> QED
    BY <2>1, <2>2, Zenon DEF WouldServe
<1> QED
  BY <1>1, <1>2, ExclusiveStep, TypedAlways, PTL DEF Spec

-----------------------------------------------------------------------------
(* Training *)

\* Registering is not promoting (train.py:151-154): training changes nothing
\* the registry serves, whatever it trains, registers, or leaves behind.
THEOREM TrainingChangesNothingServed == Spec => TrainingIsInert
<1>1. Typed /\ [Next]_vars => [Train => WouldServe' = WouldServe]_vars
  <2> SUFFICES ASSUME Typed, Train PROVE WouldServe' = WouldServe
    OBVIOUS
  <2>1. ASSUME NEW pass \in BOOLEAN, Register(pass) PROVE WouldServe' = WouldServe
    <3>1. AtStage("Production")' = AtStage("Production")
      BY <2>1, RegisterProperties, SMT DEF AtStage
    <3>2. LatestVersion' = LatestVersion
      BY <3>1, Zenon DEF LatestVersion
    <3>3. AtStage("Production") # {} =>
            registry'[LatestVersion] = registry[LatestVersion]
      BY <2>1, LatestIsThere, RegisterProperties, SMT DEF AtStage, Typed
    <3> QED
      BY <3>1, <3>2, <3>3, Zenon DEF WouldServe
  <2>2. CASE registry' = registry
    <3>1. AtStage("Production")' = AtStage("Production")
      BY <2>2 DEF AtStage
    <3>2. LatestVersion' = LatestVersion
      BY <3>1, Zenon DEF LatestVersion
    <3> QED
      BY <2>2, <3>1, <3>2, Zenon DEF WouldServe
  <2> QED
    BY <2>1, <2>2, Zenon DEF Train, BeginBundle, SaveBundle, BeginReference, SaveReference,
                             FinishUnregistered, TrainerDies
<1> QED
  BY <1>1, TypedAlways, PTL DEF Spec, TrainingIsInert

\* A service that is current holds what its file holds, and two files that are
\* not at work and were not left half-written hold the same.
FilesAgree ==
    /\ "scorer" \in current /\ source = "file" => served = bundle
    /\ "monitor" \in current => compared = reference
    /\ trainer \in {"saved", "referencing"} => bundle = trained
    /\ trainer \in {"idle", "written"} /\ ~halved => bundle = reference

LEMMA FilesStep == Typed /\ FilesAgree /\ [Next]_vars => FilesAgree'
<1> SUFFICES ASSUME Typed, FilesAgree, [Next]_vars PROVE FilesAgree'
  OBVIOUS
<1> USE DEF FilesAgree
<1>1. CASE BeginBundle
  BY <1>1, SMT DEF BeginBundle, WriteBundle
<1>2. CASE SaveBundle
  BY <1>2, SMT DEF SaveBundle, WriteBundle
<1>3. CASE BeginReference
  BY <1>3, SMT DEF BeginReference, WriteReference
<1>4. CASE SaveReference
  BY <1>4, SMT DEF SaveReference, WriteReference
<1>5. ASSUME NEW pass \in BOOLEAN, Register(pass) PROVE FilesAgree'
  BY <1>5, SMT DEF Register, files, services
<1>6. CASE FinishUnregistered
  BY <1>6, SMT DEF FinishUnregistered, files, services
<1>7. CASE TrainerDies
  BY <1>7, SMT DEF TrainerDies, files, services
<1>8. ASSUME NEW v \in DOMAIN registry, NEW stage \in Stages,
             NEW force \in BOOLEAN, NEW keep \in BOOLEAN, Promote(v, stage, force, keep)
      PROVE  FilesAgree'
  <2>1. UNCHANGED <<trained, trainer, bundle, reference, served, source, compared, current, halved>>
    BY <1>8, Zenon DEF Promote, files, services
  <2> QED
    BY <2>1, Zenon
<1>9. CASE StartsFromFile
  BY <1>9, SMT DEF StartsFromFile, ScorerStarts, files
<1>10. CASE StartsFromRegistry
  BY <1>10, SMT DEF StartsFromRegistry, ScorerStarts, files
<1>11. CASE ScorerStops
  BY <1>11, SMT DEF ScorerStops, files
<1>12. CASE MonitorStarts
  BY <1>12, SMT DEF MonitorStarts, files
<1>13. CASE MonitorStops
  BY <1>13, SMT DEF MonitorStops, files
<1>14. CASE UNCHANGED vars
  BY <1>14, SMT DEF vars, files, services
<1> QED
  BY <1>1, <1>2, <1>3, <1>4, <1>5, <1>6, <1>7, <1>8, <1>9, <1>10, <1>11, <1>12, <1>13, <1>14
  DEF Next, Train

\* Model and reference belong together (train.py:132-141) once both services
\* have started on the files of a training that did not break off.
THEOREM FreshServicesPair == Spec => []PairedWhenFresh
<1>1. Init => FilesAgree
  BY SMT DEF Init, FilesAgree
<1>2. FilesAgree => PairedWhenFresh
  BY SMT DEF FilesAgree, PairedWhenFresh
<1> QED
  BY <1>1, <1>2, FilesStep, TypedAlways, PTL DEF Spec
=============================================================================
