-------------------------- MODULE ModelLifecycle ---------------------------
(***************************************************************************)
(* From a training to the model that is served and the reference that its  *)
(* drift is measured against: training/train.py writes two files and may   *)
(* register them, scripts/promote_model.py moves registered versions       *)
(* between stages, and the scorer and the monitor each load once, when     *)
(* they start.                                                             *)
(*                                                                         *)
(* A model is the number of the training it comes from; so is a reference. *)
(* The training process, the operator at promote_model.py and the two      *)
(* services take their steps in any order.  One training runs at a time.   *)
(***************************************************************************)
EXTENDS Integers, Sequences

CONSTANT MaxTrainings  \* bound on the trainings

ASSUME TrainingAssumption == MaxTrainings \in Nat

VARIABLES
    trained,    \* trainings begun
    trainer,    \* how far the current one is
    bundle,     \* models/model.joblib
    reference,  \* models/reference.csv
    registry,   \* registered versions: model, stage, whether its metrics pass
    served, source,  \* the scorer's model, and where it was loaded from
    compared,   \* the monitor's reference
    \* History variables:
    forced,     \* versions promoted with --force against the gates
    asked,      \* the version last promoted to Production to serve alone
    current,    \* services started since a file was last written
    halved      \* a training died between its files, and none has ended since

files == <<bundle, reference>>
services == <<served, source, compared>>
operator == <<forced, asked>>
vars == <<trained, trainer, files, registry, services, operator, current, halved>>

Absent == 0  \* no file, no service
Torn == -1   \* a file that is being written, or was when its writer died

Models == 1..MaxTrainings
Stages == {"Staging", "Production", "Archived"}
Version == [model : Models, stage : Stages \cup {"None"}, passed : BOOLEAN]

Init ==
    /\ trained = 0 /\ trainer = "idle"
    /\ bundle = Absent /\ reference = Absent
    /\ registry = <<>>
    /\ served = Absent /\ source = "none" /\ compared = Absent
    /\ forced = {} /\ asked = 0
    /\ current = {} /\ halved = FALSE

-----------------------------------------------------------------------------
(* train.py *)

\* Mutant of WriteReference: a reference that exists is kept.
WriteOnce(contents) ==
    /\ reference' = IF reference \in Models THEN reference ELSE contents
    /\ current' = {}

WriteBundle(contents) == bundle' = contents /\ current' = {}
WriteReference(contents) == reference' = contents /\ current' = {}

\* joblib.dump opens the file ...
BeginBundle ==
    /\ trainer = "idle" /\ trained < MaxTrainings
    /\ trained' = trained + 1
    /\ trainer' = "dumping"
    /\ WriteBundle(Torn)
    /\ UNCHANGED <<reference, registry, services, operator, halved>>

\* ... and has written it.
SaveBundle ==
    /\ trainer = "dumping"
    /\ trainer' = "saved"
    /\ WriteBundle(trained)
    /\ UNCHANGED <<trained, reference, registry, services, operator, halved>>

\* to_csv opens the file ...
BeginReference ==
    /\ trainer = "saved"
    /\ trainer' = "referencing"
    /\ WriteReference(Torn)
    /\ UNCHANGED <<trained, bundle, registry, services, operator, halved>>

\* ... and has written it.
SaveReference ==
    /\ trainer = "referencing"
    /\ trainer' = "written"
    /\ WriteReference(trained)
    /\ halved' = FALSE
    /\ UNCHANGED <<trained, bundle, registry, services, operator>>

\* Mutant of NewVersion: registering is promoting.
NewProductionVersion(pass) == [model |-> trained, stage |-> "Production", passed |-> pass]

NewVersion(pass) == [model |-> trained, stage |-> "None", passed |-> pass]

\* --register: the run's metrics, its artifacts, a version without a stage.
Register(pass) ==
    /\ trainer = "written"
    /\ trainer' = "idle"
    /\ registry' = Append(registry, NewVersion(pass))
    /\ UNCHANGED <<trained, files, services, operator, current, halved>>

\* Without --register; or the registry could not be reached.
FinishUnregistered ==
    /\ trainer = "written"
    /\ trainer' = "idle"
    /\ UNCHANGED <<trained, files, registry, services, operator, current, halved>>

TrainerDies ==
    /\ trainer \in {"dumping", "saved", "referencing"}
    /\ trainer' = "idle"
    /\ halved' = TRUE
    /\ UNCHANGED <<trained, files, registry, services, operator, current>>

Train ==
    \/ BeginBundle \/ SaveBundle \/ BeginReference \/ SaveReference
    \/ \E pass \in BOOLEAN : Register(pass)
    \/ FinishUnregistered \/ TrainerDies

-----------------------------------------------------------------------------
(* promote_model.py *)

\* Mutant of GatesHold: only the way to Staging is gated.
StagingGateHolds(v, stage, force) ==
    stage = "Staging" => registry[v].passed \/ force

\* Demoting is not gated.
GatesHold(v, stage, force) ==
    stage # "Archived" => registry[v].passed \/ force

\* Mutant of Transition: the flag is passed without its `not`.
TransitionInverted(v, stage, keep) ==
    [u \in DOMAIN registry |-> [registry[u] EXCEPT !.stage =
        IF u = v THEN stage ELSE IF keep /\ @ = stage THEN "Archived" ELSE @]]

\* The versions after transition_model_version_stage.
Transition(v, stage, keep) ==
    [u \in DOMAIN registry |-> [registry[u] EXCEPT !.stage =
        IF u = v THEN stage ELSE IF ~keep /\ @ = stage THEN "Archived" ELSE @]]

\* A promotion that goes through.  One that does not changes nothing: failing
\* gates without --force, and --stage Archived without --keep-existing, as
\* the registry does not archive what else is at a stage nothing serves from.
Promote(v, stage, force, keep) ==
    /\ GatesHold(v, stage, force)
    /\ stage = "Archived" => keep
    /\ registry' = Transition(v, stage, keep)
    /\ forced' = IF stage # "Archived" /\ ~registry[v].passed /\ force
                   THEN forced \cup {v} ELSE forced
    /\ asked' = IF stage = "Production" THEN IF keep THEN 0 ELSE v
                ELSE IF asked = v THEN 0 ELSE asked
    /\ UNCHANGED <<trained, trainer, files, services, current, halved>>

-----------------------------------------------------------------------------
(* The services *)

AtStage(stage) == {v \in DOMAIN registry : registry[v].stage = stage}

\* get_latest_versions: the highest version at MODEL_REGISTRY_STAGE.
LatestVersion ==
    CHOOSE v \in AtStage("Production") : \A u \in AtStage("Production") : u <= v

\* The model a scorer that starts now loads from the registry.
WouldServe == IF AtStage("Production") = {} THEN Absent ELSE registry[LatestVersion].model

\* Mutant of ReadableBundle: whatever the file holds.
BundleExists == bundle # Absent

ReadableBundle == bundle \notin {Absent, Torn}

ScorerStarts(m, from) ==
    /\ served = Absent
    /\ served' = m /\ source' = from
    /\ current' = current \cup {"scorer"}
    /\ UNCHANGED <<trained, trainer, files, registry, compared, operator, halved>>

\* MLFLOW_TRACKING_URI unset.  A torn bundle does not load: no start.
StartsFromFile == ReadableBundle /\ ScorerStarts(bundle, "file")

\* MLFLOW_TRACKING_URI set.  Nothing at the stage: RuntimeError, no start.
StartsFromRegistry == WouldServe # Absent /\ ScorerStarts(WouldServe, "registry")

ScorerStops ==
    /\ served # Absent
    /\ served' = Absent /\ source' = "none"
    /\ current' = current \ {"scorer"}
    /\ UNCHANGED <<trained, trainer, files, registry, compared, operator, halved>>

\* read_csv reads a half-written file without complaint.
MonitorStarts ==
    /\ compared = Absent /\ reference # Absent
    /\ compared' = reference
    /\ current' = current \cup {"monitor"}
    /\ UNCHANGED <<trained, trainer, files, registry, served, source, operator, halved>>

MonitorStops ==
    /\ compared # Absent
    /\ compared' = Absent
    /\ current' = current \ {"monitor"}
    /\ UNCHANGED <<trained, trainer, files, registry, served, source, operator, halved>>

Next ==
    \/ Train
    \/ \E v \in DOMAIN registry, stage \in Stages, force, keep \in BOOLEAN :
          Promote(v, stage, force, keep)
    \/ StartsFromFile \/ StartsFromRegistry \/ ScorerStops
    \/ MonitorStarts \/ MonitorStops

Spec == Init /\ [][Next]_vars

-----------------------------------------------------------------------------
(* Properties *)

TypeOK ==
    /\ trained \in 0..MaxTrainings
    /\ trainer \in {"idle", "dumping", "saved", "referencing", "written"}
    /\ bundle \in Models \cup {Absent, Torn} /\ reference \in Models \cup {Absent, Torn}
    /\ registry \in Seq(Version)
    /\ served \in Models \cup {Absent} /\ source \in {"none", "file", "registry"}
    /\ compared \in Models \cup {Absent, Torn}
    /\ forced \subseteq DOMAIN registry /\ asked \in {0} \cup DOMAIN registry
    /\ current \subseteq {"scorer", "monitor"} /\ halved \in BOOLEAN

\* What the registry serves is what somebody decided on
\* (train.py:151-154, promote_model.py:1-6): the model of a version that
\* passed the gates or was forced past them, whatever was trained, demoted and
\* kept in the meantime.
ServedWasPromoted ==
    source = "registry" =>
        \E v \in DOMAIN registry :
            registry[v].model = served /\ (registry[v].passed \/ v \in forced)

\* Promotion is a registry transition, so rollback is one too
\* (RUNBOOK.md:63-68): a version promoted to Production, old or new, is what
\* the next start of the scorer loads, as long as no later command moves it or
\* puts another beside it with --keep-existing.
RollbackServes == asked # 0 => WouldServe = registry[asked].model

\* Registering is not promoting (train.py:151-154): no step of a training
\* changes what the registry serves.
TrainingIsInert == [][Train => WouldServe' = WouldServe]_vars

\* When both services have started since the files were last written, and no
\* training broke off between its files, the monitor compares what a scorer
\* loaded from the file produces with that model's own reference
\* (train.py:132-141).
PairedWhenFresh ==
    /\ current = {"scorer", "monitor"} /\ source = "file"
    /\ trainer \in {"idle", "written"} /\ ~halved
    => compared = served

\* The drift reference is the served model's (train.py:122-125): so it should
\* be, at least after both services have been restarted on the files of a
\* training that ended.
ReferenceIsOfServed ==
    /\ current = {"scorer", "monitor"}
    /\ trainer \in {"idle", "written"} /\ ~halved
    => compared = served
=============================================================================
