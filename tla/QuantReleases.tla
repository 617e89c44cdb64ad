--------------------------- MODULE QuantReleases ---------------------------
(***************************************************************************)
(* What happens to the trained models of one market: an administrator      *)
(* publishes pairs of them as releases, takes an older pair back, deletes  *)
(* models and their files, while daily executions read the active pair.    *)
(* Each repository method is one transaction under row locks; the checks   *)
(* and the removal of files that the API makes around them are not.        *)
(***************************************************************************)
EXTENDS Naturals, FiniteSets

CONSTANTS
    CrossSection, TimeSeries,  \* model runs of the two model keys
    Readers                    \* daily executions

ASSUME ModelKeysAssumption == CrossSection \cap TimeSeries = {}

VARIABLES
    model,     \* ModelRun.status, "deleted" once the row is gone
    artifacts, \* the runs whose artifact directory exists
    checked,   \* the pairs whose files a publishing request has found
    releases,  \* the pairs of QuantModelRelease
    active,    \* the active release, as a set of at most one pair
    unlinking, \* runs whose row was deleted and whose files come next
    reading    \* per execution, the pair it has frozen, if any

relVars == <<model, artifacts, checked, releases, active, unlinking, reading>>

Models    == CrossSection \cup TimeSeries
Pairs     == CrossSection \X TimeSeries
Released  == {"candidate", "production", "retired"}
Part(p)   == {p[1], p[2]}
Parts(ps) == UNION {Part(p) : p \in ps}

RelTypeOK ==
    /\ model \in [Models -> Released \cup {"training", "failed", "deleted"}]
    /\ artifacts \subseteq Models
    /\ checked \subseteq Pairs
    /\ releases \subseteq Pairs
    /\ active \subseteq releases
    /\ Cardinality(active) <= 1
    /\ unlinking \subseteq Models
    /\ reading \in [Readers -> SUBSET Pairs]

RelInit ==
    /\ model = [m \in Models |-> "training"]
    /\ artifacts = {} /\ checked = {} /\ releases = {} /\ active = {} /\ unlinking = {}
    /\ reading = [e \in Readers |-> {}]

(* The worker renames the artifact into place before the callback accepts  *)
(* the run; a failed training may have left one behind or not.             *)
TrainingEnds(m) ==
    /\ model[m] = "training"
    /\ \/ model' = [model EXCEPT ![m] = "candidate"] /\ artifacts' = artifacts \cup {m}
       \/ model' = [model EXCEPT ![m] = "failed"] /\ artifacts' \in {artifacts, artifacts \cup {m}}
    /\ UNCHANGED <<checked, releases, active, unlinking, reading>>

(* POST /releases first looks for the four files of both models.           *)
CheckFiles(p) ==
    /\ \A m \in Part(p) : model[m] \in Released /\ m \in artifacts
    /\ checked' = checked \cup {p}
    /\ UNCHANGED <<model, artifacts, releases, active, unlinking, reading>>

(* publish_release: one transaction that retires every production model of *)
(* the market, or none when the pair is no longer there.                   *)
Publishable(p) == \A m \in Part(p) : model[m] \in Released

PublishRelease(p) ==
    /\ p \in checked
    /\ checked' = checked \ {p}
    /\ IF Publishable(p)
       THEN /\ model' = [m \in Models |->
                           IF m \in Part(p) THEN "production"
                           ELSE IF model[m] = "production" THEN "retired" ELSE model[m]]
            /\ releases' = releases \cup {p}
            /\ active' = {p}
       ELSE UNCHANGED <<model, releases, active>>
    /\ UNCHANGED <<artifacts, unlinking, reading>>

DeletableUnlessProduction(m) == model[m] \in {"candidate", "retired", "failed"}

(* delete_model_run; the API removes the files after the commit.  Only an  *)
(* accepted run has an artifact_uri.                                       *)
Deletable(m) == model[m] \in {"candidate", "retired", "failed"} /\ m \notin Parts(releases)

DeleteModel(m) ==
    /\ Deletable(m)
    /\ model' = [model EXCEPT ![m] = "deleted"]
    /\ unlinking' = IF model[m] = "failed" THEN unlinking ELSE unlinking \cup {m}
    /\ UNCHANGED <<artifacts, checked, releases, active, reading>>

(* _remove_artifact, which may fail and leave the files for good.          *)
RemoveArtifact(m) ==
    /\ m \in unlinking
    /\ unlinking' = unlinking \ {m}
    /\ artifacts' \in {artifacts, artifacts \ {m}}
    /\ UNCHANGED <<model, checked, releases, active, reading>>

(* A daily execution freezes the release it finds active, then looks for   *)
(* the files of its models and hands their addresses to the Qlib worker.   *)
FreezeRelease(e) ==
    /\ reading[e] = {} /\ active # {}
    /\ reading' = [reading EXCEPT ![e] = active]
    /\ UNCHANGED <<model, artifacts, checked, releases, active, unlinking>>

ReadEnds(e) ==
    /\ reading[e] # {}
    /\ reading' = [reading EXCEPT ![e] = {}]
    /\ UNCHANGED <<model, artifacts, checked, releases, active, unlinking>>

RelNext ==
    \/ \E m \in Models : TrainingEnds(m) \/ DeleteModel(m) \/ RemoveArtifact(m)
    \/ \E p \in Pairs : CheckFiles(p) \/ PublishRelease(p)
    \/ \E e \in Readers : FreezeRelease(e) \/ ReadEnds(e)

RelSpec == RelInit /\ [][RelNext]_relVars

(* docs/quant-research.md: any model referenced by release history is      *)
(* protected from deletion.  Its row and its files outlive every deletion  *)
(* that raced the publication, and so does what an execution reads.        *)
ReleasedIsKept ==
    \A m \in Parts(releases) \cup UNION {Parts(reading[e]) : e \in Readers} :
        m \in artifacts /\ model[m] \in {"production", "retired"} /\ m \notin unlinking

(* Both models are published atomically: the production models are those   *)
(* of the active release, through roll-backs and releases that share one.  *)
ProductionIsRelease == {m \in Models : model[m] = "production"} = Parts(active)

ReleasesAreKept == ReleasedIsKept /\ ProductionIsRelease
=============================================================================
