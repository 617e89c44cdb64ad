------------------------------- MODULE JobProofs -------------------------------
(***************************************************************************)
(* The chains of jobs that Celery keeps going, for any processes, runs,    *)
(* retries, calendars, lifetimes and bounds: what a verdict of a training  *)
(* is worth, what a finished run of the trend snapshots is worth and what  *)
(* a hit of the cache in front of them is worth; then the specification    *)
(* that composes them.                                                     *)
(***************************************************************************)
EXTENDS MCJobs, FiniteSetTheorems, WellFoundedInduction, TLAPS

-----------------------------------------------------------------------------
(* The trainings                                                           *)

JobSteps     == {"none", "queued", "read", "claimed", "sent", "failing", "reporting", "over"}
TrainerSteps == {"none", "queued", "finalize", "fail", "update", "giveup", "good", "bad", "over"}

LEMMA DeliverType ==
  ASSUME NEW steps, "queued" \in steps, NEW box \in [Runs -> [Copies -> steps]], NEW r \in Runs, NEW copies
  PROVE  /\ Deliver(box, r, copies) \in [Runs -> [Copies -> steps]]
         /\ \A q \in Runs : q # r => Deliver(box, r, copies)[q] = box[q]
<1>1. [c \in Copies |-> IF c \in copies THEN "queued" ELSE box[r][c]] \in [Copies -> steps]
  OBVIOUS
<1>2. QED
  BY <1>1 DEF Deliver

LEMMA NestedType ==
  ASSUME NEW values, NEW box \in [Runs -> [Copies -> values]], NEW r \in Runs, NEW c \in Copies,
         NEW v \in values
  PROVE  /\ [box EXCEPT ![r][c] = v] \in [Runs -> [Copies -> values]]
         /\ \A q \in Runs : q # r => [box EXCEPT ![r][c] = v][q] = box[q]
<1>1. [box[r] EXCEPT ![c] = v] \in [Copies -> values]
  OBVIOUS
<1>2. [box EXCEPT ![r][c] = v] = [box EXCEPT ![r] = [box[r] EXCEPT ![c] = v]]
  OBVIOUS
<1>3. QED
  BY <1>1, <1>2

LEMMA UpdateRunType ==
  ASSUME TrainTypeOK, NEW r \in Runs, NEW expected \in SUBSET RunStatuses, NEW to \in RunStatuses,
         UpdateRun(r, expected, to)
  PROVE  /\ runStatus' \in [Runs -> RunStatuses]
         /\ \A q \in Runs : q # r => runStatus'[q] = runStatus[q]
         /\ runStatus'[r] = IF runStatus[r] \in expected THEN to ELSE runStatus[r]
  BY DEF UpdateRun, TrainTypeOK

(* Before the request has written its drafts nothing has begun.            *)
NothingBegun ==
    /\ api = "idle" /\ prep = "none"
    /\ \A r \in Runs : /\ runStatus[r] = "absent" /\ claims[r] = 0 /\ told[r] = "open"
                       /\ \A c \in Copies : job[r][c] = "none" /\ training[r][c] = "none"

(* The preparation is at nobody's draft but in its failure branch.         *)
OneAtATime ==
    /\ prep # "failing" => doomed = {}
    /\ api \in {"idle", "sending"} => prep = "none"

TrainInv ==
    /\ TrainTypeOK /\ OneAtATime
    /\ api = "idle" \/ (\E r \in Runs : runStatus[r] = "absent") => NothingBegun

LEMMA TrainInvInit == TrainInit => TrainInv
  BY TrainRetriesAssumption, TrainFaultsAssumption
     DEF TrainInit, TrainInv, TrainTypeOK, OneAtATime, NothingBegun, RunStatuses, Copies

Others == \/ Requester \/ RequestDies
          \/ \E r \in Runs : PromoteRun(r)
          \/ \E r \in Runs, c \in Copies :
               Training(r, c) \/ TrainWorker(r, c) \/ JobDies(r, c) \/ QlibDies(r, c)

(* What a step may do to a run's status once the drafts are written.       *)
RunStep(r) ==
    \/ runStatus'[r] = runStatus[r]
    \/ runStatus[r] \in {"draft", "training"} /\ runStatus'[r] # "absent"
    \/ runStatus[r] \in Accepted /\ runStatus'[r] \in Accepted
    \/ api = "failing" /\ runStatus'[r] = "failed"

LEMMA UpdateRunStep ==
  ASSUME TrainTypeOK, NEW r \in Runs, NEW expected \in SUBSET {"draft", "training"},
         NEW to \in RunStatuses \ {"absent"}, UpdateRun(r, expected, to)
  PROVE  \A q \in Runs : RunStep(q)
<1>1. expected \in SUBSET RunStatuses
  BY DEF RunStatuses
<1>2. QED
  BY <1>1, UpdateRunType DEF RunStep

LEMMA RunSteps == ASSUME TrainTypeOK, Others PROVE \A q \in Runs : RunStep(q)
<1>1. CASE UNCHANGED runStatus
  BY <1>1 DEF RunStep
<1>2. ASSUME NEW r \in Runs, RefuseExperiment(r) PROVE \A q \in Runs : RunStep(q)
  BY <1>2 DEF RefuseExperiment, RunStep, TrainTypeOK
<1>3. ASSUME NEW r \in Runs, PromoteRun(r) PROVE \A q \in Runs : RunStep(q)
  BY <1>3 DEF PromoteRun, RunStep, TrainTypeOK, Accepted
<1>4. ASSUME NEW r \in Runs, Fail(r) PROVE \A q \in Runs : RunStep(q)
  BY <1>4, UpdateRunStep DEF Fail, RunStatuses
<1>5. ASSUME NEW r \in Runs, UpdateRun(r, {"draft"}, "training") PROVE \A q \in Runs : RunStep(q)
  BY <1>5, UpdateRunStep DEF RunStatuses
<1>6. ASSUME NEW r \in Runs, UpdateRun(r, {"training"}, "candidate") PROVE \A q \in Runs : RunStep(q)
  BY <1>6, UpdateRunStep DEF RunStatuses, Accepted
<1>7. CASE Requester
  BY <1>1, <1>2, <1>4, <1>7
     DEF Requester, SubmitPreparation, SubmitRaises, Refused, StartPreparation, QueueTraining, QueueRaises,
         ReadDraft, FailDraft
<1>8. CASE RequestDies
  BY <1>1, <1>8 DEF RequestDies
<1>9. ASSUME NEW r \in Runs, NEW c \in Copies, Training(r, c) PROVE \A q \in Runs : RunStep(q)
  BY <1>1, <1>4, <1>5, <1>9
     DEF Training, ReadRun, Claim, ClaimRaises, SendToQlib, SendRaises, MarkDispatched, FailRun,
         ReportTrainingFailure
<1>10. ASSUME NEW r \in Runs, NEW c \in Copies, TrainWorker(r, c) PROVE \A q \in Runs : RunStep(q)
  BY <1>1, <1>4, <1>6, <1>10
     DEF TrainWorker, Train, ReadForFinalize, Accept, AcceptRaises, ReadForFail, GiveUpTraining,
         FinishTraining
<1>11. ASSUME NEW r \in Runs, NEW c \in Copies, JobDies(r, c) \/ QlibDies(r, c) PROVE \A q \in Runs : RunStep(q)
  BY <1>1, <1>11 DEF JobDies, QlibDies
<1>12. QED
  BY <1>3, <1>7, <1>8, <1>9, <1>10, <1>11 DEF Others

(* Every step is typed: the last conjunct of TrainTypeOK is about runs     *)
(* that are still absent.                                                  *)
TypedStep == (\A q \in Runs : runStatus'[q] # "absent") => TrainTypeOK'

LEMMA StatusTypes ==
  ASSUME TrainTypeOK, \A q \in Runs : RunStep(q), NEW r \in Runs,
         \/ UNCHANGED runStatus \/ runStatus' = [runStatus EXCEPT ![r] = "failed"]
         \/ Fail(r) \/ UpdateRun(r, {"draft"}, "training") \/ UpdateRun(r, {"training"}, "candidate")
         \/ \E to \in {"production", "retired"} : runStatus' = [runStatus EXCEPT ![r] = to]
  PROVE  runStatus' \in [Runs -> RunStatuses]
  BY ZenonT(60) DEF TrainTypeOK, RunStatuses, Accepted, Fail, UpdateRun

LEMMA JobType ==
  ASSUME TrainTypeOK, NEW r \in Runs, NEW c \in Copies, NEW from, NEW to \in JobSteps, Job(r, c, from, to)
  PROVE  job' \in [Runs -> [Copies -> JobSteps]]
<1>1. job \in [Runs -> [Copies -> JobSteps]]
  BY DEF TrainTypeOK, JobSteps
<1>2. QED
  BY <1>1, NestedType DEF Job

LEMMA TrainerType ==
  ASSUME TrainTypeOK, NEW r \in Runs, NEW c \in Copies, NEW from, NEW to \in TrainerSteps, Trainer(r, c, from, to)
  PROVE  training' \in [Runs -> [Copies -> TrainerSteps]]
<1>1. training \in [Runs -> [Copies -> TrainerSteps]]
  BY DEF TrainTypeOK, TrainerSteps
<1>2. QED
  BY <1>1, NestedType DEF Trainer

LEMMA FaultType ==
  ASSUME TrainTypeOK, TrainFault \/ Fine PROVE runFaults' \in 0..MaxTrainFaults
  BY TrainFaultsAssumption DEF TrainTypeOK, TrainFault, Fine

LEMMA RequesterType ==
  ASSUME TrainTypeOK, OneAtATime, \A q \in Runs : RunStep(q), Requester \/ RequestDies
  PROVE  TypedStep
<1> SUFFICES ASSUME \A q \in Runs : runStatus'[q] # "absent" PROVE TrainTypeOK'
  BY DEF TypedStep
<1> USE DEF TrainTypeOK
<1>1. CASE SubmitPreparation
  BY <1>1, FaultType DEF SubmitPreparation
<1>2. CASE SubmitRaises
  BY <1>2, FaultType DEF SubmitRaises
<1>3. CASE Refused
  BY <1>3, FaultType DEF Refused
<1>4. CASE StartPreparation
  BY <1>4, FaultType DEF StartPreparation
<1>5. CASE RequestDies
  BY <1>5, FaultType DEF RequestDies
<1>6. ASSUME NEW r \in Runs, RefuseExperiment(r) PROVE TrainTypeOK'
  BY <1>6, StatusTypes, FaultType DEF RefuseExperiment
<1>7. ASSUME NEW r \in Runs, QueueTraining(r) \/ QueueRaises(r) PROVE TrainTypeOK'
  <2>1. job' \in [Runs -> [Copies -> JobSteps]]
    <3>1. job \in [Runs -> [Copies -> JobSteps]] /\ "queued" \in JobSteps
      BY DEF JobSteps
    <3>2. \A copies : Deliver(job, r, copies) \in [Runs -> [Copies -> JobSteps]]
      BY <3>1, DeliverType
    <3>3. job' = job \/ \E copies \in {{1}, Copies} : job' = Deliver(job, r, copies)
      BY <1>7 DEF QueueTraining, QueueRaises
    <3>4. QED
      BY <3>1, <3>2, <3>3
  <2>2. runFaults' \in 0..MaxTrainFaults
    BY <1>7, FaultType DEF QueueTraining, QueueRaises
  <2>3. /\ prep' \in {"sending", "reading", "over"} /\ left' \subseteq Runs /\ doomed' = {}
        /\ UNCHANGED <<api, runStatus, claims, training, retried, told, runLost>>
    BY <1>7 DEF QueueTraining, QueueRaises, OneAtATime
  <2>4. QED
    BY <2>1, <2>2, <2>3 DEF JobSteps
<1>8. ASSUME NEW r \in Runs, ReadDraft(r) PROVE TrainTypeOK'
  <2>1. prep = "reading" /\ doomed = {} /\ r \in left
    BY <1>8 DEF ReadDraft, OneAtATime
  <2>2. CASE runStatus[r] = "draft"
    BY <1>8, <2>1, <2>2, FaultType DEF ReadDraft
  <2>3. CASE runStatus[r] # "draft"
    BY <1>8, <2>1, <2>3, FaultType DEF ReadDraft
  <2>4. QED
    BY <2>2, <2>3
<1>9. ASSUME NEW r \in Runs, FailDraft(r) PROVE TrainTypeOK'
  BY <1>9, StatusTypes, FaultType DEF FailDraft
<1>10. QED
  BY <1>1, <1>2, <1>3, <1>4, <1>5, <1>6, <1>7, <1>8, <1>9 DEF Requester

LEMMA TrainingType ==
  ASSUME TrainTypeOK, \A q \in Runs : RunStep(q), NEW r \in Runs, NEW c \in Copies,
         Training(r, c) \/ JobDies(r, c)
  PROVE  TypedStep
<1> SUFFICES ASSUME \A q \in Runs : runStatus'[q] # "absent" PROVE TrainTypeOK'
  BY DEF TypedStep
<1>1. job' \in [Runs -> [Copies -> JobSteps]]
  BY JobType
     DEF JobSteps, Training, ReadRun, Claim, ClaimRaises, SendToQlib, SendRaises, MarkDispatched, FailRun,
         ReportTrainingFailure, JobDies
<1>2. training' \in [Runs -> [Copies -> TrainerSteps]]
  <2>1. training \in [Runs -> [Copies -> TrainerSteps]] /\ "queued" \in TrainerSteps
    BY DEF TrainTypeOK, TrainerSteps
  <2>2. QED
    BY <2>1, DeliverType
       DEF Training, ReadRun, Claim, ClaimRaises, SendToQlib, SendRaises, MarkDispatched, FailRun,
           ReportTrainingFailure, JobDies
<1>3. runFaults' \in 0..MaxTrainFaults
  BY FaultType
     DEF Training, ReadRun, Claim, ClaimRaises, SendToQlib, SendRaises, MarkDispatched, FailRun,
         ReportTrainingFailure, JobDies
<1>4. runStatus' \in [Runs -> RunStatuses]
  BY StatusTypes
     DEF Training, ReadRun, Claim, ClaimRaises, SendToQlib, SendRaises, MarkDispatched, FailRun,
         ReportTrainingFailure, JobDies
<1>5. claims' \in [Runs -> Nat] /\ told' \in [Runs -> {"open", "completed", "failed"}] /\ runLost' \subseteq Runs
  <2>1. claims' \in [Runs -> Nat]
    <3>1. claims' = claims \/ claims' = [claims EXCEPT ![r] = claims[r] + 1]
      BY DEF TrainTypeOK, Training, ReadRun, Claim, ClaimRaises, SendToQlib, SendRaises, MarkDispatched, FailRun,
             ReportTrainingFailure, JobDies
    <3>2. QED
      BY <3>1 DEF TrainTypeOK
  <2>2. told' \in [Runs -> {"open", "completed", "failed"}] /\ runLost' \subseteq Runs
    BY DEF TrainTypeOK, Training, ReadRun, Claim, ClaimRaises, SendToQlib, SendRaises, MarkDispatched, FailRun,
           ReportTrainingFailure, JobDies
  <2>3. QED
    BY <2>1, <2>2
<1>6. UNCHANGED <<requestVars, retried>>
  BY DEF Training, ReadRun, Claim, ClaimRaises, SendToQlib, SendRaises, MarkDispatched, FailRun,
         ReportTrainingFailure, JobDies
<1>7. QED
  BY <1>1, <1>2, <1>3, <1>4, <1>5, <1>6 DEF TrainTypeOK, requestVars, JobSteps, TrainerSteps

LEMMA RaisesType ==
  ASSUME TrainTypeOK, NEW r \in Runs, NEW c \in Copies, FinalizeRaises(r, c)
  PROVE  /\ training' \in [Runs -> [Copies -> TrainerSteps]]
         /\ retried' \in [Runs -> [Copies -> 0..TrainRetries]]
<1>1. /\ training \in [Runs -> [Copies -> TrainerSteps]] /\ {"finalize", "giveup"} \subseteq TrainerSteps
      /\ retried \in [Runs -> [Copies -> 0..TrainRetries]]
  BY DEF TrainTypeOK, TrainerSteps
<1>2. CASE retried[r][c] < TrainRetries
  <2>1. retried[r][c] + 1 \in 0..TrainRetries
    BY <1>1, <1>2, TrainRetriesAssumption
  <2>2. /\ retried' = [retried EXCEPT ![r][c] = retried[r][c] + 1]
        /\ training' = [training EXCEPT ![r][c] = "finalize"]
    BY <1>1, <1>2 DEF FinalizeRaises
  <2>3. retried' \in [Runs -> [Copies -> 0..TrainRetries]]
    BY <1>1, <2>1, <2>2, NestedType
  <2>4. training' \in [Runs -> [Copies -> TrainerSteps]]
    BY <1>1, <2>2, NestedType
  <2>5. QED
    BY <2>3, <2>4
<1>3. CASE ~(retried[r][c] < TrainRetries)
  <2>1. retried' = retried /\ training' = [training EXCEPT ![r][c] = "giveup"]
    BY <1>3 DEF FinalizeRaises
  <2>2. training' \in [Runs -> [Copies -> TrainerSteps]]
    BY <1>1, <2>1, NestedType
  <2>3. QED
    BY <1>1, <2>1, <2>2
<1>4. QED
  BY <1>2, <1>3

LEMMA TrainWorkerType ==
  ASSUME TrainTypeOK, \A q \in Runs : RunStep(q), NEW r \in Runs, NEW c \in Copies,
         TrainWorker(r, c) \/ QlibDies(r, c)
  PROVE  TypedStep
<1> SUFFICES ASSUME \A q \in Runs : runStatus'[q] # "absent" PROVE TrainTypeOK'
  BY DEF TypedStep
<1>1. training' \in [Runs -> [Copies -> TrainerSteps]] /\ retried' \in [Runs -> [Copies -> 0..TrainRetries]]
  <2>1. CASE FinalizeRaises(r, c)
    BY <2>1, RaisesType
  <2>2. CASE UNCHANGED retried /\ \E from, to \in TrainerSteps : Trainer(r, c, from, to)
    BY <2>2, TrainerType DEF TrainTypeOK
  <2>3. QED
    BY ZenonT(60), <2>1, <2>2
       DEF TrainerSteps, TrainWorker, Train, ReadForFinalize, Accept, AcceptRaises, ReadForFail,
           GiveUpTraining, FinishTraining, QlibDies, TrainTypeOK
<1>2. runFaults' \in 0..MaxTrainFaults
  BY FaultType
     DEF TrainWorker, Train, ReadForFinalize, Accept, AcceptRaises, ReadForFail, GiveUpTraining,
         FinishTraining, QlibDies
<1>3. runStatus' \in [Runs -> RunStatuses]
  BY StatusTypes
     DEF TrainWorker, Train, ReadForFinalize, Accept, AcceptRaises, ReadForFail, GiveUpTraining,
         FinishTraining, QlibDies
<1>4. told' \in [Runs -> {"open", "completed", "failed"}] /\ runLost' \subseteq Runs
  BY DEF TrainTypeOK, TrainWorker, Train, ReadForFinalize, Accept, AcceptRaises, ReadForFail, GiveUpTraining,
         FinishTraining, QlibDies
<1>5. UNCHANGED <<requestVars, claims, job>>
  BY DEF TrainWorker, Train, ReadForFinalize, Accept, AcceptRaises, ReadForFail, GiveUpTraining,
         FinishTraining, QlibDies
<1>6. QED
  BY <1>1, <1>2, <1>3, <1>4, <1>5 DEF TrainTypeOK, requestVars, TrainerSteps

LEMMA CreateStep == ASSUME TrainInv, CreateExperiment PROVE TrainInv'
<1>1. NothingBegun
  BY DEF TrainInv, CreateExperiment
<1>2. \A r \in Runs : runStatus'[r] = "draft"
  BY DEF CreateExperiment
<1>3. TrainTypeOK'
  BY <1>1 DEF TrainInv, TrainTypeOK, CreateExperiment, RunStatuses, Fine
<1>4. QED
  BY <1>1, <1>2, <1>3 DEF TrainInv, NothingBegun, OneAtATime, CreateExperiment

(* Whoever else moves finds that the request has begun.                    *)
LEMMA OthersStep ==
  ASSUME TrainInv, Others
  PROVE  ~NothingBegun /\ api' # "idle" /\ OneAtATime'
<1> USE DEF TrainInv, OneAtATime
<1>1. CASE Requester
  BY <1>1 DEF NothingBegun, Requester, SubmitPreparation, SubmitRaises, Refused, StartPreparation,
              RefuseExperiment, QueueTraining, QueueRaises, ReadDraft, FailDraft
<1>2. CASE RequestDies
  BY <1>2 DEF NothingBegun, RequestDies
<1>3. ASSUME NEW r \in Runs, PromoteRun(r) PROVE ~NothingBegun /\ api' # "idle" /\ OneAtATime'
  BY <1>3 DEF NothingBegun, PromoteRun, Accepted, requestVars
<1>4. ASSUME NEW r \in Runs, NEW c \in Copies,
             Training(r, c) \/ TrainWorker(r, c) \/ JobDies(r, c) \/ QlibDies(r, c)
      PROVE  ~NothingBegun /\ api' # "idle" /\ OneAtATime'
  <2>1. UNCHANGED requestVars
    BY <1>4 DEF Training, ReadRun, Claim, ClaimRaises, SendToQlib, SendRaises, MarkDispatched, FailRun,
                ReportTrainingFailure, TrainWorker, Train, ReadForFinalize, Accept, AcceptRaises, ReadForFail,
                GiveUpTraining, FinishTraining, JobDies, QlibDies
  <2>2. ~NothingBegun
    BY <1>4 DEF NothingBegun, Training, ReadRun, Claim, ClaimRaises, SendToQlib, SendRaises, MarkDispatched,
                FailRun, ReportTrainingFailure, TrainWorker, Train, ReadForFinalize, Accept, AcceptRaises,
                ReadForFail, GiveUpTraining, FinishTraining, JobDies, QlibDies, Job, Trainer
  <2>3. QED
    BY <2>1, <2>2 DEF requestVars
<1>5. QED
  BY <1>1, <1>2, <1>3, <1>4 DEF Others

LEMMA TrainInvNext == TrainInv /\ [TrainNext]_trainVars => TrainInv'
<1> SUFFICES ASSUME TrainInv, [TrainNext]_trainVars PROVE TrainInv'
  OBVIOUS
<1>1. CASE CreateExperiment
  BY <1>1, CreateStep
<1>2. CASE Others
  <2>1. ~NothingBegun /\ api' # "idle" /\ OneAtATime'
    BY <1>2, OthersStep
  <2>2. \A q \in Runs : runStatus[q] # "absent"
    BY <2>1 DEF TrainInv
  <2>3. \A q \in Runs : RunStep(q)
    BY <1>2, RunSteps DEF TrainInv
  <2>4. \A q \in Runs : runStatus'[q] # "absent"
    BY <2>2, <2>3 DEF RunStep, Accepted
  <2>5. ASSUME NEW r \in Runs, PromoteRun(r) PROVE TypedStep
    BY <2>3, <2>5, StatusTypes, FaultType DEF TypedStep, PromoteRun, requestVars, TrainTypeOK, TrainInv
  <2>6. TypedStep
    BY <1>2, <2>3, <2>5, RequesterType, TrainingType, TrainWorkerType DEF Others, TrainInv
  <2>7. QED
    BY <2>1, <2>4, <2>6 DEF TypedStep, TrainInv
<1>3. CASE UNCHANGED trainVars
  BY <1>3 DEF trainVars, TrainInv, TrainTypeOK, OneAtATime, NothingBegun
<1>4. QED
  BY <1>1, <1>2, <1>3 DEF TrainNext, Others

(* The variables keep their types, and nothing is claimed or told of a run *)
(* before its row is written.  (QuantRepository.update_model_run)          *)
THEOREM TrainTyping == TrainSpec => []TrainTypeOK
<1>1. TrainInv => TrainTypeOK
  BY DEF TrainInv
<1>2. QED
  BY <1>1, TrainInvInit, TrainInvNext, PTL DEF TrainSpec

(* A failed run stays failed, and an accepted one accepted unless the API  *)
(* itself refuses the experiment, for any number of runs, retries and      *)
(* faults.  (update_model_run, QuantTrainingPipeline.fail and finalize)    *)
THEOREM VerdictStays == TrainSpec => ConclusionStays
<1>1. TrainInv /\ [TrainNext]_trainVars =>
        [\A r \in Runs :
           /\ runStatus[r] = "failed" => runStatus'[r] = "failed"
           /\ runStatus[r] \in Accepted => runStatus'[r] \in Accepted \/ api = "failing"]_trainVars
  <2> SUFFICES ASSUME TrainInv, TrainNext, NEW r \in Runs
               PROVE  /\ runStatus[r] = "failed" => runStatus'[r] = "failed"
                      /\ runStatus[r] \in Accepted => runStatus'[r] \in Accepted \/ api = "failing"
    OBVIOUS
  <2>1. CASE CreateExperiment
    BY <2>1 DEF CreateExperiment, TrainInv, NothingBegun, Accepted
  <2>2. CASE Others
    BY <2>2, RunSteps DEF TrainInv, RunStep, Accepted
  <2>3. QED
    BY <2>1, <2>2 DEF TrainNext, Others
<1>2. QED
  BY <1>1, TrainInvInit, TrainInvNext, PTL DEF TrainSpec, ConclusionStays

-----------------------------------------------------------------------------
(* The chains of snapshots                                                 *)

RunType == [at : {"idle", "plan", "compute", "store", "drop", "finished"},
            requested : Dates \cup {0}, periods : Seq(Chains), initial : Dates \cup {0},
            first : 0..(LastDate + 1), dates : SUBSET Dates, entry : SUBSET Snapshots,
            whole : BOOLEAN]

OneADay(entries) == \A e, f \in entries : e.date = f.date => e = f

(* A day is computed from bars, which only completed sessions have, and a  *)
(* run at work has a period and, before it is finished, a date.            *)
TrendTyped ==
    /\ completed \in TradingDates \cup {0}
    /\ bars \in [Dates -> SUBSET RowType]
    /\ \A d \in Dates : bars[d] # {} => d \in TradingDates /\ d <= completed
    /\ chain \in [Chains -> SUBSET Snapshots]
    /\ \A p \in Chains : OneADay(chain[p])
    /\ \A p \in Chains : \A e \in chain[p] : e.date \in TradingDates /\ e.date <= completed
    /\ run \in [TrendRuns -> RunType]

RunIsSound(r) ==
    /\ AtWork(r) => run[r].periods # <<>> /\ completed # 0
    /\ run[r].at \in {"compute", "store", "drop"} => run[r].dates # {}
    /\ run[r].at = "store" =>
         /\ CurrentDate(r) \in TradingDates /\ CurrentDate(r) <= completed
         /\ \E s \in Snapshots : s.date = CurrentDate(r) /\ run[r].entry = {s}

(* Nobody else is at work beside a run that may answer.                    *)
WorksAlone(r) ==
    run[r].whole /\ run[r].at \in {"compute", "store", "drop", "finished"}
      => \A s \in TrendRuns \ {r} : ~AtWork(s)

PreviousIn(entries, d) ==
    {e \in entries : /\ e.date < d /\ e.row.traded
                     /\ \A f \in entries : f.date < d /\ f.row.traded => f.date <= e.date}

GivenUp(entries, e, until) ==
    \E g \in entries : e.date < g.date /\ g.date <= until /\ BoxStart(g.date, g.row.box) > e.date

(* What a run has made so far: between two dates every session is stored   *)
(* and follows, and an episode is carried on until it is given up.         *)
Made(entries, from, to) ==
    /\ \A e \in entries : from <= e.date /\ e.date < to
         => e = SnapshotOf(e.date, e.row, PreviousIn(entries, e.date))
    /\ \A d \in TradingDates : from <= d /\ d < to => \E e \in entries : e.date = d
    /\ \A e, h \in entries :
         from <= e.date /\ e.date <= h.date /\ h.date < to /\ e.fresh /\ h.row.traded
           => h.episode >= e.date \/ GivenUp(entries, e, h.date)
    /\ \A e, f \in entries :
         from <= e.date /\ e.date < f.date /\ f.date < to /\ e.fresh /\ f.fresh
           => GivenUp(entries, e, f.date)

(* A run that nobody disturbs: what it has not reached is either to come   *)
(* and was there when it began, or is not there.                           *)
Underway(r) ==
    run[r].whole /\ run[r].at \in {"compute", "store", "drop"} =>
      /\ \A d \in run[r].dates : run[r].first <= d
      /\ \A d, e \in run[r].dates, t \in TradingDates : d <= t /\ t <= e => t \in run[r].dates
      /\ Made(chain[ChainOf(r)], run[r].first, CurrentDate(r))
      /\ run[r].at = "drop" \/ \A e \in chain[ChainOf(r)] :
           e.date >= CurrentDate(r) => e.date \in run[r].dates /\ e.date <= run[r].initial
      /\ run[r].at = "store" => \E row \in RowType :
           run[r].entry = {SnapshotOf(CurrentDate(r), row, PreviousIn(chain[ChainOf(r)], CurrentDate(r)))}

Answered(r) == Answers(r) => WholeFrom(ChainOf(r), run[r].first)

RunInv(r) == RunIsSound(r) /\ WorksAlone(r) /\ Underway(r) /\ Answered(r)

TrendInv == TrendTyped /\ \A r \in TrendRuns : RunInv(r)

(* What WholeFrom says, of a set of snapshots.                             *)
LatestIn(entries) ==
    IF entries = {} THEN 0 ELSE (CHOOSE e \in entries : \A f \in entries : f.date <= e.date).date

WholeIn(entries, first) ==
    LET tail == {e \in entries : e.date >= first} IN
    /\ \A e \in tail : e = SnapshotOf(e.date, e.row, PreviousIn(entries, e.date))
    /\ \A d \in TradingDates : first <= d /\ d <= LatestIn(entries) => \E e \in tail : e.date = d
    /\ \A e, f \in tail : e.fresh /\ f.fresh /\ e.date < f.date =>
         \E g \in tail : e.date < g.date /\ g.date <= f.date /\ BoxStart(g.date, g.row.box) > e.date

-----------------------------------------------------------------------------
LEMMA LeastOne ==
    ASSUME NEW S \in SUBSET Nat, S # {}
    PROVE  \E x \in S : \A y \in S : x <= y
  <1> DEFINE R == {ss \in Nat \X Nat : ss[1] < ss[2]}
  <1>1. IsWellFoundedOn(R, Nat)
        BY NatLessThanWellFounded DEF OpToRel
  <1>2. \A x, y \in Nat : <<y, x>> \in R <=> y < x
        OBVIOUS
  <1> HIDE DEF R
  <1>3. PICK x \in S : \A y \in S : ~ (<<y, x>> \in R)
        BY <1>1, WFMin
  <1>4. \A y \in S : x <= y
    <2> TAKE y \in S
    <2>1. x \in Nat /\ y \in Nat
          OBVIOUS
    <2>2. ~ (<<y, x>> \in R)
          BY <1>3
    <2>3. ~ (y < x)
          BY <1>2, <2>1, <2>2
    <2> QED BY <2>1, <2>3
  <1> QED BY <1>4


LEMMA DatesAre ==
    /\ LastDate \in Nat /\ Dates \subseteq Nat \ {0} /\ TradingDates \subseteq Dates
    /\ \A d \in Dates : d <= LastDate
  BY TrendAssumption DEF Dates

LEMMA DatesCount ==
    /\ \A d \in Dates : d \in Nat /\ d # 0
    /\ \A d \in Dates \cup {0} : d \in Nat
  <1>1. \A d \in Dates : d \in Nat /\ d # 0
        BY DatesAre
  <1>2. 0 \in Nat
        OBVIOUS
  <1> QED BY <1>1, <1>2

LEMMA EarliestIs ==
    ASSUME NEW S \in SUBSET Dates, S # {}
    PROVE  Earliest(S) \in S /\ \A d \in S : Earliest(S) <= d
  <1>1. S \in SUBSET Nat
        BY DatesAre
  <1>2. \E x \in S : \A y \in S : x <= y
        BY <1>1, LeastOne
  <1> QED BY <1>2 DEF Earliest

LEMMA LatestOne ==
    ASSUME NEW S \in SUBSET Dates, S # {}
    PROVE  \E x \in S : \A y \in S : y <= x
  <1> DEFINE T == {n \in Nat : LastDate - n \in S}
  <1>1. LastDate \in Nat /\ \A m \in S : m \in Nat /\ m <= LastDate
        BY DatesAre
  <1>2. \A m \in S : LastDate - m \in T
        BY <1>1
  <1>3. T \in SUBSET Nat /\ T # {}
        BY <1>2
  <1>4. PICK n \in T : \A k \in T : n <= k
        BY <1>3, LeastOne
  <1>5. \A y \in S : y <= LastDate - n
    <2> TAKE y \in S
    <2>1. n <= LastDate - y
          BY <1>2, <1>4
    <2> QED BY <1>1, <2>1
  <1> QED BY <1>4, <1>5

LEMMA BoxStartIs ==
    ASSUME NEW d \in Dates, NEW n \in 0..LastDate
    PROVE  BoxStart(d, n) \in Dates \cup {0}
  <1> DEFINE starts == {c \in TradingDates : Cardinality({t \in TradingDates : c <= t /\ t < d}) = n /\ c < d}
  <1>1. starts \in SUBSET Dates
        BY DatesAre
  <1>2. BoxStart(d, n) = IF starts = {} THEN 0 ELSE Earliest(starts)
        BY DEF BoxStart
  <1> HIDE DEF starts
  <1> QED BY <1>1, <1>2, EarliestIs

(* The snapshot before a date is one or none, and none only if nothing was *)
(* traded before.                                                          *)
LEMMA PreviousIs ==
    ASSUME NEW X \in SUBSET Snapshots, OneADay(X), NEW d \in Dates
    PROVE  /\ \A e \in PreviousIn(X, d) : PreviousIn(X, d) = {e}
           /\ \A e \in X : e.date < d /\ e.row.traded =>
                \E h \in PreviousIn(X, d) : h \in X /\ e.date <= h.date /\ h.date < d /\ h.row.traded
  <1>1. \A e \in X : e.date \in Dates /\ e.date \in Nat
        BY DatesAre DEF Snapshots
  <1>2. ASSUME NEW e \in PreviousIn(X, d), NEW f \in PreviousIn(X, d)
        PROVE  e = f
    <2>1. e \in X /\ f \in X /\ e.date <= f.date /\ f.date <= e.date
          BY <1>2 DEF PreviousIn
    <2>2. e.date = f.date
          BY <1>1, <2>1
    <2> QED BY <2>1, <2>2 DEF OneADay
  <1>3. ASSUME NEW e \in X, e.date < d, e.row.traded
        PROVE  \E h \in PreviousIn(X, d) : h \in X /\ e.date <= h.date /\ h.date < d /\ h.row.traded
    <2> DEFINE T == {c \in Dates : \E h \in X : h.date = c /\ c < d /\ h.row.traded}
    <2>1. e.date \in T /\ T \in SUBSET Dates
          BY <1>1, <1>3
    <2>2. PICK c \in T : \A b \in T : b <= c
          BY <2>1, LatestOne
    <2>3. PICK h \in X : h.date = c /\ c < d /\ h.row.traded
          BY <2>2
    <2>4. \A f \in X : f.date < d /\ f.row.traded => f.date <= h.date
          BY <1>1, <2>2, <2>3
    <2>5. h \in PreviousIn(X, d)
          BY <2>3, <2>4 DEF PreviousIn
    <2>6. e.date <= h.date
          BY <2>1, <2>2, <2>3
    <2> QED BY <2>3, <2>5, <2>6
  <1> QED BY <1>2, <1>3

LEMMA InheritedIs ==
    ASSUME NEW d \in Dates, NEW row \in RowType, NEW e \in Snapshots
    PROVE  /\ Inherited(d, row, {}) = 0
           /\ Inherited(d, row, {e}) =
                IF e.episode # 0 /\ ~(row.box # 0 /\ BoxStart(d, row.box) > e.episode)
                THEN e.episode ELSE 0
           /\ Inherited(d, row, {e}) \in Dates \cup {0}
  <1>1. (CHOOSE s \in {e} : TRUE) = e
        OBVIOUS
  <1>2. e.episode \in Dates \cup {0}
        BY DEF Snapshots
  <1> QED BY <1>1, <1>2 DEF Inherited

LEMMA StateAfterIs ==
    ASSUME NEW row, NEW before
    PROVE  StateAfter(row, before) \in States
  BY DEF StateAfter, States

(* What a traded day, and one that is not, makes of the snapshot before.   *)
LEMMA SnapshotIs ==
    ASSUME NEW d \in Dates, NEW row \in RowType, NEW before \in SUBSET Snapshots,
           \A e \in before : before = {e}
    PROVE  LET s == SnapshotOf(d, row, before) IN
           /\ s \in Snapshots /\ s.date = d /\ s.row = row
           /\ s.fresh => row.traded /\ row.box # 0 /\ Inherited(d, row, before) = 0 /\ s.episode = d
           /\ row.traded /\ ~s.fresh => s.episode = Inherited(d, row, before)
           /\ s.fresh \in BOOLEAN
  <1> DEFINE I == Inherited(d, row, before)
             F == row.box # 0 /\ row.breakout /\ I = 0
             A == StateAfter(row, before)
             s == SnapshotOf(d, row, before)
  <1>1. I \in Dates \cup {0}
    <2>1. CASE before = {}
          BY <2>1 DEF Inherited
    <2>2. CASE before # {}
      <3>1. PICK e \in before : TRUE
            BY <2>2
      <3>2. before = {e}
            BY <3>1
      <3>3. e \in Snapshots
            BY <3>1
      <3>4. Inherited(d, row, {e}) \in Dates \cup {0}
            BY <3>3, InheritedIs
      <3> QED BY <3>2, <3>4
    <2> QED BY <2>1, <2>2
  <1>2. A \in States
        BY StateAfterIs
  <1>3. CASE row.traded /\ F
    <2>1. s = [date |-> d, row |-> row, state |-> A, episode |-> d, fresh |-> TRUE]
          BY <1>3 DEF SnapshotOf
    <2> HIDE DEF s, A, I
    <2>2. s \in Snapshots /\ s.date = d /\ s.row = row /\ s.episode = d /\ s.fresh = TRUE
          BY <1>2, <2>1 DEF Snapshots
    <2>3. row.traded /\ row.box # 0 /\ I = 0
          BY <1>3
    <2> QED BY <2>2, <2>3 DEF s, I
  <1>4. CASE row.traded /\ ~F
    <2>1. s = [date |-> d, row |-> row, state |-> A, episode |-> I, fresh |-> FALSE]
          BY <1>4 DEF SnapshotOf
    <2> HIDE DEF s, A, I
    <2>2. s \in Snapshots /\ s.date = d /\ s.row = row /\ s.episode = I /\ s.fresh = FALSE
          BY <1>1, <1>2, <2>1 DEF Snapshots
    <2> QED BY <2>2 DEF s, I
  <1>5. CASE ~row.traded
    <2>1. s = [date |-> d, row |-> row, state |-> "none", episode |-> 0, fresh |-> FALSE]
          BY <1>5 DEF SnapshotOf
    <2> HIDE DEF s
    <2>2. s \in Snapshots /\ s.date = d /\ s.row = row /\ s.fresh = FALSE
          BY <2>1 DEF Snapshots, States
    <2> QED BY <1>5, <2>2 DEF s
  <1> QED BY <1>3, <1>4, <1>5

(* A day more: the new snapshot follows, inherits or gives up.             *)
LEMMA OneDayMore ==
    ASSUME NEW X \in SUBSET Snapshots, OneADay(X), NEW from \in Nat, NEW c \in Dates, from <= c,
           Made(X, from, c), NEW row \in RowType,
           NEW s, s = SnapshotOf(c, row, PreviousIn(X, c)),
           NEW Y, Y = {e \in X : e.date # c} \cup {s}
    PROVE  Made(Y, from, c + 1)
  <1> DEFINE B == PreviousIn(X, c)
             I == Inherited(c, row, B)
  <1>1. /\ c \in Nat /\ \A e \in X : e.date \in Nat
        BY DatesAre DEF Snapshots
  <1>2. B \in SUBSET Snapshots /\ \A e \in B : B = {e}
        BY PreviousIs DEF PreviousIn
  <1>3. /\ s \in Snapshots /\ s.date = c /\ s.row = row
        /\ s.fresh => row.traded /\ row.box # 0 /\ I = 0 /\ s.episode = c
        /\ row.traded /\ ~s.fresh => s.episode = I
    <2> HIDE DEF B, I
    <2> QED BY <1>2, SnapshotIs DEF B, I
  <1> HIDE DEF I
  <1>4. \A e \in Y : e.date \in Nat /\ (e = s \/ (e \in X /\ e.date # c))
        BY <1>1, <1>3
  <1>5. \A e \in X : e.date < c => e \in Y
        BY <1>1
  <1>6. \A d \in Nat : d <= c => PreviousIn(Y, d) = PreviousIn(X, d)
    <2> TAKE d \in Nat
    <2> HAVE d <= c
    <2>1. \A e : e \in Y /\ e.date < d <=> e \in X /\ e.date < d
          BY <1>1, <1>3, <1>4, <1>5
    <2> QED BY <2>1 DEF PreviousIn
  <1>7. s \in Y
        OBVIOUS
  <1> HIDE DEF B
  <1>8. \A e \in Y : from <= e.date /\ e.date < c + 1
          => e = SnapshotOf(e.date, e.row, PreviousIn(Y, e.date))
    <2> TAKE e \in Y
    <2> HAVE from <= e.date /\ e.date < c + 1
    <2>1. e.date <= c /\ PreviousIn(Y, e.date) = PreviousIn(X, e.date)
          BY <1>1, <1>4, <1>6
    <2>2. CASE e = s
          BY <1>3, <2>1, <2>2
    <2>3. CASE e \in X /\ e.date # c
      <3>1. e.date < c
            BY <1>1, <2>1, <2>3
      <3> QED BY <2>1, <2>3, <3>1 DEF Made
    <2> QED BY <1>4, <2>2, <2>3
  <1>9. \A d \in TradingDates : from <= d /\ d < c + 1 => \E e \in Y : e.date = d
    <2> TAKE d \in TradingDates
    <2> HAVE from <= d /\ d < c + 1
    <2>1. d \in Nat
          BY DatesAre
    <2>2. CASE d = c
          BY <1>3, <1>7, <2>2
    <2>3. CASE d # c
      <3>1. d < c
            BY <1>1, <2>1, <2>3
      <3> QED BY <1>5, <3>1 DEF Made
    <2> QED BY <2>2, <2>3
  <1>14. \A e \in X : from <= e.date /\ e.date < c /\ e.fresh => e.row.traded
    <2> TAKE e \in X
    <2> HAVE from <= e.date /\ e.date < c /\ e.fresh
    <2>1. e = SnapshotOf(e.date, e.row, PreviousIn(X, e.date))
          BY DEF Made
    <2>2. e.date \in Dates /\ e.row \in RowType
          BY DEF Snapshots
    <2>3. PreviousIn(X, e.date) \in SUBSET Snapshots
          BY DEF PreviousIn
    <2>4. \A h \in PreviousIn(X, e.date) : PreviousIn(X, e.date) = {h}
          BY <2>2, PreviousIs
    <2>5. PICK b \in SUBSET Snapshots : b = PreviousIn(X, e.date)
          BY <2>3
    <2>6. SnapshotOf(e.date, e.row, b).fresh => e.row.traded
          BY <2>2, <2>4, <2>5, SnapshotIs
    <2> QED BY <2>1, <2>5, <2>6
  (* The episode of a traded day, when one began before. *)
  <1>10. ASSUME NEW e \in X, from <= e.date, e.date < c, e.fresh, e.row.traded, row.traded
         PROVE  /\ s.episode >= e.date \/ BoxStart(c, row.box) > e.date \/ GivenUp(X, e, c - 1)
                /\ s.fresh => BoxStart(c, row.box) > e.date \/ GivenUp(X, e, c - 1)
    <2>1. PICK h \in B : h \in X /\ e.date <= h.date /\ h.date < c /\ h.row.traded
          BY <1>10, PreviousIs DEF B
    <2>2. B = {h} /\ h \in Snapshots
          BY <1>2, <2>1
    <2>3. h.episode >= e.date \/ GivenUp(X, e, h.date)
          BY <1>10, <2>1 DEF Made
    <2>4. CASE GivenUp(X, e, h.date)
      <3>1. \A n \in Nat : n <= h.date => n <= c - 1
            BY <1>1, <2>1
      <3>2. GivenUp(X, e, c - 1)
            BY <1>1, <2>4, <3>1 DEF GivenUp
      <3> QED BY <3>2
    <2>5. CASE h.episode >= e.date
      <3>1. I = IF h.episode # 0 /\ ~(row.box # 0 /\ BoxStart(c, row.box) > h.episode)
                THEN h.episode ELSE 0
            BY <2>2, InheritedIs DEF I
      <3>2. h.episode \in Nat /\ h.episode # 0 /\ e.date \in Nat
        <4>1. h.episode \in Dates \cup {0} /\ e.date \in Dates
              BY <2>2 DEF Snapshots
        <4>2. h.episode \in Nat /\ e.date \in Nat /\ e.date # 0
              BY <4>1, DatesCount
        <4> QED BY <2>5, <4>2
      <3>3. BoxStart(c, row.box) \in Nat
        <4>1. row.box \in 0..LastDate
              BY DEF RowType
        <4>2. BoxStart(c, row.box) \in Dates \cup {0}
              BY <4>1, BoxStartIs
        <4> QED BY <4>2, DatesCount
      <3>4. CASE BoxStart(c, row.box) > h.episode
        <4>1. BoxStart(c, row.box) > e.date
              BY <2>5, <3>2, <3>3, <3>4
        <4> QED BY <4>1
      <3>5. CASE ~(BoxStart(c, row.box) > h.episode)
        <4>1. I = h.episode /\ I # 0
              BY <3>1, <3>2, <3>5
        <4>2. ~s.fresh
              BY <1>3, <4>1
        <4>3. s.episode >= e.date
              BY <1>3, <1>10, <2>5, <4>1, <4>2
        <4> QED BY <4>2, <4>3
      <3> QED BY <3>4, <3>5
    <2> QED BY <2>3, <2>4, <2>5
  <1>11. \A e \in X, d \in Nat : e.date < c /\ d < c /\ GivenUp(X, e, d) => GivenUp(Y, e, d)
    <2> TAKE e \in X, d \in Nat
    <2> HAVE e.date < c /\ d < c /\ GivenUp(X, e, d)
    <2>1. PICK g \in X : e.date < g.date /\ g.date <= d /\ BoxStart(g.date, g.row.box) > e.date
          BY DEF GivenUp
    <2>2. g \in Y
          BY <1>1, <1>5, <2>1
    <2> QED BY <2>1, <2>2 DEF GivenUp
  <1>12. \A e \in X : e.date < c /\ (BoxStart(c, row.box) > e.date \/ GivenUp(X, e, c - 1))
           => GivenUp(Y, e, c)
    <2> TAKE e \in X
    <2> HAVE e.date < c /\ (BoxStart(c, row.box) > e.date \/ GivenUp(X, e, c - 1))
    <2>1. CASE BoxStart(c, row.box) > e.date
      <3>1. e.date < s.date /\ s.date <= c /\ BoxStart(s.date, s.row.box) > e.date
            BY <1>1, <1>3, <2>1
      <3> QED BY <1>7, <3>1 DEF GivenUp
    <2>2. CASE GivenUp(X, e, c - 1)
      <3>1. PICK g \in X : e.date < g.date /\ g.date <= c - 1 /\ BoxStart(g.date, g.row.box) > e.date
            BY <2>2 DEF GivenUp
      <3>2. g.date < c /\ g.date <= c
            BY <1>1, <3>1
      <3>3. g \in Y
            BY <1>5, <3>2
      <3> QED BY <3>1, <3>2, <3>3 DEF GivenUp
    <2> QED BY <2>1, <2>2
  <1>13. \A e, h \in Y :
           from <= e.date /\ e.date <= h.date /\ h.date < c + 1 /\ e.fresh /\ h.row.traded
             => h.episode >= e.date \/ GivenUp(Y, e, h.date)
    <2> TAKE e \in Y, h \in Y
    <2> HAVE from <= e.date /\ e.date <= h.date /\ h.date < c + 1 /\ e.fresh /\ h.row.traded
    <2>1. e.date \in Nat /\ h.date \in Nat /\ h.date <= c
          BY <1>1, <1>4
    <2>2. CASE h.date # c
      <3>1. e.date < c /\ h.date < c /\ e.date # c
            BY <1>1, <2>1, <2>2
      <3>2. e \in X /\ h \in X
            BY <1>3, <1>4, <3>1
      <3>3. h.episode >= e.date \/ GivenUp(X, e, h.date)
            BY <3>1, <3>2 DEF Made
      <3> QED BY <1>11, <2>1, <3>1, <3>2, <3>3
    <2>3. CASE h.date = c /\ e.date = c
      <3>1. h = s /\ e = s
            BY <1>4, <2>3
      <3>2. s.episode = c
            BY <1>3, <3>1
      <3> QED BY <1>1, <2>3, <3>1, <3>2
    <2>4. CASE h.date = c /\ e.date # c
      <3>1. h = s /\ e \in X /\ e.date < c
            BY <1>1, <1>3, <1>4, <2>1, <2>4
      <3>2. e.row.traded
        <4>1. from <= e.date /\ e.fresh
              OBVIOUS
        <4> QED BY <1>14, <3>1, <4>1
      <3>3. row.traded /\ from <= e.date /\ e.fresh
            BY <1>3, <3>1
      <3>4. s.episode >= e.date \/ BoxStart(c, row.box) > e.date \/ GivenUp(X, e, c - 1)
            BY <1>10, <3>1, <3>2, <3>3
      <3>5. s.episode >= e.date \/ GivenUp(Y, e, c)
            BY <1>12, <3>1, <3>4
      <3> QED BY <2>4, <3>1, <3>5
    <2> QED BY <2>2, <2>3, <2>4
  <1>15. \A e, f \in Y :
           from <= e.date /\ e.date < f.date /\ f.date < c + 1 /\ e.fresh /\ f.fresh
             => GivenUp(Y, e, f.date)
    <2> TAKE e \in Y, f \in Y
    <2> HAVE from <= e.date /\ e.date < f.date /\ f.date < c + 1 /\ e.fresh /\ f.fresh
    <2>1. e.date \in Nat /\ f.date \in Nat /\ f.date <= c /\ e.date < c
          BY <1>1, <1>4
    <2>2. e \in X
          BY <1>3, <1>4, <2>1
    <2>3. CASE f.date # c
      <3>1. f \in X /\ f.date < c
            BY <1>1, <1>3, <1>4, <2>1, <2>3
      <3>2. GivenUp(X, e, f.date)
            BY <2>2, <3>1 DEF Made
      <3> QED BY <1>11, <2>1, <2>2, <3>1, <3>2
    <2>4. CASE f.date = c
      <3>1. f = s
            BY <1>4, <2>4
      <3>2. e.row.traded /\ row.traded /\ s.fresh
            BY <1>3, <1>14, <2>1, <2>2, <3>1
      <3>3. BoxStart(c, row.box) > e.date \/ GivenUp(X, e, c - 1)
            BY <1>10, <2>1, <2>2, <3>2
      <3> QED BY <1>12, <2>1, <2>2, <2>4, <3>3
    <2> QED BY <2>3, <2>4
  <1> QED BY <1>8, <1>9, <1>13, <1>15 DEF Made

LEMMA MadeFurther ==
    ASSUME NEW X \in SUBSET Snapshots, NEW from \in Nat, NEW c \in Nat, NEW b \in Nat, c < b,
           Made(X, from, c + 1),
           \A d \in TradingDates : ~(c < d /\ d < b),
           \A e \in X : ~(c < e.date /\ e.date < b)
    PROVE  Made(X, from, b)
  <1>1. \A e \in X : e.date \in Nat
        BY DatesCount DEF Snapshots
  <1>2. \A d \in TradingDates : d \in Nat
        BY DatesAre
  <1>3. \A e \in X : e.date < b => e.date < c + 1
        BY <1>1
  <1>4. \A d \in TradingDates : d < b => d < c + 1
        BY <1>2
  <1> QED BY <1>3, <1>4 DEF Made

LEMMA LatestIs ==
    ASSUME NEW X \in SUBSET Snapshots
    PROVE  /\ X = {} => LatestIn(X) = 0
           /\ X # {} => \E e \in X : LatestIn(X) = e.date
           /\ \A e \in X : e.date <= LatestIn(X)
           /\ LatestIn(X) \in Dates \cup {0}
  <1>1. CASE X = {}
        BY <1>1 DEF LatestIn
  <1>2. CASE X # {}
    <2> DEFINE T == {c \in Dates : \E h \in X : h.date = c}
    <2>1. \A e \in X : e.date \in Dates
          BY DEF Snapshots
    <2>2. T # {} /\ T \in SUBSET Dates
          BY <1>2, <2>1
    <2>3. PICK c \in T : \A b \in T : b <= c
          BY <2>2, LatestOne
    <2>4. PICK h \in X : h.date = c
          BY <2>3
    <2>5. \A f \in X : f.date <= h.date
          BY <2>1, <2>3, <2>4
    <2> DEFINE m == CHOOSE e \in X : \A f \in X : f.date <= e.date
    <2>6. m \in X /\ \A f \in X : f.date <= m.date
          BY <2>4, <2>5
    <2>7. LatestIn(X) = m.date
          BY <1>2 DEF LatestIn
    <2> HIDE DEF m
    <2> QED BY <1>2, <2>1, <2>6, <2>7
  <1> QED BY <1>1, <1>2

LEMMA MadeIsWhole ==
    ASSUME NEW X \in SUBSET Snapshots, NEW from \in Nat, NEW c \in Nat,
           Made(X, from, c), \A e \in X : e.date < c
    PROVE  WholeIn(X, from)
  <1>1. \A e \in X : e.date \in Nat
        BY DatesCount DEF Snapshots
  <1>2. \A e \in {e \in X : e.date >= from} : e = SnapshotOf(e.date, e.row, PreviousIn(X, e.date))
        BY <1>1 DEF Made
  <1>3. \A d \in TradingDates : from <= d /\ d <= LatestIn(X) => \E e \in {e \in X : e.date >= from} : e.date = d
    <2> TAKE d \in TradingDates
    <2> HAVE from <= d /\ d <= LatestIn(X)
    <2>1. d \in Nat /\ d # 0
          BY DatesAre
    <2>2. PICK e \in X : LatestIn(X) = e.date
          BY <2>1, LatestIs
    <2>3. d < c
          BY <1>1, <2>1, <2>2
    <2>4. PICK h \in X : h.date = d
          BY <2>3 DEF Made
    <2> QED BY <2>1, <2>4
  <1>4. \A e, f \in {e \in X : e.date >= from} : e.fresh /\ f.fresh /\ e.date < f.date =>
         \E g \in {g \in X : g.date >= from} :
           e.date < g.date /\ g.date <= f.date /\ BoxStart(g.date, g.row.box) > e.date
    <2> TAKE e \in {e1 \in X : e1.date >= from}, f \in {e2 \in X : e2.date >= from}
    <2> HAVE e.fresh /\ f.fresh /\ e.date < f.date
    <2>1. e \in X /\ f \in X /\ from <= e.date /\ f.date < c
          BY <1>1
    <2>2. GivenUp(X, e, f.date)
          BY <2>1 DEF Made
    <2>3. PICK g \in X : e.date < g.date /\ g.date <= f.date /\ BoxStart(g.date, g.row.box) > e.date
          BY <2>2 DEF GivenUp
    <2>4. g.date >= from
          BY <1>1, <2>1, <2>3
    <2> QED BY <2>3, <2>4
  <1> QED BY <1>2, <1>3, <1>4 DEF WholeIn

LEMMA WholeFromIs ==
    ASSUME NEW p, NEW f
    PROVE  /\ WholeFrom(p, f) <=> WholeIn(chain[p], f)
           /\ WholeFrom(p, f)' <=> WholeIn(chain'[p], f)
  <1>1. LatestStored(p) = LatestIn(chain[p]) /\ LatestStored(p)' = LatestIn(chain'[p])
        BY DEF LatestStored, LatestIn
  <1>2. \A d : Previous(p, d) = PreviousIn(chain[p], d) /\ Previous(p, d)' = PreviousIn(chain'[p], d)
        BY DEF Previous, PreviousIn
  <1>3. \A e : Follows(p, e) <=> e = SnapshotOf(e.date, e.row, PreviousIn(chain[p], e.date))
        BY <1>2 DEF Follows
  <1>4. \A e : Follows(p, e)' <=> e = SnapshotOf(e.date, e.row, PreviousIn(chain'[p], e.date))
        BY <1>2 DEF Follows
  <1>5. WholeFrom(p, f) <=> WholeIn(chain[p], f)
        BY <1>1, <1>3 DEF WholeFrom, WholeIn
  <1>6. WholeFrom(p, f)' <=> WholeIn(chain'[p], f)
        BY <1>1, <1>4 DEF WholeFrom, WholeIn
  <1> QED BY <1>5, <1>6

-----------------------------------------------------------------------------
(* The steps.                                                              *)

LEMMA RunOf ==
    ASSUME TrendInv, NEW r \in TrendRuns
    PROVE  /\ run[r] \in RunType /\ RunInv(r)
           /\ AtWork(r) => ChainOf(r) \in Chains /\ chain[ChainOf(r)] \in SUBSET Snapshots
                             /\ OneADay(chain[ChainOf(r)])
           /\ run[r].dates \in SUBSET Dates
           /\ run[r].dates # {} => /\ CurrentDate(r) \in Dates /\ CurrentDate(r) \in run[r].dates
                                   /\ \A d \in run[r].dates : CurrentDate(r) <= d
  <1>1. run[r] \in RunType /\ RunInv(r)
        BY DEF TrendInv, TrendTyped
  <1>2. run[r].dates \in SUBSET Dates /\ run[r].periods \in Seq(Chains)
        BY <1>1 DEF RunType
  <1>3. ASSUME AtWork(r)
        PROVE  ChainOf(r) \in Chains
    <2>1. run[r].periods # <<>>
          BY <1>1, <1>3 DEF RunInv, RunIsSound
    <2> QED BY <1>2, <2>1 DEF ChainOf
  <1>4. ASSUME AtWork(r)
        PROVE  chain[ChainOf(r)] \in SUBSET Snapshots /\ OneADay(chain[ChainOf(r)])
        BY <1>3, <1>4 DEF TrendInv, TrendTyped
  <1>5. ASSUME run[r].dates # {}
        PROVE  /\ CurrentDate(r) \in Dates /\ CurrentDate(r) \in run[r].dates
               /\ \A d \in run[r].dates : CurrentDate(r) <= d
    <2>1. PICK D \in SUBSET Dates : D = run[r].dates
          BY <1>2
    <2>2. Earliest(D) \in D /\ \A d \in D : Earliest(D) <= d
          BY <1>5, <2>1, EarliestIs
    <2>3. CurrentDate(r) = Earliest(D)
          BY <2>1 DEF CurrentDate
    <2> QED BY <2>1, <2>2, <2>3
  <1> QED BY <1>1, <1>2, <1>3, <1>4, <1>5

(* Beside a run at work no other one answers for anything.                 *)
LEMMA OthersStand ==
    ASSUME TrendInv, NEW r \in TrendRuns, AtWork(r), UNCHANGED completed,
           NEW s \in TrendRuns, s # r, run'[s] = run[s]
    PROVE  RunInv(s)'
  <1>1. RunIsSound(s) /\ WorksAlone(s)
        BY DEF TrendInv, RunInv
  <1>2. RunIsSound(s)'
        BY <1>1 DEF RunIsSound, AtWork, CurrentDate
  <1>3. ~(run[s].whole /\ run[s].at \in {"compute", "store", "drop", "finished"})
        BY <1>1 DEF WorksAlone
  <1>4. WorksAlone(s)'
        BY <1>3 DEF WorksAlone
  <1>5. Underway(s)'
        BY <1>3 DEF Underway
  <1>6. ~Answers(s)'
        BY <1>3 DEF Answers
  <1> QED BY <1>2, <1>4, <1>5, <1>6 DEF RunInv, Answered

LEMMA TrendStarts == TrendInit => TrendInv
  <1> SUFFICES ASSUME TrendInit PROVE TrendInv
        OBVIOUS
  <1>1. NoRun \in RunType
    <2>1. <<>> \in Seq(Chains) /\ 0 \in 0..(LastDate + 1)
          BY DatesAre
    <2> QED BY <2>1 DEF NoRun, RunType
  <1>2. TrendTyped
    <2>1. \A p \in Chains : chain[p] = {}
          BY DEF TrendInit
    <2>2. \A d \in Dates : bars[d] = {}
          BY DEF TrendInit
    <2>3. \A p \in Chains : OneADay(chain[p]) /\ \A e \in chain[p] : e.date \in TradingDates /\ e.date <= completed
          BY <2>1 DEF OneADay
    <2> QED BY <1>1, <2>2, <2>3 DEF TrendTyped, TrendInit
  <1>3. ASSUME NEW r \in TrendRuns
        PROVE  RunInv(r)
    <2>1. run[r] = NoRun /\ run[r].at = "idle"
          BY DEF TrendInit, NoRun
    <2> QED BY <2>1 DEF RunInv, RunIsSound, AtWork, WorksAlone, Underway, Answered, Answers
  <1> QED BY <1>2, <1>3 DEF TrendInv

(* What changes around the runs does not touch the chains.                 *)
LEMMA AroundKeeps ==
    ASSUME TrendInv, UNCHANGED <<chain, run>>, completed' \in TradingDates \cup {0},
           completed <= completed'
    PROVE  \A r \in TrendRuns : RunInv(r)'
  <1> TAKE r \in TrendRuns
  <1>1. RunInv(r) /\ run[r] \in RunType
        BY RunOf
  <1>2. completed \in Nat /\ completed' \in Nat
        BY DatesCount, DatesAre DEF TrendInv, TrendTyped
  <1>3. RunIsSound(r)'
    <2>1. \A d \in Dates : d <= completed => d <= completed'
          BY <1>2, DatesCount
    <2>2. completed # 0 => completed' # 0
          BY <1>2
    <2> QED BY <1>1, <2>1, <2>2, DatesAre DEF RunInv, RunIsSound, AtWork, CurrentDate
  <1>4. WorksAlone(r)'
        BY <1>1 DEF RunInv, WorksAlone, AtWork
  <1>5. Underway(r)'
        BY <1>1 DEF RunInv, Underway, CurrentDate, ChainOf
  <1>6. Answered(r)'
    <2>1. PICK p : p = ChainOf(r)
          OBVIOUS
    <2>2. PICK f : f = run[r].first
          OBVIOUS
    <2>3. ChainOf(r)' = p /\ run'[r].first = f
          BY <2>1, <2>2 DEF ChainOf
    <2>4. Answers(r)' => Answers(r)
          BY DEF Answers
    <2>5. Answers(r) => WholeIn(chain[p], f)
          BY <1>1, <2>1, <2>2, WholeFromIs DEF RunInv, Answered
    <2>6. Answers(r)' => WholeFrom(p, f)'
          BY <2>4, <2>5, WholeFromIs
    <2>7. (Answers(r) => WholeFrom(ChainOf(r), run[r].first))'
          BY <2>3, <2>6
    <2> QED BY <2>7 DEF Answered
  <1> QED BY <1>3, <1>4, <1>5, <1>6 DEF RunInv

LEMMA CompletedIs ==
    ASSUME TrendInv
    PROVE  completed \in TradingDates \cup {0} /\ completed \in Nat /\ completed <= completed
  <1>1. completed \in TradingDates \cup {0}
        BY DEF TrendInv, TrendTyped
  <1>2. completed \in Dates \cup {0}
        BY <1>1, DatesAre
  <1>3. completed \in Nat
        BY <1>2, DatesCount
  <1> QED BY <1>1, <1>3

LEMMA SessionCompletesKeeps == ASSUME TrendInv, SessionCompletes PROVE TrendInv'
  <1> DEFINE later == {d \in TradingDates : d > completed}
  <1>1. later \in SUBSET Dates /\ later # {} /\ completed' = Earliest(later)
        BY DatesAre DEF SessionCompletes
  <1>2. completed' \in later
    <2> HIDE DEF later
    <2> QED BY <1>1, EarliestIs
  <1>3. completed \in Nat /\ completed' \in Nat /\ completed' \in TradingDates /\ completed <= completed'
        BY <1>2, DatesCount, DatesAre DEF TrendInv, TrendTyped
  <1>4. UNCHANGED <<bars, chain, run>>
        BY DEF SessionCompletes
  <1>5. \A d \in Dates : d <= completed => d <= completed'
        BY <1>3, DatesCount
  <1>6. TrendTyped'
        BY <1>3, <1>4, <1>5, DatesAre DEF TrendInv, TrendTyped
  <1> QED BY <1>3, <1>4, <1>6, AroundKeeps DEF TrendInv

LEMMA BarsKeep ==
    ASSUME TrendInv, NEW d \in Dates, BarsArrive(d) \/ BarsChange(d)
    PROVE  TrendInv'
  <1>1. d \in TradingDates /\ d <= completed
        BY DEF BarsArrive, BarsChange, TrendInv, TrendTyped
  <1>2. PICK row \in Rows[d] : bars' = [bars EXCEPT ![d] = {row}]
        BY DEF BarsArrive, BarsChange
  <1>3. UNCHANGED <<completed, chain, run>>
        BY DEF BarsArrive, BarsChange
  <1>4. row \in RowType
        BY TrendAssumption
  <1>5. completed \in Nat /\ completed' \in TradingDates \cup {0} /\ completed <= completed'
        BY <1>3, CompletedIs
  <1>6. bars' \in [Dates -> SUBSET RowType] /\ \A b \in Dates : b # d => bars'[b] = bars[b]
        BY <1>2, <1>4 DEF TrendInv, TrendTyped
  <1>7. \A b \in Dates : bars'[b] # {} => b \in TradingDates /\ b <= completed'
        BY <1>1, <1>3, <1>6 DEF TrendInv, TrendTyped
  <1>8. TrendTyped'
        BY <1>3, <1>6, <1>7 DEF TrendInv, TrendTyped
  <1> QED BY <1>3, <1>5, <1>8, AroundKeeps DEF TrendInv

(* A step of a run that leaves no work behind that could answer.           *)
LEMMA OneRunMoves ==
    ASSUME TrendInv, NEW r \in TrendRuns, AtWork(r), UNCHANGED completed,
           \A s \in TrendRuns \ {r} : run'[s] = run[s],
           TrendTyped', RunInv(r)'
    PROVE  TrendInv'
  <1>1. \A s \in TrendRuns : RunInv(s)'
    <2> TAKE s \in TrendRuns
    <2>1. CASE s = r
          BY <2>1
    <2>2. CASE s # r
          BY <2>2, OthersStand
    <2> QED BY <2>1, <2>2
  <1> QED BY <1>1 DEF TrendInv

LEMMA NoAnswer ==
    ASSUME NEW r \in TrendRuns, run'[r].at \in {"idle", "plan"},
           run'[r].at = "plan" => run'[r].periods # <<>> /\ completed' # 0
    PROVE  RunInv(r)'
  BY DEF RunInv, RunIsSound, AtWork, WorksAlone, Underway, Answered, Answers

LEMMA StartTrendKeeps ==
    ASSUME TrendInv, NEW r \in TrendRuns, StartTrend(r)
    PROVE  TrendInv'
  <1>1. PICK requested \in AskedDates \cup {0}, periods \in {TrendPeriods} \cup {<<p>> : p \in Chains} :
           run' = [s \in TrendRuns |->
                     IF s = r THEN [NoRun EXCEPT !.at = "plan", !.requested = requested, !.periods = periods]
                     ELSE [run[s] EXCEPT !.whole = ~AtWork(s)]]
        BY DEF StartTrend
  <1>2. UNCHANGED <<completed, bars, chain>>
        BY DEF StartTrend
  <1>3. requested \in Dates \cup {0} /\ periods \in Seq(Chains) /\ periods # <<>>
    <2>1. requested \in Dates \cup {0}
          BY TrendAssumption
    <2>2. TrendPeriods \in Seq(Chains) /\ TrendPeriods # <<>>
          BY TrendAssumption
    <2>3. \A p \in Chains : <<p>> \in Seq(Chains) /\ <<p>> # <<>>
          OBVIOUS
    <2> QED BY <2>1, <2>2, <2>3
  <1>4. run'[r] = [at |-> "plan", requested |-> requested, periods |-> periods, initial |-> 0,
                   first |-> 0, dates |-> {}, entry |-> {}, whole |-> TRUE]
        BY <1>1 DEF NoRun
  <1>5. run'[r] \in RunType /\ run'[r].at = "plan" /\ run'[r].periods # <<>>
    <2>1. 0 \in 0..(LastDate + 1)
          BY DatesAre
    <2> QED BY <1>3, <1>4, <2>1 DEF RunType
  <1>6. ASSUME NEW s \in TrendRuns, s # r
        PROVE  /\ run'[s] \in RunType /\ run'[s].at = run[s].at /\ run'[s].periods = run[s].periods
               /\ run'[s].dates = run[s].dates /\ run'[s].entry = run[s].entry
               /\ AtWork(s) => ~run'[s].whole
    <2>1. run[s] \in RunType
          BY RunOf
    <2>2. run'[s] = [run[s] EXCEPT !.whole = ~AtWork(s)]
          BY <1>1, <1>6
    <2>3. CASE AtWork(s)
      <3>1. run'[s] = [run[s] EXCEPT !.whole = FALSE]
            BY <2>2, <2>3
      <3> QED BY <2>1, <3>1 DEF RunType
    <2>4. CASE ~AtWork(s)
      <3>1. run'[s] = [run[s] EXCEPT !.whole = TRUE]
            BY <2>2, <2>4
      <3> QED BY <2>1, <2>4, <3>1 DEF RunType
    <2> QED BY <2>3, <2>4
  <1>7. run' \in [TrendRuns -> RunType]
    <2>1. \A s \in TrendRuns : run'[s] \in RunType
          BY <1>5, <1>6
    <2>2. run' = [s \in TrendRuns |-> run'[s]]
          BY <1>1
    <2> QED BY <2>1, <2>2
  <1>8. TrendTyped'
        BY <1>2, <1>7 DEF TrendInv, TrendTyped
  <1>9. ASSUME NEW s \in TrendRuns
        PROVE  RunInv(s)'
    <2>1. CASE s = r
      <3>1. completed' # 0
            BY <1>2 DEF StartTrend
      <3> QED BY <1>5, <2>1, <3>1, NoAnswer
    <2>2. CASE s # r /\ AtWork(s)
      <3>1. RunIsSound(s)
            BY RunOf DEF RunInv
      <3>2. RunIsSound(s)'
            BY <1>2, <1>6, <2>2, <3>1 DEF RunIsSound, AtWork, CurrentDate
      <3>3. ~run'[s].whole
            BY <1>6, <2>2
      <3> QED BY <3>2, <3>3 DEF RunInv, WorksAlone, Underway, Answered, Answers
    <2>3. CASE s # r /\ ~AtWork(s)
      <3>1. run'[s].at = "idle"
            BY <1>6, <2>3 DEF AtWork
      <3> QED BY <3>1, NoAnswer
    <2> QED BY <2>1, <2>2, <2>3
  <1> QED BY <1>8, <1>9 DEF TrendInv

LEMMA WorkerDiesKeeps ==
    ASSUME TrendInv, NEW r \in TrendRuns, WorkerDies(r)
    PROVE  TrendInv'
  <1>1. AtWork(r) /\ run' = [run EXCEPT ![r] = NoRun] /\ UNCHANGED <<completed, bars, chain>>
        BY DEF WorkerDies, Becomes
  <1>2. NoRun \in RunType /\ NoRun.at = "idle"
    <2>1. <<>> \in Seq(Chains) /\ 0 \in 0..(LastDate + 1)
          BY DatesAre
    <2> QED BY <2>1 DEF NoRun, RunType
  <1>3. run' \in [TrendRuns -> RunType] /\ run'[r] = NoRun /\ \A s \in TrendRuns \ {r} : run'[s] = run[s]
        BY <1>1, <1>2 DEF TrendInv, TrendTyped
  <1>4. TrendTyped'
        BY <1>1, <1>3 DEF TrendInv, TrendTyped
  <1>5. RunInv(r)'
        BY <1>2, <1>3, NoAnswer
  <1> QED BY <1>1, <1>3, <1>4, <1>5, OneRunMoves

LEMMA NextPeriodKeeps ==
    ASSUME TrendInv, NEW r \in TrendRuns, NextPeriod(r)
    PROVE  TrendInv'
  <1>1. AtWork(r) /\ UNCHANGED <<completed, bars, chain>>
        BY DEF NextPeriod, AtWork
  <1> DEFINE N == IF Len(run[r].periods) = 1 THEN NoRun
                  ELSE [NoRun EXCEPT !.at = "plan", !.requested = run[r].requested,
                                     !.periods = Tail(run[r].periods)]
  <1>2. run' = [run EXCEPT ![r] = N]
        BY DEF NextPeriod, Becomes
  <1>3. run[r] \in RunType /\ run[r].periods \in Seq(Chains) /\ run[r].periods # <<>>
    <2>1. run[r] \in RunType /\ RunIsSound(r)
          BY RunOf DEF RunInv
    <2> QED BY <1>1, <2>1 DEF RunIsSound, RunType
  <1>4. N \in RunType /\ N.at \in {"idle", "plan"} /\ (N.at = "plan" => N.periods # <<>>)
    <2>1. <<>> \in Seq(Chains) /\ 0 \in 0..(LastDate + 1)
          BY DatesAre
    <2>2. CASE Len(run[r].periods) = 1
      <3>1. N = NoRun
            BY <2>2
      <3> HIDE DEF N
      <3> QED BY <2>1, <3>1 DEF NoRun, RunType
    <2>3. CASE Len(run[r].periods) # 1
      <3>1. Tail(run[r].periods) \in Seq(Chains) /\ Tail(run[r].periods) # <<>>
        <4>1. PICK q \in Seq(Chains) : q = run[r].periods
              BY <1>3
        <4>2. Len(q) \in Nat /\ Len(q) # 0 /\ Len(q) # 1
              BY <1>3, <2>3, <4>1
        <4>3. Tail(q) \in Seq(Chains) /\ Len(Tail(q)) = Len(q) - 1
              BY <4>2
        <4>4. Len(Tail(q)) # 0
              BY <4>2, <4>3
        <4>5. \A t : t = <<>> => Len(t) = 0
              OBVIOUS
        <4>6. Tail(q) # <<>>
              BY <4>4, <4>5
        <4> QED BY <4>1, <4>3, <4>6
      <3>2. N = [at |-> "plan", requested |-> run[r].requested, periods |-> Tail(run[r].periods),
                 initial |-> 0, first |-> 0, dates |-> {}, entry |-> {}, whole |-> TRUE]
            BY <2>3 DEF NoRun
      <3>3. run[r].requested \in Dates \cup {0}
            BY <1>3 DEF RunType
      <3> HIDE DEF N
      <3> QED BY <2>1, <3>1, <3>2, <3>3 DEF RunType
    <2> QED BY <2>2, <2>3
  <1> HIDE DEF N
  <1>5. run' \in [TrendRuns -> RunType] /\ run'[r] = N /\ \A s \in TrendRuns \ {r} : run'[s] = run[s]
        BY <1>2, <1>4 DEF TrendInv, TrendTyped
  <1>6. TrendTyped'
        BY <1>1, <1>5 DEF TrendInv, TrendTyped
  <1>7. RunInv(r)'
    <2>1. completed' # 0
          BY <1>1, RunOf DEF RunInv, RunIsSound
    <2> QED BY <1>4, <1>5, <2>1, NoAnswer
  <1> QED BY <1>1, <1>5, <1>6, <1>7, OneRunMoves

LEMMA RebuildDatesAre ==
    ASSUME TrendInv, completed # 0, NEW p \in Chains, NEW q \in Dates \cup {0},
           NEW R, R = RebuildDates(p, q)
    PROVE  /\ R \in SUBSET Dates
           /\ \A d, e \in R, t \in TradingDates : d <= t /\ t <= e => t \in R
           /\ \A e \in chain[p], d \in R : d <= e.date => e.date \in R /\ e.date <= LatestStored(p)
           /\ LatestStored(p) \in Dates \cup {0}
  <1> DEFINE latest == LatestStored(p)
             target == IF q = 0 THEN completed ELSE q
  <1>1. PICK X : X = chain[p]
        OBVIOUS
  <1>2. X \in SUBSET Snapshots /\ \A e \in X : e.date \in TradingDates /\ e.date <= completed
        BY <1>1 DEF TrendInv, TrendTyped
  <1>3. latest = LatestIn(X)
        BY <1>1 DEF LatestStored, LatestIn
  <1>4. /\ latest \in Dates \cup {0} /\ \A e \in X : e.date <= latest
        /\ latest = 0 => X = {}
        /\ X # {} => latest <= completed
    <2>1. \A e \in X : e.date # 0
          BY <1>2, DatesAre
    <2> QED BY <1>2, <1>3, <2>1, LatestIs
  <1>5. completed \in Dates /\ target \in Dates
        BY DatesAre DEF TrendInv, TrendTyped
  <1>6. R = IF latest = 0 \/ latest = target \/ (q = 0 /\ latest > target) THEN {target}
            ELSE IF latest < target THEN {d \in TradingDates : latest < d /\ d <= target}
            ELSE {target} \cup {d \in TradingDates : target <= d /\ d <= latest}
        BY DEF RebuildDates
  <1>7. latest \in Nat /\ target \in Nat /\ completed \in Nat /\ \A e \in X : e.date \in Nat
        BY <1>2, <1>4, <1>5, DatesCount, DatesAre
  <1>8. \A d \in TradingDates : d \in Dates /\ d \in Nat
        BY DatesAre
  <1>9. q = 0 => target = completed
        OBVIOUS
  <1> HIDE DEF latest, target
  <1>10. CASE latest = 0 \/ latest = target \/ (q = 0 /\ latest > target)
    <2>1. R = {target}
          BY <1>6, <1>10
    <2>2. \A e \in X : target <= e.date => e.date = target
          BY <1>4, <1>7, <1>9, <1>10
    <2>3. R \in SUBSET Dates /\ \A d, e \in R, t \in TradingDates : d <= t /\ t <= e => t \in R
          BY <1>5, <1>7, <1>8, <2>1
    <2> QED BY <1>1, <1>4, <2>1, <2>2, <2>3 DEF latest
  <1>11. CASE ~(latest = 0 \/ latest = target \/ (q = 0 /\ latest > target)) /\ latest < target
    <2>1. R = {d \in TradingDates : latest < d /\ d <= target}
          BY <1>6, <1>11
    <2>2. \A e \in X, d \in R : ~(d <= e.date)
          BY <1>4, <1>7, <1>8, <2>1
    <2>3. R \in SUBSET Dates /\ \A d, e \in R, t \in TradingDates : d <= t /\ t <= e => t \in R
          BY <1>7, <1>8, <2>1
    <2> QED BY <1>1, <1>4, <2>2, <2>3 DEF latest
  <1>12. CASE ~(latest = 0 \/ latest = target \/ (q = 0 /\ latest > target)) /\ ~(latest < target)
    <2>1. R = {target} \cup {d \in TradingDates : target <= d /\ d <= latest}
          BY <1>6, <1>12
    <2>2. \A d \in R : d \in Dates /\ d \in Nat /\ target <= d /\ d <= latest
          BY <1>5, <1>7, <1>8, <1>12, <2>1
    <2>3. \A t \in TradingDates : target <= t /\ t <= latest => t \in R
          BY <2>1
    <2>4. \A d, e \in R, t \in TradingDates : d <= t /\ t <= e => t \in R
          BY <1>7, <1>8, <2>2, <2>3
    <2>5. \A e \in X, d \in R : d <= e.date => e.date \in R
          BY <1>2, <1>4, <1>7, <1>8, <2>2, <2>3
    <2> QED BY <1>1, <1>4, <2>2, <2>4, <2>5 DEF latest
  <1> QED BY <1>10, <1>11, <1>12

LEMMA MadeNothing ==
    ASSUME NEW X \in SUBSET Snapshots, NEW f \in Nat
    PROVE  Made(X, f, f)
  <1>1. \A e \in X : e.date \in Nat
        BY DatesCount DEF Snapshots
  <1>2. \A d \in TradingDates : d \in Nat
        BY DatesAre
  <1> QED BY <1>1, <1>2 DEF Made

LEMMA PlanRebuildKeeps ==
    ASSUME TrendInv, NEW r \in TrendRuns, PlanRebuild(r)
    PROVE  TrendInv'
  <1>1. AtWork(r) /\ run[r].at = "plan" /\ UNCHANGED <<completed, bars, chain>>
        BY DEF PlanRebuild, AtWork
  <1>2. PICK p \in Chains : p = ChainOf(r)
        BY <1>1, RunOf
  <1>3. run[r] \in RunType /\ completed # 0 /\ run[r].periods # <<>>
        BY <1>1, RunOf DEF RunInv, RunIsSound
  <1>4. PICK q \in Dates \cup {0} : q = run[r].requested
        BY <1>3 DEF RunType
  <1>5. PICK R : R = RebuildDates(p, q)
        OBVIOUS
  <1>6. PICK i : i = LatestStored(p)
        OBVIOUS
  <1>7. /\ R \in SUBSET Dates
        /\ \A d, e \in R, t \in TradingDates : d <= t /\ t <= e => t \in R
        /\ \A e \in chain[p], d \in R : d <= e.date => e.date \in R /\ e.date <= i
        /\ i \in Dates \cup {0}
        BY <1>3, <1>5, <1>6, RebuildDatesAre
  <1>8. PICK w \in BOOLEAN : w <=> \A s \in TrendRuns \ {r} : ~AtWork(s)
        OBVIOUS
  <1>9. PICK f : f = IF R = {} THEN LastDate + 1 ELSE Earliest(R)
        OBVIOUS
  <1>10. PICK a : a = IF R = {} THEN "finished" ELSE "compute"
        OBVIOUS
  <1>11. run' = [run EXCEPT ![r] = [run[r] EXCEPT !.at = a, !.initial = i, !.dates = R, !.first = f, !.whole = w]]
    <2>1. (\A s \in TrendRuns \ {r} : ~AtWork(s)) = w
          BY <1>8
    <2> QED BY <1>2, <1>4, <1>5, <1>6, <1>9, <1>10, <2>1 DEF PlanRebuild, Becomes
  <1>12. f \in Nat /\ f \in 0..(LastDate + 1) /\ (R # {} => f \in R /\ \A d \in R : f <= d)
    <2>1. CASE R = {}
          BY <1>9, <2>1, DatesAre
    <2>2. CASE R # {}
      <3>1. f \in R /\ \A d \in R : f <= d
            BY <1>7, <1>9, <2>2, EarliestIs
      <3>2. f \in Dates /\ f <= LastDate /\ LastDate \in Nat /\ f \in Nat
            BY <1>7, <3>1, DatesAre, DatesCount
      <3>3. f \in 0..(LastDate + 1)
            BY <3>2
      <3> QED BY <3>1, <3>2, <3>3
    <2> QED BY <2>1, <2>2
  <1>13. /\ run'[r] \in RunType /\ run'[r].at = a /\ run'[r].initial = i /\ run'[r].dates = R
         /\ run'[r].first = f /\ run'[r].whole = w /\ run'[r].periods = run[r].periods
         /\ run' \in [TrendRuns -> RunType] /\ \A s \in TrendRuns \ {r} : run'[s] = run[s]
    <2>1. a \in {"finished", "compute"}
          BY <1>10
    <2> QED BY <1>3, <1>7, <1>11, <1>12, <2>1 DEF TrendInv, TrendTyped, RunType
  <1>14. TrendTyped'
        BY <1>1, <1>13 DEF TrendInv, TrendTyped
  <1>15. ChainOf(r)' = p /\ chain'[p] = chain[p] /\ chain[p] \in SUBSET Snapshots
        BY <1>1, <1>2, <1>13 DEF ChainOf, TrendInv, TrendTyped
  <1>16. RunIsSound(r)'
        BY <1>1, <1>3, <1>10, <1>13 DEF RunIsSound
  <1>17. WorksAlone(r)'
        BY <1>8, <1>13 DEF WorksAlone, AtWork
  <1>18. CASE R = {}
    <2>1. run'[r].at = "finished" /\ f = LastDate + 1
          BY <1>9, <1>10, <1>13, <1>18
    <2>2. Underway(r)'
          BY <2>1 DEF Underway
    <2>3. \A e \in chain[p] : e.date < f
      <3> TAKE e \in chain[p]
      <3>1. e.date \in Dates
            BY <1>15 DEF Snapshots
      <3>2. e.date \in Nat /\ e.date <= LastDate /\ LastDate \in Nat
            BY <3>1, DatesAre, DatesCount
      <3> QED BY <2>1, <3>2
    <2>4. WholeIn(chain[p], f)
          BY <1>12, <1>15, <2>3, MadeNothing, MadeIsWhole
    <2>5. WholeFrom(p, f)'
          BY <1>15, <2>4, WholeFromIs
    <2>6. WholeFrom(ChainOf(r), run[r].first)'
          BY <1>13, <1>15, <2>5
    <2>7. RunInv(r)'
          BY <1>16, <1>17, <2>2, <2>6 DEF RunInv, Answered
    <2> QED BY <1>1, <1>13, <1>14, <2>7, OneRunMoves
  <1>19. CASE R # {}
    <2>1. run'[r].at = "compute"
          BY <1>10, <1>13, <1>19
    <2>2. CurrentDate(r)' = f
          BY <1>9, <1>13, <1>19 DEF CurrentDate
    <2>3. Made(chain[p], f, f)
          BY <1>12, <1>15, MadeNothing
    <2>4. \A e \in chain[p] : e.date >= f => e.date \in R /\ e.date <= i
          BY <1>7, <1>12, <1>19
    <2>5. Underway(r)'
          BY <1>7, <1>12, <1>13, <1>15, <1>19, <2>1, <2>2, <2>3, <2>4 DEF Underway
    <2>6. ~Answers(r)'
          BY <2>1 DEF Answers
    <2>7. RunInv(r)'
          BY <1>16, <1>17, <2>5, <2>6 DEF RunInv, Answered
    <2> QED BY <1>1, <1>13, <1>14, <2>7, OneRunMoves
  <1> QED BY <1>18, <1>19

LEMMA MadeLess ==
    ASSUME NEW X \in SUBSET Snapshots, NEW from \in Nat, NEW b \in Nat, NEW c \in Nat, c <= b,
           Made(X, from, b)
    PROVE  Made(X, from, c)
  <1>1. \A e \in X : e.date \in Nat /\ (e.date < c => e.date < b)
        BY DatesCount DEF Snapshots
  <1>2. \A d \in TradingDates : d \in Nat /\ (d < c => d < b)
        BY DatesAre
  <1> QED BY <1>1, <1>2 DEF Made

(* A run breaks off at a day that it has stored or not.                    *)
LEMMA BreakOffKeeps ==
    ASSUME TrendInv, NEW r \in TrendRuns, run[r].at \in {"compute", "store"}, BreakOff(r),
           UNCHANGED <<completed, bars>>,
           chain' \in [Chains -> SUBSET Snapshots],
           \A p \in Chains : OneADay(chain'[p]),
           \A p \in Chains : \A e \in chain'[p] : e.date \in TradingDates /\ e.date <= completed,
           NEW b \in {CurrentDate(r), CurrentDate(r) + 1},
           run[r].whole =>
             /\ Made(chain'[ChainOf(r)], run[r].first, b)
             /\ \A e \in chain'[ChainOf(r)] : e.date >= b => e.date <= run[r].initial
    PROVE  TrendInv'
  <1>1. AtWork(r)
        BY DEF AtWork
  <1>2. PICK p \in Chains : p = ChainOf(r)
        BY <1>1, RunOf
  <1>3. /\ run[r] \in RunType /\ RunInv(r) /\ completed # 0 /\ run[r].periods # <<>> /\ run[r].dates # {}
        BY <1>1, RunOf DEF RunInv, RunIsSound
  <1>4. PICK c : c = CurrentDate(r)
        OBVIOUS
  <1>5. PICK Y : Y = chain'[p]
        OBVIOUS
  <1>6. PICK f : f = run[r].first
        OBVIOUS
  <1>7. PICK i : i = run[r].initial
        OBVIOUS
  <1>8. PICK q : q = run[r].requested
        OBVIOUS
  <1>9. PICK R : R = run[r].dates
        OBVIOUS
  <1>10. c \in R /\ c \in Dates /\ c \in Nat /\ f \in Nat /\ i \in Nat /\ R \in SUBSET Dates /\ b \in Nat /\ b >= c
    <2>1. c \in R /\ c \in Dates /\ R \in SUBSET Dates
          BY <1>3, <1>4, <1>9, RunOf
    <2>2. c \in Nat
          BY <2>1, DatesCount
    <2>3. b \in Nat /\ b >= c
          BY <1>4, <2>2
    <2>4. i \in Dates \cup {0} /\ f \in 0..(LastDate + 1)
          BY <1>3, <1>6, <1>7 DEF RunType
    <2>5. i \in Nat /\ f \in Nat
          BY <2>4, DatesCount
    <2> QED BY <2>1, <2>2, <2>3, <2>5
  <1>11. PICK a : a = IF q # 0 /\ i # 0 /\ c <= i THEN "drop" ELSE "finished"
         OBVIOUS
  <1>12. run' = [run EXCEPT ![r] = [run[r] EXCEPT !.at = a, !.entry = {}]]
         BY <1>4, <1>7, <1>8, <1>11 DEF BreakOff, Becomes
  <1>13. /\ run'[r] \in RunType /\ run'[r].at = a /\ run'[r].initial = i /\ run'[r].dates = R
         /\ run'[r].first = f /\ run'[r].whole = run[r].whole /\ run'[r].periods = run[r].periods
         /\ run'[r].requested = q
         /\ run' \in [TrendRuns -> RunType] /\ \A s \in TrendRuns \ {r} : run'[s] = run[s]
    <2>1. a \in {"finished", "drop"}
          BY <1>11
    <2> QED BY <1>3, <1>6, <1>7, <1>8, <1>9, <1>12, <2>1 DEF TrendInv, TrendTyped, RunType
  <1>14. TrendTyped'
        BY <1>13 DEF TrendInv, TrendTyped
  <1>15. ChainOf(r)' = p /\ CurrentDate(r)' = c /\ Y \in SUBSET Snapshots
        BY <1>2, <1>4, <1>5, <1>9, <1>13 DEF ChainOf, CurrentDate
  <1>16. a \in {"finished", "drop"} /\ RunIsSound(r)'
    <2>1. a \in {"finished", "drop"}
          BY <1>11
    <2> QED BY <1>3, <1>9, <1>13, <2>1 DEF RunIsSound
  <1>17. WorksAlone(r)'
        BY <1>3, <1>13 DEF RunInv, WorksAlone, AtWork
  <1>18. run[r].whole => Made(Y, f, b) /\ \A e \in Y : e.date >= b => e.date <= i
        BY <1>2, <1>5, <1>6, <1>7
  <1>19. Underway(r)'
    <2>1. CASE ~run[r].whole \/ a = "finished"
          BY <1>13, <2>1 DEF Underway
    <2>2. CASE run[r].whole /\ a = "drop"
      <3>1. /\ \A d \in R : f <= d
            /\ \A d, e \in R, t \in TradingDates : d <= t /\ t <= e => t \in R
            BY <1>3, <1>6, <1>9, <2>2 DEF RunInv, Underway
      <3>2. Made(Y, f, c)
            BY <1>10, <1>15, <1>18, <2>2, MadeLess
      <3> QED BY <1>5, <1>13, <1>15, <2>2, <3>1, <3>2 DEF Underway
    <2> QED BY <1>16, <2>1, <2>2
  <1>20. Answered(r)'
    <2> SUFFICES ASSUME Answers(r)' PROVE WholeFrom(ChainOf(r), run[r].first)'
          BY DEF Answered
    <2>1. a = "finished" /\ run[r].whole /\ (q # 0 \/ f > i)
          BY <1>10, <1>13 DEF Answers
    <2>2. f <= c
          BY <1>3, <1>6, <1>9, <1>10, <2>1 DEF RunInv, Underway
    <2>3. \A e \in Y : e.date < b
      <3> TAKE e \in Y
      <3>1. e.date \in Nat /\ e.date # 0
            BY <1>15, DatesCount DEF Snapshots
      <3>2. SUFFICES ASSUME e.date >= b PROVE FALSE
            BY <1>10, <3>1
      <3>3. e.date <= i /\ e.date >= c
            BY <1>10, <1>18, <2>1, <3>1, <3>2
      <3>4. ~(q # 0 /\ i # 0 /\ c <= i)
            BY <1>11, <2>1
      <3>5. c <= i /\ i # 0
            BY <1>10, <3>1, <3>3
      <3>6. q = 0
            BY <3>4, <3>5
      <3> QED BY <1>10, <2>1, <2>2, <3>5, <3>6
    <2>4. WholeIn(Y, f)
          BY <1>10, <1>15, <1>18, <2>1, <2>3, MadeIsWhole
    <2>5. WholeFrom(p, f)'
          BY <1>5, <2>4, WholeFromIs
    <2> QED BY <1>13, <1>15, <2>5
  <1>21. RunInv(r)'
        BY <1>16, <1>17, <1>19, <1>20 DEF RunInv
  <1> QED BY <1>1, <1>13, <1>14, <1>21, OneRunMoves

LEMMA ComputeDayKeeps ==
    ASSUME TrendInv, NEW r \in TrendRuns, ComputeDay(r)
    PROVE  TrendInv'
  <1>1. AtWork(r) /\ run[r].at = "compute" /\ UNCHANGED <<completed, bars, chain>>
        BY DEF ComputeDay, AtWork
  <1>2. PICK p \in Chains : p = ChainOf(r)
        BY <1>1, RunOf
  <1>3. /\ run[r] \in RunType /\ RunInv(r) /\ completed # 0 /\ run[r].periods # <<>> /\ run[r].dates # {}
        BY <1>1, RunOf DEF RunInv, RunIsSound
  <1>4. PICK c : c = CurrentDate(r)
        OBVIOUS
  <1>5. PICK X : X = chain[p]
        OBVIOUS
  <1>6. c \in Dates /\ c \in Nat /\ X \in SUBSET Snapshots /\ OneADay(X)
        BY <1>1, <1>2, <1>3, <1>4, <1>5, RunOf, DatesCount
  <1>7. CASE BreakOff(r)
    <2>1. run[r].whole =>
            /\ Made(chain'[ChainOf(r)], run[r].first, c)
            /\ \A e \in chain'[ChainOf(r)] : e.date >= c => e.date <= run[r].initial
          BY <1>1, <1>3, <1>4 DEF RunInv, Underway
    <2>2. /\ chain' \in [Chains -> SUBSET Snapshots]
          /\ \A q \in Chains : OneADay(chain'[q])
          /\ \A q \in Chains : \A e \in chain'[q] : e.date \in TradingDates /\ e.date <= completed
          BY <1>1 DEF TrendInv, TrendTyped
    <2>3. c \in {CurrentDate(r), CurrentDate(r) + 1}
          BY <1>4
    <2> QED BY <1>1, <1>7, <2>1, <2>2, <2>3, BreakOffKeeps
  <1>8. CASE ~BreakOff(r)
    <2>1. PICK row \in bars[c] :
            Becomes(r, [run[r] EXCEPT !.at = "store", !.entry = {SnapshotOf(c, row, Previous(p, c))}])
          BY <1>2, <1>4, <1>8 DEF ComputeDay
    <2>2. row \in RowType /\ c \in TradingDates /\ c <= completed
          BY <1>6, <2>1 DEF TrendInv, TrendTyped
    <2>3. Previous(p, c) = PreviousIn(X, c)
          BY <1>5 DEF Previous, PreviousIn
    <2>4. PICK s : s = SnapshotOf(c, row, PreviousIn(X, c))
          OBVIOUS
    <2>5. s \in Snapshots /\ s.date = c
      <3>1. PICK B \in SUBSET Snapshots : B = PreviousIn(X, c)
            BY <1>6 DEF PreviousIn
      <3>2. \A e \in B : B = {e}
            BY <1>6, <3>1, PreviousIs
      <3> QED BY <1>6, <2>2, <2>4, <3>1, <3>2, SnapshotIs
    <2>6. run' = [run EXCEPT ![r] = [run[r] EXCEPT !.at = "store", !.entry = {s}]]
          BY <2>1, <2>3, <2>4 DEF Becomes
    <2>7. /\ run'[r] \in RunType /\ run'[r].at = "store" /\ run'[r].initial = run[r].initial
          /\ run'[r].dates = run[r].dates /\ run'[r].entry = {s}
          /\ run'[r].first = run[r].first /\ run'[r].whole = run[r].whole /\ run'[r].periods = run[r].periods
          /\ run' \in [TrendRuns -> RunType] /\ \A t \in TrendRuns \ {r} : run'[t] = run[t]
          BY <1>3, <2>5, <2>6 DEF TrendInv, TrendTyped, RunType
    <2>8. TrendTyped'
          BY <1>1, <2>7 DEF TrendInv, TrendTyped
    <2>9. ChainOf(r)' = p /\ CurrentDate(r)' = c
          BY <1>2, <1>4, <2>7 DEF ChainOf, CurrentDate
    <2>10. RunIsSound(r)'
          BY <1>1, <1>3, <2>2, <2>5, <2>7, <2>9 DEF RunIsSound
    <2>11. WorksAlone(r)'
          BY <1>1, <1>3, <2>7 DEF RunInv, WorksAlone, AtWork
    <2>12. Underway(r)'
      <3>1. CASE ~run[r].whole
            BY <2>7, <3>1 DEF Underway
      <3>2. CASE run[r].whole
        <4>1. /\ \A d \in run[r].dates : run[r].first <= d
              /\ \A d, e \in run[r].dates, t \in TradingDates : d <= t /\ t <= e => t \in run[r].dates
              /\ Made(X, run[r].first, c)
              /\ \A e \in X : e.date >= c => e.date \in run[r].dates /\ e.date <= run[r].initial
              BY <1>1, <1>2, <1>3, <1>4, <1>5, <3>2 DEF RunInv, Underway
        <4>2. chain'[p] = X
              BY <1>1, <1>5
        <4>3. \E row1 \in RowType : {s} = {SnapshotOf(c, row1, PreviousIn(X, c))}
              BY <2>2, <2>4
        <4> QED BY <2>7, <2>9, <4>1, <4>2, <4>3 DEF Underway
      <3> QED BY <3>1, <3>2
    <2>13. ~Answers(r)'
          BY <2>7 DEF Answers
    <2>14. RunInv(r)'
          BY <2>10, <2>11, <2>12, <2>13 DEF RunInv, Answered
    <2> QED BY <1>1, <2>7, <2>8, <2>14, OneRunMoves
  <1> QED BY <1>7, <1>8

(* What the replacement of a day leaves.                                   *)
LEMMA ReplaceDayIs ==
    ASSUME TrendInv, NEW r \in TrendRuns, run[r].at = "store", ReplaceDay(r)
    PROVE  /\ chain' \in [Chains -> SUBSET Snapshots]
           /\ \A p \in Chains : OneADay(chain'[p])
           /\ \A p \in Chains : \A e \in chain'[p] : e.date \in TradingDates /\ e.date <= completed
           /\ \A e \in chain'[ChainOf(r)] : e.date # CurrentDate(r) => e \in chain[ChainOf(r)]
           /\ run[r].whole => Made(chain'[ChainOf(r)], run[r].first, CurrentDate(r) + 1)
  <1>1. AtWork(r)
        BY DEF AtWork
  <1>2. PICK p \in Chains : p = ChainOf(r)
        BY <1>1, RunOf
  <1>3. run[r] \in RunType /\ RunInv(r) /\ run[r].dates # {}
        BY <1>1, RunOf DEF RunInv, RunIsSound
  <1>4. PICK c : c = CurrentDate(r)
        OBVIOUS
  <1>5. PICK X : X = chain[p]
        OBVIOUS
  <1>6. c \in Dates /\ c \in Nat /\ X \in SUBSET Snapshots /\ OneADay(X)
        BY <1>1, <1>2, <1>3, <1>4, <1>5, RunOf, DatesCount
  <1>7. PICK s \in Snapshots : s.date = c /\ run[r].entry = {s}
        BY <1>3, <1>4 DEF RunInv, RunIsSound
  <1>8. c \in TradingDates /\ c <= completed
        BY <1>3, <1>4 DEF RunInv, RunIsSound
  <1>9. PICK Y : Y = {e \in X : e.date # c} \cup {s}
        OBVIOUS
  <1>10. chain' = [chain EXCEPT ![p] = Y]
        BY <1>2, <1>4, <1>5, <1>7, <1>9 DEF ReplaceDay
  <1>11. Y \in SUBSET Snapshots
        BY <1>6, <1>7, <1>9
  <1>12. chain' \in [Chains -> SUBSET Snapshots] /\ chain'[p] = Y /\ \A q \in Chains : q # p => chain'[q] = chain[q]
        BY <1>10, <1>11 DEF TrendInv, TrendTyped
  <1>13. \A e \in Y : e = s \/ (e \in X /\ e.date # c)
        BY <1>9
  <1>14. OneADay(Y)
        BY <1>6, <1>7, <1>13 DEF OneADay
  <1>15. \A e \in Y : e.date \in TradingDates /\ e.date <= completed
        BY <1>5, <1>7, <1>8, <1>13 DEF TrendInv, TrendTyped
  <1>16. run[r].whole => Made(Y, run[r].first, c + 1)
    <2> HAVE run[r].whole
    <2>1. PICK row \in RowType : {s} = {SnapshotOf(c, row, PreviousIn(X, c))}
          BY <1>2, <1>3, <1>4, <1>5, <1>7 DEF RunInv, Underway
    <2>2. s = SnapshotOf(c, row, PreviousIn(X, c))
          BY <2>1
    <2>3. PICK f : f = run[r].first
          OBVIOUS
    <2>4. Made(X, f, c) /\ c \in run[r].dates /\ f <= c
      <3>1. c \in run[r].dates
            BY <1>3, <1>4, RunOf
      <3> QED BY <1>2, <1>3, <1>4, <1>5, <2>3, <3>1 DEF RunInv, Underway
    <2>5. f \in Nat
      <3>1. f \in 0..(LastDate + 1)
            BY <1>3, <2>3 DEF RunType
      <3> QED BY <3>1
    <2>6. Made(Y, f, c + 1)
          BY <1>6, <1>9, <2>2, <2>4, <2>5, OneDayMore
    <2> QED BY <2>3, <2>6
  <1> QED BY <1>2, <1>4, <1>5, <1>12, <1>13, <1>14, <1>15, <1>16, <1>7 DEF TrendInv, TrendTyped

LEMMA StoreDayKeeps ==
    ASSUME TrendInv, NEW r \in TrendRuns, StoreDay(r)
    PROVE  TrendInv'
  <1>1. AtWork(r) /\ run[r].at = "store" /\ UNCHANGED <<completed, bars>>
        BY DEF StoreDay, AtWork
  <1>2. PICK p \in Chains : p = ChainOf(r)
        BY <1>1, RunOf
  <1>3. /\ run[r] \in RunType /\ RunInv(r) /\ completed # 0 /\ run[r].periods # <<>> /\ run[r].dates # {}
        BY <1>1, RunOf DEF RunInv, RunIsSound
  <1>4. PICK c : c = CurrentDate(r)
        OBVIOUS
  <1>5. PICK X : X = chain[p]
        OBVIOUS
  <1>6. PICK R : R = run[r].dates
        OBVIOUS
  <1>7. PICK f : f = run[r].first
        OBVIOUS
  <1>8. PICK i : i = run[r].initial
        OBVIOUS
  <1>9. /\ c \in Dates /\ c \in Nat /\ X \in SUBSET Snapshots /\ f \in Nat
        /\ R \in SUBSET Dates /\ c \in R /\ \A d \in R : d \in Nat /\ c <= d
    <2>1. R \in SUBSET Dates /\ c \in R /\ c \in Dates /\ \A d \in R : c <= d
          BY <1>3, <1>4, <1>6, RunOf
    <2>2. f \in 0..(LastDate + 1)
          BY <1>3, <1>7 DEF RunType
    <2>3. f \in Nat
          BY <2>2
    <2>4. X \in SUBSET Snapshots
          BY <1>1, <1>2, <1>5, RunOf
    <2> QED BY <2>1, <2>3, <2>4, DatesCount
  <1>10. run[r].whole =>
           /\ \A d \in R : f <= d
           /\ \A d, e \in R, t \in TradingDates : d <= t /\ t <= e => t \in R
           /\ Made(X, f, c)
           /\ \A e \in X : e.date >= c => e.date \in R /\ e.date <= i
        BY <1>1, <1>2, <1>3, <1>4, <1>5, <1>6, <1>7, <1>8 DEF RunInv, Underway
  <1>11. CASE BreakOff(r) /\ UNCHANGED chain
    <2>1. run[r].whole =>
            /\ Made(chain'[ChainOf(r)], run[r].first, c)
            /\ \A e \in chain'[ChainOf(r)] : e.date >= c => e.date <= run[r].initial
          BY <1>2, <1>5, <1>7, <1>8, <1>10, <1>11
    <2>2. /\ chain' \in [Chains -> SUBSET Snapshots]
          /\ \A q \in Chains : OneADay(chain'[q])
          /\ \A q \in Chains : \A e \in chain'[q] : e.date \in TradingDates /\ e.date <= completed
          BY <1>11 DEF TrendInv, TrendTyped
    <2>3. c \in {CurrentDate(r), CurrentDate(r) + 1}
          BY <1>4
    <2> QED BY <1>1, <1>11, <2>1, <2>2, <2>3, BreakOffKeeps
  <1>12. CASE BreakOff(r) /\ ReplaceDay(r)
    <2>1. run[r].whole =>
            /\ Made(chain'[ChainOf(r)], run[r].first, c + 1)
            /\ \A e \in chain'[ChainOf(r)] : e.date >= c + 1 => e.date <= run[r].initial
      <3> HAVE run[r].whole
      <3>1. Made(chain'[ChainOf(r)], run[r].first, c + 1)
            BY <1>1, <1>4, <1>12, ReplaceDayIs
      <3>2. ASSUME NEW e \in chain'[ChainOf(r)], e.date >= c + 1
            PROVE  e.date <= run[r].initial
        <4>1. chain'[p] \in SUBSET Snapshots
              BY <1>1, <1>12, ReplaceDayIs
        <4>2. e.date \in Nat
              BY <1>2, <3>2, <4>1, DatesCount DEF Snapshots
        <4>3. e.date # c /\ e.date >= c
              BY <1>9, <3>2, <4>2
        <4>4. e \in X
              BY <1>1, <1>2, <1>4, <1>5, <1>12, <4>3, ReplaceDayIs
        <4> QED BY <1>8, <1>10, <4>3, <4>4
      <3> QED BY <3>1, <3>2
    <2>2. /\ chain' \in [Chains -> SUBSET Snapshots]
          /\ \A q \in Chains : OneADay(chain'[q])
          /\ \A q \in Chains : \A e \in chain'[q] : e.date \in TradingDates /\ e.date <= completed
          BY <1>1, <1>12, ReplaceDayIs
    <2>3. c + 1 \in {CurrentDate(r), CurrentDate(r) + 1}
          BY <1>4
    <2> QED BY <1>1, <1>12, <2>1, <2>2, <2>3, BreakOffKeeps
  <1>13. CASE ~BreakOff(r)
    <2>1. ReplaceDay(r) /\ Becomes(r, [run[r] EXCEPT !.at = IF R = {c} THEN "finished" ELSE "compute",
                                                     !.dates = @ \ {c}, !.entry = {}])
          BY <1>4, <1>6, <1>13 DEF StoreDay
    <2>2. PICK a : a = IF R = {c} THEN "finished" ELSE "compute"
          OBVIOUS
    <2>3. PICK Q : Q = R \ {c}
          OBVIOUS
    <2>4. run' = [run EXCEPT ![r] = [run[r] EXCEPT !.at = a, !.dates = Q, !.entry = {}]]
          BY <1>6, <2>1, <2>2, <2>3 DEF Becomes
    <2>5. /\ run'[r] \in RunType /\ run'[r].at = a /\ run'[r].initial = i /\ run'[r].dates = Q
          /\ run'[r].first = f /\ run'[r].whole = run[r].whole /\ run'[r].periods = run[r].periods
          /\ run' \in [TrendRuns -> RunType] /\ \A t \in TrendRuns \ {r} : run'[t] = run[t]
      <3>1. a \in {"finished", "compute"} /\ Q \in SUBSET Dates
            BY <1>9, <2>2, <2>3
      <3> QED BY <1>3, <1>7, <1>8, <2>4, <3>1 DEF TrendInv, TrendTyped, RunType
    <2>6. PICK Y : Y = chain'[p]
          OBVIOUS
    <2>7. /\ chain' \in [Chains -> SUBSET Snapshots]
          /\ \A q \in Chains : OneADay(chain'[q])
          /\ \A q \in Chains : \A e \in chain'[q] : e.date \in TradingDates /\ e.date <= completed
          /\ \A e \in Y : e.date # c => e \in X
          /\ run[r].whole => Made(Y, f, c + 1)
          BY <1>1, <1>2, <1>4, <1>5, <1>7, <2>1, <2>6, ReplaceDayIs
    <2>8. Y \in SUBSET Snapshots /\ \A e \in Y : e.date \in Nat
      <3>1. Y \in SUBSET Snapshots
            BY <2>6, <2>7
      <3> QED BY <3>1, DatesCount DEF Snapshots
    <2>9. TrendTyped'
          BY <1>1, <2>5, <2>7 DEF TrendInv, TrendTyped
    <2>10. ChainOf(r)' = p
          BY <1>2, <2>5 DEF ChainOf
    <2>11. RunIsSound(r)'
      <3>1. a = "compute" => Q # {}
            BY <1>9, <2>2, <2>3
      <3> QED BY <1>1, <1>3, <2>2, <2>5, <3>1 DEF RunIsSound
    <2>12. WorksAlone(r)'
          BY <1>1, <1>3, <2>5 DEF RunInv, WorksAlone, AtWork
    <2>13. CASE ~run[r].whole
      <3>1. RunInv(r)'
            BY <2>5, <2>11, <2>12, <2>13 DEF RunInv, Underway, Answered, Answers
      <3> QED BY <1>1, <2>5, <2>9, <3>1, OneRunMoves
    <2>14. CASE run[r].whole /\ R = {c}
      <3>1. a = "finished"
            BY <2>2, <2>14
      <3>2. \A e \in Y : e.date < c + 1
        <4> TAKE e \in Y
        <4>1. SUFFICES ASSUME e.date >= c, e.date # c PROVE FALSE
              BY <1>9, <2>8
        <4>2. e.date \in R
              BY <1>10, <2>7, <2>14, <4>1
        <4> QED BY <2>14, <4>1, <4>2
      <3>3. WholeIn(Y, f)
            BY <1>9, <2>7, <2>8, <2>14, <3>2, MadeIsWhole
      <3>4. WholeFrom(p, f)'
            BY <2>6, <3>3, WholeFromIs
      <3>5. WholeFrom(ChainOf(r), run[r].first)'
            BY <2>5, <2>10, <3>4
      <3>6. RunInv(r)'
            BY <2>5, <2>11, <2>12, <3>1, <3>5 DEF RunInv, Underway, Answered
      <3> QED BY <1>1, <2>5, <2>9, <3>6, OneRunMoves
    <2>15. CASE run[r].whole /\ R # {c}
      <3>1. a = "compute" /\ Q # {} /\ Q \in SUBSET Dates
            BY <1>9, <2>2, <2>3, <2>15
      <3>2. PICK b : b = Earliest(Q)
            OBVIOUS
      <3>3. b \in Q /\ \A d \in Q : b <= d
            BY <3>1, <3>2, EarliestIs
      <3>4. b \in Nat /\ c < b /\ b \in R
            BY <1>9, <2>3, <3>3
      <3>5. CurrentDate(r)' = b
            BY <2>5, <3>2 DEF CurrentDate
      <3>6. \A d \in TradingDates : ~(c < d /\ d < b)
        <4> TAKE d \in TradingDates
        <4>1. SUFFICES ASSUME c < d, d < b PROVE FALSE
              OBVIOUS
        <4>2. d \in Nat
              BY DatesAre
        <4>3. d \in R
              BY <1>9, <1>10, <2>15, <3>4, <4>1, <4>2
        <4>4. d \in Q
              BY <1>9, <2>3, <4>1, <4>2, <4>3
        <4> QED BY <3>3, <3>4, <4>1, <4>2, <4>4
      <3>7. \A e \in Y : e.date > c => e \in X /\ e.date \in Q /\ e.date <= i
        <4> TAKE e \in Y
        <4> HAVE e.date > c
        <4>1. e.date # c /\ e.date >= c
              BY <1>9, <2>8
        <4>2. e \in X
              BY <2>7, <4>1
        <4> QED BY <1>10, <2>3, <2>15, <4>1, <4>2
      <3>8. \A e \in Y : ~(c < e.date /\ e.date < b)
        <4> TAKE e \in Y
        <4>1. SUFFICES ASSUME c < e.date, e.date < b PROVE FALSE
              OBVIOUS
        <4>2. e.date \in Q /\ e.date \in Nat
              BY <1>9, <2>8, <3>7, <4>1
        <4> QED BY <3>3, <3>4, <4>1, <4>2
      <3>9. Made(Y, f, b)
            BY <1>9, <2>7, <2>8, <2>15, <3>4, <3>6, <3>8, MadeFurther
      <3>10. \A e \in Y : e.date >= b => e.date \in Q /\ e.date <= i
        <4> TAKE e \in Y
        <4> HAVE e.date >= b
        <4>1. e.date > c
              BY <1>9, <2>8, <3>4
        <4> QED BY <3>7, <4>1
      <3>11. /\ \A d \in Q : f <= d
             /\ \A d, e \in Q, t \in TradingDates : d <= t /\ t <= e => t \in Q
        <4>1. \A d \in Q : f <= d
              BY <1>10, <2>3, <2>15
        <4>2. ASSUME NEW d \in Q, NEW e \in Q, NEW t \in TradingDates, d <= t, t <= e
              PROVE  t \in Q
          <5>1. t \in R /\ d \in Nat /\ t \in Nat /\ c < d
                BY <1>9, <1>10, <2>3, <2>15, <4>2, DatesAre
          <5>2. t # c
                BY <1>9, <4>2, <5>1
          <5> QED BY <2>3, <5>1, <5>2
        <4> QED BY <4>1, <4>2
      <3>12. Underway(r)'
            BY <2>5, <2>6, <2>10, <3>1, <3>5, <3>9, <3>10, <3>11 DEF Underway
      <3>13. ~Answers(r)'
            BY <2>5, <3>1 DEF Answers
      <3>14. RunInv(r)'
            BY <2>11, <2>12, <3>12, <3>13 DEF RunInv, Answered
      <3> QED BY <1>1, <2>5, <2>9, <3>14, OneRunMoves
    <2> QED BY <2>13, <2>14, <2>15
  <1> QED BY <1>11, <1>12, <1>13 DEF StoreDay

LEMMA DropTailKeeps ==
    ASSUME TrendInv, NEW r \in TrendRuns, DropTail(r)
    PROVE  TrendInv'
  <1>1. AtWork(r) /\ run[r].at = "drop" /\ UNCHANGED <<completed, bars>>
        BY DEF DropTail, AtWork
  <1>2. PICK p \in Chains : p = ChainOf(r)
        BY <1>1, RunOf
  <1>3. /\ run[r] \in RunType /\ RunInv(r) /\ completed # 0 /\ run[r].periods # <<>> /\ run[r].dates # {}
        BY <1>1, RunOf DEF RunInv, RunIsSound
  <1>4. PICK c : c = CurrentDate(r)
        OBVIOUS
  <1>5. PICK X : X = chain[p]
        OBVIOUS
  <1>6. PICK f : f = run[r].first
        OBVIOUS
  <1>7. PICK Y : Y = {e \in X : e.date < c}
        OBVIOUS
  <1>8. c \in Nat /\ f \in Nat /\ X \in SUBSET Snapshots /\ Y \in SUBSET Snapshots /\ OneADay(X)
    <2>1. f \in 0..(LastDate + 1)
          BY <1>3, <1>6 DEF RunType
    <2>2. f \in Nat
          BY <2>1
    <2>3. c \in Dates
          BY <1>3, <1>4, RunOf
    <2>4. c \in Nat
          BY <2>3, DatesCount
    <2>5. X \in SUBSET Snapshots /\ OneADay(X)
          BY SMTT(60), <1>1, <1>2, <1>5, RunOf
    <2> QED BY <1>7, <2>2, <2>4, <2>5
  <1>9. PICK w \in BOOLEAN : /\ run' = [run EXCEPT ![r] = [run[r] EXCEPT !.at = "finished", !.whole = w]]
                             /\ chain' = chain \/ chain' = [chain EXCEPT ![p] = Y]
                             /\ w => run[r].whole /\ chain' = [chain EXCEPT ![p] = Y]
    <2>1. run[r].whole \in BOOLEAN
          BY <1>3 DEF RunType
    <2>2. CASE chain' = [chain EXCEPT ![p] = Y] /\ Becomes(r, [run[r] EXCEPT !.at = "finished"])
      <3>1. [run[r] EXCEPT !.at = "finished"] = [run[r] EXCEPT !.at = "finished", !.whole = run[r].whole]
            BY <1>3 DEF RunType
      <3> QED BY <2>1, <2>2, <3>1 DEF Becomes
    <2>3. CASE chain' = chain /\ Becomes(r, [run[r] EXCEPT !.at = "finished", !.whole = FALSE])
          BY <2>3 DEF Becomes
    <2> QED BY <1>2, <1>4, <1>5, <1>7, <2>2, <2>3 DEF DropTail
  <1>10. /\ run'[r] \in RunType /\ run'[r].at = "finished" /\ run'[r].whole = w
         /\ run'[r].first = f /\ run'[r].periods = run[r].periods
         /\ run' \in [TrendRuns -> RunType] /\ \A t \in TrendRuns \ {r} : run'[t] = run[t]
        BY <1>3, <1>6, <1>9 DEF TrendInv, TrendTyped, RunType
  <1>11. TrendTyped'
    <2>1. OneADay(Y) /\ \A e \in Y : e.date \in TradingDates /\ e.date <= completed
          BY <1>5, <1>7, <1>8 DEF OneADay, TrendInv, TrendTyped
    <2>2. CASE chain' = chain
          BY <1>1, <1>10, <2>2 DEF TrendInv, TrendTyped
    <2>3. CASE chain' = [chain EXCEPT ![p] = Y]
      <3>1. chain' \in [Chains -> SUBSET Snapshots] /\ chain'[p] = Y /\ \A q \in Chains : q # p => chain'[q] = chain[q]
            BY <1>8, <2>3 DEF TrendInv, TrendTyped
      <3> QED BY <1>1, <1>10, <2>1, <3>1 DEF TrendInv, TrendTyped
    <2> QED BY <1>9, <2>2, <2>3
  <1>12. ChainOf(r)' = p
        BY <1>2, <1>10 DEF ChainOf
  <1>13. RunIsSound(r)'
        BY <1>1, <1>3, <1>10 DEF RunIsSound
  <1>14. WorksAlone(r)'
        BY <1>1, <1>3, <1>9, <1>10 DEF RunInv, WorksAlone, AtWork
  <1>15. w => WholeFrom(p, f)'
    <2> HAVE w
    <2>1. run[r].whole /\ chain'[p] = Y
          BY <1>8, <1>9 DEF TrendInv, TrendTyped
    <2>2. Made(X, f, c)
          BY <1>1, <1>2, <1>3, <1>4, <1>5, <1>6, <2>1 DEF RunInv, Underway
    <2>3. Made(Y, f, c)
      <3>1. \A e \in X : e.date \in Nat
            BY <1>8, DatesCount DEF Snapshots
      <3>2. \A e : e \in Y <=> e \in X /\ e.date < c
            BY <1>7
      <3>3. ASSUME NEW e \in Y PROVE PreviousIn(Y, e.date) = PreviousIn(X, e.date)
        <4>1. \A h : h \in Y /\ h.date < e.date <=> h \in X /\ h.date < e.date
              BY <1>8, <3>1, <3>2, <3>3
        <4> QED BY <4>1 DEF PreviousIn
      <3>4. ASSUME NEW e \in Y, NEW h \in Y, GivenUp(X, e, h.date)
            PROVE  GivenUp(Y, e, h.date)
        <4>1. PICK g \in X : e.date < g.date /\ g.date <= h.date /\ BoxStart(g.date, g.row.box) > e.date
              BY <3>4 DEF GivenUp
        <4>2. g \in Y
              BY <1>8, <3>1, <3>2, <3>4, <4>1
        <4> QED BY <4>1, <4>2 DEF GivenUp
      <3>5. \A e \in Y : f <= e.date /\ e.date < c => e = SnapshotOf(e.date, e.row, PreviousIn(Y, e.date))
            BY <2>2, <3>2, <3>3 DEF Made
      <3>6. \A d \in TradingDates : f <= d /\ d < c => \E e \in Y : e.date = d
            BY <2>2, <3>2 DEF Made
      <3>7. \A e, h \in Y :
               f <= e.date /\ e.date <= h.date /\ h.date < c /\ e.fresh /\ h.row.traded
                 => h.episode >= e.date \/ GivenUp(Y, e, h.date)
            BY <2>2, <3>2, <3>4 DEF Made
      <3>8. \A e, h \in Y :
               f <= e.date /\ e.date < h.date /\ h.date < c /\ e.fresh /\ h.fresh
                 => GivenUp(Y, e, h.date)
            BY <2>2, <3>2, <3>4 DEF Made
      <3> QED BY <3>5, <3>6, <3>7, <3>8 DEF Made
    <2>4. WholeIn(Y, f)
          BY <1>7, <1>8, <2>3, MadeIsWhole
    <2> QED BY <2>1, <2>4, WholeFromIs
  <1>16. Answered(r)'
    <2> SUFFICES ASSUME Answers(r)' PROVE WholeFrom(ChainOf(r), run[r].first)'
          BY DEF Answered
    <2>1. WholeFrom(p, f)'
          BY <1>10, <1>15 DEF Answers
    <2> QED BY <1>10, <1>12, <2>1
  <1>17. RunInv(r)'
        BY <1>10, <1>13, <1>14, <1>16 DEF RunInv, Underway
  <1> QED BY <1>1, <1>10, <1>11, <1>17, OneRunMoves

LEMMA TrendGoesOn == TrendInv /\ [TrendNext]_trendVars => TrendInv'
  <1> SUFFICES ASSUME TrendInv, [TrendNext]_trendVars PROVE TrendInv'
        OBVIOUS
  <1>1. CASE SessionCompletes
        BY <1>1, SessionCompletesKeeps
  <1>2. ASSUME NEW d \in Dates, BarsArrive(d) \/ BarsChange(d) PROVE TrendInv'
        BY <1>2, BarsKeep
  <1>3. ASSUME NEW r \in TrendRuns, StartTrend(r) PROVE TrendInv'
        BY <1>3, StartTrendKeeps
  <1>4. ASSUME NEW r \in TrendRuns, RunOn(r) PROVE TrendInv'
        BY <1>4, PlanRebuildKeeps, ComputeDayKeeps, StoreDayKeeps, DropTailKeeps, NextPeriodKeeps DEF RunOn
  <1>5. ASSUME NEW r \in TrendRuns, WorkerDies(r) PROVE TrendInv'
        BY <1>5, WorkerDiesKeeps
  <1>6. CASE UNCHANGED trendVars
    <2>1. UNCHANGED <<completed, bars, chain, run>>
          BY <1>6 DEF trendVars
    <2>2. TrendTyped'
          BY <2>1 DEF TrendInv, TrendTyped
    <2>3. completed' \in TradingDates \cup {0} /\ completed <= completed'
          BY <2>1, CompletedIs
    <2> QED BY <2>1, <2>2, <2>3, AroundKeeps DEF TrendInv
  <1> QED BY <1>1, <1>2, <1>3, <1>4, <1>5, <1>6 DEF TrendNext

(* A run that finished undisturbed leaves a chain, from its first date on, *)
(* that is what a rebuild would make of the same rows: whatever was stored *)
(* there before, wherever it broke off, and for any calendar, indicators,  *)
(* corrections, requested dates and number of periods and processes.       *)
THEOREM RebuildsWhole == TrendSpec => []RebuildsAreWhole
<1>1. TrendInv => RebuildsAreWhole
      BY DEF TrendInv, RunInv, Answered, RebuildsAreWhole
<1>2. TrendSpec => []TrendInv
      BY TrendStarts, TrendGoesOn, PTL DEF TrendSpec
<1> QED BY <1>1, <1>2, PTL

-----------------------------------------------------------------------------
(* The ranking cache.  The argument counts: every commit is either still   *)
(* on its way to the INCR, or has moved the revision on, or is lost.       *)

Committed == {w \in SnapshotWriters : writer[w] = "committed"}

(* The commits that are no longer on their way.  A body read under the     *)
(* revision of now is older than that only if an invalidation was lost     *)
(* after it was read.                                                      *)
Settled   == version - Cardinality(Committed)
Old(body) == \E v \in body : v < Settled

Counted ==
    /\ IsFiniteSet(Committed)
    /\ revision <= Settled
    /\ \A t \in lostAt : t <= hour

(* A ranking entry that is old was made no later than the last loss, and a *)
(* table entry from a body less than one lifetime after it.                *)
EntryIsSound(e) ==
    /\ e.body # {} /\ e.body \subseteq 0..version
    /\ e.revision <= revision
    /\ hour < e.until /\ e.until <= hour + CacheTtl
    /\ e.revision = revision /\ Old(e.body) =>
         \E t \in lostAt : IF e.page = "ranking" THEN e.until <= t + CacheTtl
                                                ELSE e.until < t + 2 * CacheTtl

RequestIsSound(q) ==
    /\ request[q].body \subseteq 0..version
    /\ request[q].ranking \cup request[q].table \subseteq 0..revision
    /\ request[q].at \in {"rest", "save", "saveTable"} <=> request[q].body # {}
    /\ request[q].at \in {"loadTable", "load"} => request[q].ranking = {}
    /\ request[q].at = "saveTable" => request[q].page = "table"
    /\ revision \in request[q].ranking /\ Old(request[q].body) => \E t \in lostAt : hour <= t
    /\ revision \in request[q].table /\ Old(request[q].body) => \E t \in lostAt : hour < t + CacheTtl

CacheInv ==
    /\ CacheTypeOK /\ Counted
    /\ \A e \in cached : EntryIsSound(e)
    /\ \A q \in PageRequests : RequestIsSound(q)

-----------------------------------------------------------------------------

LEMMA CacheInvInit == CacheInit => CacheInv
<1> SUFFICES ASSUME CacheInit PROVE CacheInv
  OBVIOUS
<1> USE CacheAssumption DEF CacheInit
<1>1. Committed = {}
  BY DEF Committed
<1>2. IsFiniteSet(Committed) /\ Cardinality(Committed) = 0
  BY <1>1, FS_EmptySet
<1>3. Counted
  BY <1>2 DEF Counted, Settled
<1>4. IsFiniteSet({}) /\ Cardinality({}) = 0
  BY FS_EmptySet
<1>5. CacheTypeOK
  BY <1>4 DEF CacheTypeOK, NoRequest, Pages, Revisions
<1>6. \A q \in PageRequests : RequestIsSound(q)
  BY DEF RequestIsSound, NoRequest
<1>7. QED
  BY <1>3, <1>5, <1>6 DEF CacheInv

LEMMA SettledType == CacheInv => Settled \in Int /\ Cardinality(Committed) \in Nat
<1> SUFFICES ASSUME CacheInv PROVE Settled \in Int /\ Cardinality(Committed) \in Nat
  OBVIOUS
<1>1. Cardinality(Committed) \in Nat
  BY FS_CardinalityType DEF CacheInv, Counted
<1>2. version \in Int
  BY CacheAssumption DEF CacheInv, CacheTypeOK
<1>3. QED
  BY <1>1, <1>2 DEF Settled

(* Where neither clock nor writers move, everything that stays is sound.   *)
LEMMA QuietStep ==
  ASSUME CacheInv, UNCHANGED <<hour, version, revision, writer, lostAt>>
  PROVE  /\ Counted'
         /\ \A e \in cached : EntryIsSound(e)'
         /\ \A q \in PageRequests : request'[q] = request[q] => RequestIsSound(q)'
         /\ Settled' = Settled
<1>1. Committed' = Committed
  BY DEF Committed
<1>2. Settled' = Settled
  BY <1>1 DEF Settled
<1>3. Counted'
  BY <1>1, <1>2 DEF CacheInv, Counted
<1>4. \A e \in cached : EntryIsSound(e)'
  BY <1>2 DEF CacheInv, EntryIsSound, Old
<1>5. \A q \in PageRequests : request'[q] = request[q] => RequestIsSound(q)'
  BY <1>2 DEF CacheInv, RequestIsSound, Old
<1>6. QED
  BY <1>2, <1>3, <1>4, <1>5

Requests == [at : {"idle", "loadTable", "load", "rows", "rest", "save", "saveTable"}, page : Pages,
             ranking : SUBSET Revisions, table : SUBSET Revisions, body : SUBSET (0..MaxWrites)]

(* A request goes on and leaves the entries alone.                         *)
LEMMA RequestStep ==
  ASSUME CacheInv, UNCHANGED <<hour, version, revision, writer, lostAt, cached>>,
         outages' \in 0..MaxOutages,
         NEW q \in PageRequests, NEW fields \in Requests, RequestGoes(q, fields),
         RequestIsSound(q)'
  PROVE  CacheInv'
<1>1. \A r \in PageRequests : RequestIsSound(r)'
  BY QuietStep DEF RequestGoes, CacheInv, CacheTypeOK
<1>2. request' \in [PageRequests -> Requests]
  BY DEF CacheInv, CacheTypeOK, RequestGoes, Requests
<1>3. CacheTypeOK'
  BY <1>2 DEF CacheInv, CacheTypeOK, Requests
<1>4. QED
  BY <1>1, <1>3, QuietStep DEF CacheInv

(* A request saves a body, or does not, and goes on.                       *)
LEMMA SaveStep ==
  ASSUME CacheInv, UNCHANGED <<hour, version, revision, writer, lostAt, outages>>,
         NEW q \in PageRequests, NEW fields \in Requests, RequestGoes(q, fields),
         RequestIsSound(q)',
         NEW page \in Pages, NEW read, NEW body \in SUBSET (0..version), body # {},
         cached' \in {cached, Saved(page, read, body)},
         revision \in read /\ Old(body) =>
           \E t \in lostAt : IF page = "ranking" THEN hour <= t ELSE hour < t + CacheTtl
  PROVE  CacheInv'
<1> USE CacheAssumption
<1>1. \A r \in PageRequests : RequestIsSound(r)'
  BY QuietStep DEF RequestGoes, CacheInv, CacheTypeOK
<1>2. request' \in [PageRequests -> Requests]
  BY DEF CacheInv, CacheTypeOK, RequestGoes, Requests
<1> DEFINE new == [page |-> page, revision |-> revision, body |-> body, until |-> hour + CacheTtl]
<1>3. /\ hour \in 0..LastHour /\ version \in 0..MaxWrites /\ revision \in 0..MaxWrites
      /\ lostAt \subseteq 0..LastHour
  BY DEF CacheInv, CacheTypeOK
<1>4. CASE cached' = cached
  <2>1. CacheTypeOK'
    BY <1>2, <1>4 DEF CacheInv, CacheTypeOK, Requests
  <2>2. QED
    BY <1>1, <1>4, <2>1, QuietStep DEF CacheInv
<1>5. CASE cached' # cached
  <2>1. /\ revision \in read
        /\ cached' = {e \in cached : e.page # page} \cup {new}
    BY <1>5 DEF Saved
  <2>2. EntryIsSound(new)'
    <3>1. hour < hour + CacheTtl /\ hour + CacheTtl <= hour + CacheTtl
      BY <1>3
    <3>2. ASSUME Old(body)
          PROVE  \E t \in lostAt : IF page = "ranking" THEN hour + CacheTtl <= t + CacheTtl
                                                        ELSE hour + CacheTtl < t + 2 * CacheTtl
      BY <1>3, <2>1, <3>2
    <3>3. Old(body)' <=> Old(body)
      BY QuietStep DEF Old
    <3>4. QED
      BY <1>3, <3>1, <3>2, <3>3 DEF EntryIsSound
  <2>3. \A e \in cached' : EntryIsSound(e)'
    BY <2>1, <2>2, QuietStep
  <2>4. CacheTypeOK'
    <3>1. new \in [page : Pages, revision : Revisions, body : SUBSET (0..MaxWrites),
                   until : 0..(LastHour + CacheTtl)]
      BY <1>3 DEF Revisions
    <3>2. cached' \subseteq [page : Pages, revision : Revisions, body : SUBSET (0..MaxWrites),
                             until : 0..(LastHour + CacheTtl)]
      BY <2>1, <3>1 DEF CacheInv, CacheTypeOK
    <3>3. \A e, f \in cached' : e.page = f.page => e = f
      BY <2>1 DEF CacheInv, CacheTypeOK
    <3>4. QED
      BY <1>2, <3>2, <3>3 DEF CacheInv, CacheTypeOK, Requests
  <2>5. QED
    BY <1>1, <2>3, <2>4, QuietStep DEF CacheInv
<1>6. QED
  BY <1>4, <1>5

(***************************************************************************)
(* The clock and the writers                                               *)
(***************************************************************************)

LEMMA ClockStep == CacheInv /\ HourPasses => CacheInv'
<1> SUFFICES ASSUME CacheInv, HourPasses PROVE CacheInv'
  OBVIOUS
<1> USE CacheAssumption DEF HourPasses
<1>1. Committed' = Committed /\ Settled' = Settled
  BY DEF Committed, Settled
<1>2. CacheTypeOK'
  BY DEF CacheInv, CacheTypeOK
<1>3. /\ hour \in Nat /\ hour' = hour + 1 /\ lostAt' = lostAt
      /\ \A t \in lostAt : t \in Nat /\ t <= hour
      /\ \A e \in cached : e.until \in Nat
  BY DEF CacheInv, CacheTypeOK, Counted
<1>4. Counted'
  BY <1>1, <1>3 DEF CacheInv, Counted
<1>5. ASSUME NEW e \in cached' PROVE EntryIsSound(e)'
  <2>1. e \in cached /\ e.until > hour' /\ EntryIsSound(e)
    BY <1>5 DEF CacheInv
  <2>2. Old(e.body)' <=> Old(e.body)
    BY <1>1 DEF Old
  <2>3. hour' < e.until /\ e.until <= hour' + CacheTtl
    BY <1>3, <2>1 DEF EntryIsSound
  <2>4. QED
    BY <1>3, <2>1, <2>2, <2>3 DEF EntryIsSound
<1>6. ASSUME NEW q \in PageRequests PROVE RequestIsSound(q)'
  (* Nothing waits for a page: there is no body to be old. *)
  <2>1. RequestIsSound(q) /\ request'[q] = request[q] /\ request[q].at = "idle"
    BY DEF CacheInv
  <2>2. request[q].body = {}
    BY <2>1 DEF RequestIsSound
  <2>3. QED
    BY <2>1, <2>2 DEF RequestIsSound, Old
<1>7. QED
  BY <1>2, <1>4, <1>5, <1>6 DEF CacheInv

LEMMA CommitStep ==
  ASSUME CacheInv, NEW w \in SnapshotWriters, CommitWrite(w) PROVE CacheInv'
<1> USE CacheAssumption DEF CommitWrite
<1>1. Committed' = Committed \cup {w} /\ w \notin Committed
  BY DEF Committed, CacheInv, CacheTypeOK
<1>2. IsFiniteSet(Committed') /\ Cardinality(Committed') = Cardinality(Committed) + 1
  BY <1>1, FS_AddElement DEF CacheInv, Counted
<1>3. version \in 0..MaxWrites /\ version' = version + 1 /\ version' \in 0..MaxWrites
  BY DEF CacheInv, CacheTypeOK
<1>4. Settled' = Settled
  BY <1>2, <1>3, SettledType DEF Settled
<1>5. Counted'
  BY <1>2, <1>4 DEF CacheInv, Counted
<1>6. CacheTypeOK'
  BY <1>3 DEF CacheInv, CacheTypeOK
<1>7. 0..version \subseteq 0..version'
  BY <1>3
<1>8. \A e \in cached' : EntryIsSound(e)'
  BY <1>4, <1>7 DEF CacheInv, EntryIsSound, Old
<1>9. \A q \in PageRequests : RequestIsSound(q)'
  BY <1>4, <1>7 DEF CacheInv, RequestIsSound, Old
<1>10. QED
  BY <1>5, <1>6, <1>8, <1>9 DEF CacheInv

(* Nothing that was read so far counts under the new revision.             *)
LEMMA RevisionStep ==
  ASSUME CacheInv, NEW w \in SnapshotWriters, MoveRevision(w) PROVE CacheInv'
<1> USE CacheAssumption DEF MoveRevision
<1>1. Committed' = Committed \ {w} /\ w \in Committed
  BY DEF Committed, CacheInv, CacheTypeOK
<1>2. IsFiniteSet(Committed') /\ Cardinality(Committed') = Cardinality(Committed) - 1
  BY <1>1, FS_RemoveElement DEF CacheInv, Counted
<1>3. /\ version \in 0..MaxWrites /\ revision \in 0..MaxWrites /\ version' = version
      /\ revision' = revision + 1
  BY DEF CacheInv, CacheTypeOK
<1>4. Settled' = Settled + 1
  BY <1>2, <1>3, SettledType DEF Settled
<1>5. Counted'
  BY <1>2, <1>3, <1>4, SettledType DEF CacheInv, Counted
<1>6. revision' \in 0..MaxWrites
  <2>1. Cardinality(Committed') \in Nat
    BY <1>2, FS_CardinalityType
  <2>2. revision' <= version' - Cardinality(Committed')
    BY <1>5 DEF Counted, Settled
  <2>3. QED
    BY <1>3, <2>1, <2>2
<1>7. CacheTypeOK'
  BY <1>6 DEF CacheInv, CacheTypeOK
<1>8. ASSUME NEW e \in cached' PROVE EntryIsSound(e)'
  <2>1. e \in cached /\ EntryIsSound(e) /\ e.revision \in Int
    BY DEF CacheInv, CacheTypeOK, Revisions
  <2>2. e.revision <= revision' /\ e.revision # revision'
    BY <1>3, <2>1 DEF EntryIsSound
  <2>3. QED
    BY <2>1, <2>2 DEF EntryIsSound
<1>9. ASSUME NEW q \in PageRequests PROVE RequestIsSound(q)'
  <2>1. RequestIsSound(q)
    BY DEF CacheInv
  <2>2. /\ revision' \notin 0..revision
        /\ 0..revision \subseteq 0..revision'
    BY <1>3
  <2>3. QED
    BY <2>1, <2>2 DEF RequestIsSound
<1>10. QED
  BY <1>5, <1>7, <1>8, <1>9 DEF CacheInv

LEMMA DeleteStep ==
  ASSUME CacheInv, NEW w \in SnapshotWriters, DeleteEntries(w) PROVE CacheInv'
<1> USE DEF DeleteEntries
<1>1. Committed' = Committed
  BY DEF Committed, CacheInv, CacheTypeOK
<1>2. Settled' = Settled
  BY <1>1 DEF Settled
<1>3. Counted'
  BY <1>1, <1>2 DEF CacheInv, Counted
<1>4. \A q \in PageRequests : RequestIsSound(q)'
  BY <1>2 DEF CacheInv, RequestIsSound, Old
<1>5. CacheTypeOK'
  BY DEF CacheInv, CacheTypeOK
<1>6. QED
  BY <1>3, <1>4, <1>5 DEF CacheInv

(* What is old from now on was read by now.                                *)
LEMMA LossStep ==
  ASSUME CacheInv, NEW w \in SnapshotWriters, LoseInvalidation(w) PROVE CacheInv'
<1> USE CacheAssumption DEF LoseInvalidation, Outage
<1>1. /\ hour \in 0..LastHour /\ revision \in 0..MaxWrites /\ version \in 0..MaxWrites
      /\ outages' \in 0..MaxOutages /\ writer' \in [SnapshotWriters -> {"idle", "committed", "deleting"}]
  BY DEF CacheInv, CacheTypeOK
<1>2. CASE writer[w] = "committed"
  <2>1. Committed' = Committed \ {w} /\ w \in Committed
    BY <1>2 DEF Committed, CacheInv, CacheTypeOK
  <2>2. IsFiniteSet(Committed') /\ Cardinality(Committed') = Cardinality(Committed) - 1
    BY <2>1, FS_RemoveElement DEF CacheInv, Counted
  <2>3. Settled' = Settled + 1
    BY <1>1, <2>2, SettledType DEF Settled
  <2>4. lostAt' = {hour} /\ Cardinality(lostAt') = 1
    BY <1>2, FS_Singleton
  <2>5. Counted'
    BY <1>1, <2>2, <2>3, <2>4, SettledType DEF CacheInv, Counted
  <2>6. CacheTypeOK'
    BY <1>1, <2>4 DEF CacheInv, CacheTypeOK
  <2>7. ASSUME NEW e \in cached' PROVE EntryIsSound(e)'
    <3>1. e \in cached /\ EntryIsSound(e) /\ e.until \in Nat
      BY DEF CacheInv, CacheTypeOK
    <3>2. hour \in lostAt' /\ e.until <= hour + CacheTtl /\ e.until < hour + 2 * CacheTtl
      BY <1>1, <2>4, <3>1 DEF EntryIsSound
    <3>3. QED
      BY <3>1, <3>2 DEF EntryIsSound
  <2>8. ASSUME NEW q \in PageRequests PROVE RequestIsSound(q)'
    <3>1. RequestIsSound(q)
      BY DEF CacheInv
    <3>2. hour \in lostAt' /\ hour <= hour /\ hour < hour + CacheTtl
      BY <1>1, <2>4
    <3>3. QED
      BY <3>1, <3>2 DEF RequestIsSound
  <2>9. QED
    BY <2>5, <2>6, <2>7, <2>8 DEF CacheInv
<1>3. CASE writer[w] # "committed"
  <2>1. Committed' = Committed /\ lostAt' = lostAt
    BY <1>3 DEF Committed, CacheInv, CacheTypeOK
  <2>2. Settled' = Settled
    BY <2>1 DEF Settled
  <2>3. Counted'
    BY <2>1, <2>2 DEF CacheInv, Counted
  <2>4. CacheTypeOK'
    BY <1>1, <2>1 DEF CacheInv, CacheTypeOK
  <2>5. \A e \in cached' : EntryIsSound(e)'
    BY <2>1, <2>2 DEF CacheInv, EntryIsSound, Old
  <2>6. \A q \in PageRequests : RequestIsSound(q)'
    BY <2>1, <2>2 DEF CacheInv, RequestIsSound, Old
  <2>7. QED
    BY <2>3, <2>4, <2>5, <2>6 DEF CacheInv
<1>4. QED
  BY <1>2, <1>3

(***************************************************************************)
(* The requests                                                            *)
(***************************************************************************)

LEMMA RequestFacts ==
  ASSUME CacheInv, NEW q \in PageRequests
  PROVE  /\ request[q] \in Requests
         /\ \A fields : RequestGoes(q, fields) => request'[q] = fields
         /\ outages \in 0..MaxOutages /\ (Outage => outages' \in 0..MaxOutages)
         /\ version \in 0..MaxWrites /\ revision \in 0..MaxWrites
         /\ hour \in 0..LastHour /\ lostAt \subseteq 0..LastHour
  BY CacheAssumption DEF CacheInv, CacheTypeOK, Requests, RequestGoes, Outage

LEMMA AskStep ==
  ASSUME CacheInv, NEW q \in PageRequests, NEW page \in Pages, Ask(q, page) PROVE CacheInv'
<1> DEFINE fields == [NoRequest EXCEPT !.at = IF page = "table" THEN "loadTable" ELSE "load", !.page = page]
<1>1. fields \in Requests
  BY DEF NoRequest, Requests, Pages
<1>2. request'[q] = fields
  BY RequestFacts DEF Ask
<1>3. fields.body = {} /\ fields.ranking = {} /\ fields.table = {} /\ fields.at \in {"load", "loadTable"}
  BY DEF NoRequest
<1>4. RequestIsSound(q)'
  BY <1>2, <1>3 DEF RequestIsSound
<1> HIDE DEF fields
<1>5. RequestGoes(q, fields)
  BY DEF Ask, fields
<1>6. QED
  BY <1>1, <1>4, <1>5, RequestStep, RequestFacts DEF Ask

(* A request that is over is sound.                                        *)
LEMMA OverStep ==
  ASSUME CacheInv, NEW q \in PageRequests, RequestGoes(q, NoRequest)
  PROVE  NoRequest \in Requests /\ RequestIsSound(q)'
<1>1. NoRequest \in Requests
  BY DEF NoRequest, Requests, Pages
<1>2. request'[q] = NoRequest
  BY RequestFacts
<1>3. QED
  BY <1>1, <1>2 DEF NoRequest, RequestIsSound

LEMMA LoadTableStep ==
  ASSUME CacheInv, NEW q \in PageRequests, LoadTable(q) PROVE CacheInv'
<1> USE DEF LoadTable
<1>1. CASE Hits("table") # {}
  BY <1>1, OverStep, RequestStep, RequestFacts
<1>2. CASE Hits("table") = {}
  <2> DEFINE fields == [request[q] EXCEPT !.at = "load", !.table = {revision}]
  <2>1. RequestGoes(q, fields)
    BY <1>2
  <2>2. request[q] \in Requests /\ revision \in Revisions /\ RequestIsSound(q)
    BY RequestFacts DEF Revisions, CacheInv
  <2>3. fields \in Requests
    BY <2>2 DEF Requests
  <2>4. request'[q] = fields
    BY <2>1, RequestFacts
  <2>5. request[q].body = {}
    BY <2>2 DEF RequestIsSound
  <2>6. fields.body = {} /\ fields.ranking = request[q].ranking /\ fields.table = {revision} /\ fields.at = "load"
    BY <2>2, <2>5 DEF Requests
  <2>7. RequestIsSound(q)'
    BY <2>2, <2>4, <2>6, RequestFacts DEF RequestIsSound, Old
  <2> HIDE DEF fields
  <2>8. QED
    BY <2>1, <2>3, <2>7, RequestStep, RequestFacts
<1>3. QED
  BY <1>1, <1>2

LEMMA WithBodyStep ==
  ASSUME CacheInv, NEW q \in PageRequests, NEW body \in SUBSET (0..version), body # {},
         RequestGoes(q, WithBody(q, body)),
         UNCHANGED <<hour, version, revision, writer, lostAt>>,
         revision \in request[q].table /\ Old(body) => \E t \in lostAt : hour < t + CacheTtl
  PROVE  WithBody(q, body) \in Requests /\ RequestIsSound(q)'
<1> DEFINE fields == [request[q] EXCEPT !.at = "saveTable", !.ranking = {}, !.body = body]
<1>1. CASE request[q].page # "table"
  BY <1>1, OverStep DEF WithBody
<1>2. CASE request[q].page = "table"
  <2>1. request[q] \in Requests /\ RequestIsSound(q) /\ version \in 0..MaxWrites
    BY RequestFacts DEF CacheInv
  <2>2. WithBody(q, body) = fields
    BY <1>2 DEF WithBody
  <2>3. body \in SUBSET (0..MaxWrites)
    BY <2>1, CacheAssumption
  <2>4. fields \in Requests
    BY <2>1, <2>3 DEF Requests
  <2>5. request'[q] = fields
    BY <2>2, RequestFacts
  <2>6. /\ fields.at = "saveTable" /\ fields.page = "table" /\ fields.ranking = {}
        /\ fields.table = request[q].table /\ fields.body = body
    BY <1>2, <2>1 DEF Requests
  <2>7. Old(body)' <=> Old(body)
    BY QuietStep DEF Old
  <2>8. RequestIsSound(q)'
    BY <2>1, <2>5, <2>6, <2>7 DEF RequestIsSound
  <2>9. QED
    BY <2>2, <2>4, <2>8
<1>3. QED
  BY <1>1, <1>2

LEMMA LoadRankingStep ==
  ASSUME CacheInv, NEW q \in PageRequests, LoadRanking(q) PROVE CacheInv'
<1> USE DEF LoadRanking
<1>0. request[q] \in Requests /\ revision \in Revisions /\ RequestIsSound(q)
  BY RequestFacts DEF Revisions, CacheInv
<1>1. ASSUME NEW e \in Hits("ranking"), RequestGoes(q, WithBody(q, e.body)) PROVE CacheInv'
  (* The body of a hit is old for as long as the hit is. *)
  <2>1. e \in cached /\ EntryIsSound(e) /\ e.page = "ranking" /\ e.revision = revision /\ e.until \in Nat
    BY <1>1 DEF Hits, CacheInv, CacheTypeOK
  <2>2. e.body \in SUBSET (0..version) /\ e.body # {}
    BY <2>1 DEF EntryIsSound
  <2>3. Old(e.body) => \E t \in lostAt : hour < t + CacheTtl
    <3>1. SUFFICES ASSUME Old(e.body) PROVE \E t \in lostAt : hour < t + CacheTtl
      OBVIOUS
    <3>2. PICK t \in lostAt : e.until <= t + CacheTtl
      BY <2>1, <3>1 DEF EntryIsSound
    <3>3. hour < e.until /\ hour \in Nat /\ t \in Nat
      BY <2>1, RequestFacts DEF EntryIsSound
    <3>4. QED
      BY <2>1, <3>2, <3>3, CacheAssumption
  <2>4. WithBody(q, e.body) \in Requests /\ RequestIsSound(q)'
    BY <1>1, <2>2, <2>3, WithBodyStep
  <2>5. QED
    BY <1>1, <2>4, RequestStep, RequestFacts
<1>2. CASE RequestGoes(q, [request[q] EXCEPT !.at = "rows", !.ranking = {revision}])
  <2> DEFINE fields == [request[q] EXCEPT !.at = "rows", !.ranking = {revision}]
  <2>1. RequestGoes(q, fields)
    BY <1>2
  <2>3. fields \in Requests
    BY <1>0 DEF Requests
  <2>4. request'[q] = fields
    BY <2>1, RequestFacts
  <2>5. request[q].body = {}
    BY <1>0 DEF RequestIsSound
  <2>6. fields.body = {} /\ fields.ranking = {revision} /\ fields.table = request[q].table /\ fields.at = "rows"
    BY <1>0, <2>5 DEF Requests
  <2>7. RequestIsSound(q)'
    BY <1>0, <2>4, <2>6, RequestFacts DEF RequestIsSound, Old
  <2> HIDE DEF fields
  <2>8. QED
    BY <2>1, <2>3, <2>7, RequestStep, RequestFacts
<1>3. QED
  BY <1>1, <1>2

LEMMA UnavailableStep ==
  ASSUME CacheInv, NEW q \in PageRequests, LoadUnavailable(q) PROVE CacheInv'
<1> USE DEF LoadUnavailable
<1>1. PICK next \in {"load", "rows"} :
        RequestGoes(q, [request[q] EXCEPT !.at = next]) /\ request[q].at \in {"loadTable", "load"}
  OBVIOUS
<1> DEFINE fields == [request[q] EXCEPT !.at = next]
<1>2. request[q] \in Requests /\ RequestIsSound(q)
  BY RequestFacts DEF CacheInv
<1>3. fields \in Requests
  BY <1>2 DEF Requests
<1>4. request'[q] = fields
  BY <1>1, RequestFacts
<1>5. /\ fields.body = {} /\ fields.ranking = {} /\ fields.table = request[q].table /\ fields.at = next
  BY <1>1, <1>2 DEF Requests, RequestIsSound
<1>6. RequestIsSound(q)'
  BY <1>2, <1>4, <1>5 DEF RequestIsSound, Old
<1> HIDE DEF fields
<1>7. RequestGoes(q, fields)
  BY <1>1 DEF fields
<1>8. QED
  BY <1>3, <1>6, <1>7, RequestStep, RequestFacts

(* What the database says now is never old.                                *)
LEMMA ReadIsNew == CacheInv => ~Old({version})
  BY FS_CardinalityType, RequestFacts, CacheAssumption
     DEF CacheInv, CacheTypeOK, Counted, Old, Settled

LEMMA ReadStep ==
  ASSUME CacheInv, NEW q \in PageRequests, ReadDashboard(q) \/ ReadRest(q) PROVE CacheInv'
<1> USE DEF ReadDashboard, ReadRest
<1>1. request[q] \in Requests /\ RequestIsSound(q) /\ version \in 0..MaxWrites
  BY RequestFacts DEF CacheInv
<1>2. PICK next \in {"rest", "save"}, body \in {{version}, request[q].body \cup {version}} :
        RequestGoes(q, [request[q] EXCEPT !.at = next, !.body = body])
  BY <1>1 DEF Requests
<1> DEFINE fields == [request[q] EXCEPT !.at = next, !.body = body]
<1>3. fields \in Requests
  BY <1>1 DEF Requests
<1>4. request'[q] = fields
  BY <1>2, RequestFacts
<1>5. /\ fields.body = body /\ fields.ranking = request[q].ranking /\ fields.table = request[q].table
      /\ fields.at = next
  BY <1>1 DEF Requests
<1>6. Old(body) => Old(request[q].body)
  BY ReadIsNew DEF Old
<1>7. Old(body)' <=> Old(body)
  BY QuietStep DEF Old
<1>8. RequestIsSound(q)'
  BY <1>1, <1>4, <1>5, <1>6, <1>7, CacheAssumption DEF RequestIsSound
<1> HIDE DEF fields
<1>9. RequestGoes(q, fields)
  BY <1>2 DEF fields
<1>10. QED
  BY <1>3, <1>8, <1>9, RequestStep, RequestFacts

LEMMA SaveRankingStep ==
  ASSUME CacheInv, NEW q \in PageRequests, SaveRanking(q) PROVE CacheInv'
<1> USE DEF SaveRanking
<1>1. request[q] \in Requests /\ RequestIsSound(q)
  BY RequestFacts DEF CacheInv
<1>2. request[q].body \in SUBSET (0..version) /\ request[q].body # {}
  BY <1>1 DEF RequestIsSound
<1>3. WithBody(q, request[q].body) \in Requests /\ RequestIsSound(q)'
  BY <1>1, <1>2, WithBodyStep DEF RequestIsSound
<1>4. revision \in request[q].ranking /\ Old(request[q].body) => \E t \in lostAt : hour <= t
  BY <1>1 DEF RequestIsSound
<1>5. QED
  BY <1>2, <1>3, <1>4, SaveStep DEF Pages

LEMMA SaveTableStep ==
  ASSUME CacheInv, NEW q \in PageRequests, SaveTable(q) PROVE CacheInv'
<1> USE DEF SaveTable
<1>1. request[q] \in Requests /\ RequestIsSound(q)
  BY RequestFacts DEF CacheInv
<1>2. request[q].body \in SUBSET (0..version) /\ request[q].body # {}
  BY <1>1 DEF RequestIsSound
<1>3. revision \in request[q].table /\ Old(request[q].body) => \E t \in lostAt : hour < t + CacheTtl
  BY <1>1 DEF RequestIsSound
<1>4. QED
  BY <1>2, <1>3, OverStep, SaveStep DEF Pages

LEMMA CacheInvNext == CacheInv /\ [CacheNext]_cacheVars => CacheInv'
<1> SUFFICES ASSUME CacheInv, [CacheNext]_cacheVars PROVE CacheInv'
  OBVIOUS
<1>1. CASE HourPasses
  BY <1>1, ClockStep
<1>2. ASSUME NEW w \in SnapshotWriters,
             CommitWrite(w) \/ MoveRevision(w) \/ DeleteEntries(w) \/ LoseInvalidation(w)
      PROVE  CacheInv'
  BY <1>2, CommitStep, RevisionStep, DeleteStep, LossStep
<1>3. ASSUME NEW q \in PageRequests,
             \/ \E page \in Pages : Ask(q, page)
             \/ LoadTable(q) \/ LoadRanking(q) \/ LoadUnavailable(q) \/ ReadDashboard(q) \/ ReadRest(q)
             \/ NotFound(q) \/ SaveRanking(q) \/ SaveTable(q)
      PROVE  CacheInv'
  <2>1. CASE NotFound(q)
    BY <2>1, OverStep, RequestStep, RequestFacts DEF NotFound
  <2>2. QED
    BY <1>3, <2>1, AskStep, LoadTableStep, LoadRankingStep, UnavailableStep, ReadStep,
       SaveRankingStep, SaveTableStep
<1>4. CASE UNCHANGED cacheVars
  <2>1. CacheTypeOK' /\ cached' = cached /\ request' = request
    BY <1>4 DEF cacheVars, CacheInv, CacheTypeOK
  <2>2. QED
    BY <1>4, <2>1, QuietStep DEF cacheVars, CacheInv
<1>5. QED
  BY <1>1, <1>2, <1>3, <1>4 DEF CacheNext

-----------------------------------------------------------------------------

(* The variables keep their types, and at most one entry per page is kept. *)
(* (SnapshotRankingCache.load, save, invalidate_namespace)                 *)
THEOREM CacheTyping == CacheSpec => []CacheTypeOK
<1>1. CacheInv => CacheTypeOK
  BY DEF CacheInv
<1>2. QED
  BY <1>1, CacheInvInit, CacheInvNext, PTL DEF CacheSpec

(* Whoever hits the cache gets what the database says, unless its writer   *)
(* is between commit and INCR, or the invalidation was lost less than two  *)
(* lifetimes ago.  (SnapshotRankingCache.load and save)                    *)
THEOREM Freshness == CacheSpec => []HitsAreFresh
<1>1. CacheInv => HitsAreFresh
  <2> SUFFICES ASSUME CacheInv, NEW page \in Pages, NEW e \in Hits(page),
                      e.body # {version}, Committed = {}
               PROVE  \E t \in lostAt : hour < t + 2 * CacheTtl
    BY DEF HitsAreFresh, Committed
  <2>1. e \in cached /\ EntryIsSound(e) /\ e.revision = revision /\ e.until \in Nat
    BY DEF Hits, CacheInv, CacheTypeOK
  <2>2. Settled = version /\ version \in Nat /\ hour \in Nat /\ lostAt \subseteq Nat
    BY FS_EmptySet DEF Settled, CacheInv, CacheTypeOK
  <2>3. Old(e.body)
    BY <2>1, <2>2 DEF EntryIsSound, Old
  <2>4. PICK t \in lostAt : e.until <= t + 2 * CacheTtl
    BY <2>1, <2>2, <2>3, CacheAssumption DEF EntryIsSound
  <2>5. hour < e.until
    BY <2>1 DEF EntryIsSound
  <2>6. QED
    BY <2>1, <2>2, <2>4, <2>5, CacheAssumption
<1>2. QED
  BY <1>1, CacheInvInit, CacheInvNext, PTL DEF CacheSpec

-----------------------------------------------------------------------------
(* The jobs together                                                       *)

LEMMA EachJob == JobsSpec => TrainSpec /\ TrendSpec /\ CacheSpec
<1>1. JobsInit => TrainInit /\ TrendInit /\ CacheInit
      BY DEF JobsInit
<1>2. [JobsNext]_jobsVars => [TrainNext]_trainVars /\ [TrendNext]_trendVars /\ [CacheNext]_cacheVars
      BY DEF JobsNext, jobsVars
<1> QED BY <1>1, <1>2, PTL DEF JobsSpec, TrainSpec, TrendSpec, CacheSpec

(* Whichever job a behaviour moves, all three keep what they promise.      *)
(* (quant/training, trend_following, ranking_cache.py)                     *)
THEOREM JobsAreSound == JobsSpec => [](RebuildsAreWhole /\ HitsAreFresh) /\ ConclusionStays
BY EachJob, RebuildsWhole, Freshness, VerdictStays, PTL
=============================================================================
