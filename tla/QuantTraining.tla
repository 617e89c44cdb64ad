--------------------------- MODULE QuantTraining ---------------------------
(***************************************************************************)
(* An experiment: two model runs from the administrator's request to the   *)
(* row's last status.  The API writes the drafts and queues their          *)
(* preparation, which exports one dataset and queues one training task per *)
(* run; that task claims its run, sends it to the Qlib worker and hands    *)
(* its own task row to the worker's callbacks (finalize or fail).          *)
(*                                                                         *)
(* Every step below is one transaction, one message or one read.  A send   *)
(* may raise although the broker took the message, a commit may raise      *)
(* although the database made it, a message may be delivered twice and any *)
(* process may die: each costs one of MaxTrainFaults.  runLost names the   *)
(* runs one of whose messages, processes or writes disappeared: nothing in *)
(* the code looks for those again.                                         *)
(***************************************************************************)
EXTENDS Naturals

CONSTANTS
    Runs,          \* the experiment's model runs
    TrainRetries,  \* max_retries of quant.model.train.finalize
    MaxTrainFaults \* bound on the failures of one behaviour

ASSUME TrainRetriesAssumption == TrainRetries \in Nat
ASSUME TrainFaultsAssumption  == MaxTrainFaults \in Nat

VARIABLES
    api,       \* the request: idle, sending, failing or answered
    prep,      \* the step of the preparation's task
    left,      \* the runs its current loop has still to treat
    doomed,    \* the run its failure branch has just read as a draft
    runStatus, \* ModelRun.status
    claims,    \* history: how often the run was claimed for training
    job,       \* per run and delivery, the step of the training task
    training,  \* per run and delivery, the Qlib training and then its callback
    retried,   \* the retries of that callback
    told,      \* the task row the training task handed over
    runLost,   \* history: runs that lost a message, a process or a write
    runFaults

trainVars == <<api, prep, left, doomed, runStatus, claims, job, training, retried, told,
               runLost, runFaults>>

Copies      == {1, 2}
Accepted    == {"candidate", "production", "retired"}
RunStatuses == {"absent", "draft", "training", "failed"} \cup Accepted

TrainTypeOK ==
    /\ api \in {"idle", "sending", "failing", "answered"}
    /\ prep \in {"none", "queued", "sending", "reading", "failing", "over"}
    /\ left \subseteq Runs
    /\ doomed \subseteq left
    /\ runStatus \in [Runs -> RunStatuses]
    /\ claims \in [Runs -> Nat]
    /\ job \in [Runs -> [Copies -> {"none", "queued", "read", "claimed", "sent",
                                    "failing", "reporting", "over"}]]
    /\ training \in [Runs -> [Copies -> {"none", "queued", "finalize", "fail", "update",
                                     "giveup", "good", "bad", "over"}]]
    /\ retried \in [Runs -> [Copies -> 0..TrainRetries]]
    /\ told \in [Runs -> {"open", "completed", "failed"}]
    /\ runLost \subseteq Runs
    /\ runFaults \in 0..MaxTrainFaults
    /\ \A r \in Runs : runStatus[r] = "absent" => claims[r] = 0 /\ told[r] = "open"

TrainInit ==
    /\ api = "idle"
    /\ prep = "none"
    /\ left = {}
    /\ doomed = {}
    /\ runStatus = [r \in Runs |-> "absent"]
    /\ claims = [r \in Runs |-> 0]
    /\ job = [r \in Runs |-> [c \in Copies |-> "none"]]
    /\ training = [r \in Runs |-> [c \in Copies |-> "none"]]
    /\ retried = [r \in Runs |-> [c \in Copies |-> 0]]
    /\ told = [r \in Runs |-> "open"]
    /\ runLost = {}
    /\ runFaults = 0

TrainFault == runFaults < MaxTrainFaults /\ runFaults' = runFaults + 1
Fine  == UNCHANGED runFaults

UpdateAnyRun(r, expected, to) == runStatus' = [runStatus EXCEPT ![r] = to]

(* update_model_run with expected_statuses: it compares and sets in one    *)
(* transaction, and returns False without a write otherwise.               *)
UpdateRun(r, expected, to) ==
    runStatus' = IF runStatus[r] \in expected THEN [runStatus EXCEPT ![r] = to] ELSE runStatus

(* QuantTrainingPipeline.fail *)
Fail(r) == UpdateRun(r, {"draft", "training"}, "failed")

(* A message: taken once, taken although the send raised, or delivered     *)
(* twice.                                                                  *)
Deliver(box, r, copies) ==
    [box EXCEPT ![r] = [c \in Copies |-> IF c \in copies THEN "queued" ELSE @[c]]]

(***************************************************************************)
(* The request and the preparation                                         *)
(***************************************************************************)
CreateExperiment ==
    /\ api = "idle"
    /\ api' = "sending"
    /\ runStatus' = [r \in Runs |-> "draft"]
    /\ UNCHANGED <<prep, left, doomed, claims, job, training, retried, told, runLost>> /\ Fine

SubmitPreparation ==
    /\ api = "sending"
    /\ api' = "answered" /\ prep' = "queued"
    /\ UNCHANGED <<left, doomed, runStatus, claims, job, training, retried, told, runLost>> /\ Fine

(* apply_async raises, whether or not the broker took the message.         *)
SubmitRaises ==
    /\ api = "sending"
    /\ TrainFault
    /\ api' = "failing"
    /\ prep' \in {"none", "queued"}
    /\ UNCHANGED <<left, doomed, runStatus, claims, job, training, retried, told, runLost>>

(* The API's failure branch writes whatever the status is by then, one run *)
(* after the other.                                                        *)
RefuseExperiment(r) ==
    /\ api = "failing"
    /\ runStatus[r] # "failed"
    /\ runStatus' = [runStatus EXCEPT ![r] = "failed"]
    /\ UNCHANGED <<api, prep, left, doomed, claims, job, training, retried, told, runLost>> /\ Fine

Refused ==
    /\ api = "failing"
    /\ \A r \in Runs : runStatus[r] = "failed"
    /\ api' = "answered"
    /\ UNCHANGED <<prep, left, doomed, runStatus, claims, job, training, retried, told, runLost>>
    /\ Fine

(* Every run must still be a draft; then the preflight and the export.     *)
StartPreparation ==
    /\ prep = "queued"
    /\ IF \E r \in Runs : runStatus[r] # "draft"
       THEN prep' = "over" /\ UNCHANGED left
       ELSE prep' \in {"sending", "reading"} /\ left' = Runs
    /\ UNCHANGED <<api, doomed, runStatus, claims, job, training, retried, told, runLost>> /\ Fine

(* The dataset is written to a run that is still a draft, and its training *)
(* queued: the loop goes on past any other run.                            *)
QueueTraining(r) ==
    /\ prep = "sending" /\ r \in left
    /\ IF runStatus[r] # "draft" THEN UNCHANGED job /\ Fine
       ELSE \/ job' = Deliver(job, r, {1}) /\ Fine
            \/ job' = Deliver(job, r, Copies) /\ TrainFault
    /\ left' = left \ {r}
    /\ prep' = IF left' = {} THEN "over" ELSE "sending"
    /\ UNCHANGED <<api, doomed, runStatus, claims, training, retried, told, runLost>>

QueueRaisesUnhandled(r) ==
    /\ prep = "sending" /\ r \in left
    /\ TrainFault
    /\ UNCHANGED job \/ (runStatus[r] = "draft" /\ job' = Deliver(job, r, {1}))
    /\ prep' = "over" /\ left' = {}
    /\ UNCHANGED <<api, doomed, runStatus, claims, training, retried, told, runLost>>

QueueRaises(r) ==
    /\ prep = "sending" /\ r \in left
    /\ TrainFault
    /\ \/ UNCHANGED job
       \/ runStatus[r] = "draft" /\ job' = Deliver(job, r, {1})
    /\ prep' = "reading" /\ left' = Runs
    /\ UNCHANGED <<api, doomed, runStatus, claims, training, retried, told, runLost>>

(* Its failure branch reads each run and fails the drafts, one by one; in  *)
(* between the training of the draft it read may have begun.               *)
ReadDraft(r) ==
    /\ prep = "reading" /\ r \in left
    /\ IF runStatus[r] = "draft"
       THEN prep' = "failing" /\ doomed' = {r} /\ UNCHANGED left
       ELSE /\ left' = left \ {r} /\ UNCHANGED doomed
            /\ prep' = IF left' = {} THEN "over" ELSE "reading"
    /\ UNCHANGED <<api, runStatus, claims, job, training, retried, told, runLost>> /\ Fine

FailDraft(r) ==
    /\ prep = "failing" /\ r \in doomed
    /\ Fail(r)
    /\ left' = left \ {r} /\ doomed' = {}
    /\ prep' = IF left' = {} THEN "over" ELSE "reading"
    /\ UNCHANGED <<api, claims, job, training, retried, told, runLost>> /\ Fine

(* The API or the preparation's worker dies.                               *)
RequestDies ==
    /\ \/ api \in {"sending", "failing"} /\ api' = "answered" /\ UNCHANGED prep
       \/ prep \notin {"none", "over"} /\ prep' = "over" /\ UNCHANGED api
    /\ TrainFault
    /\ left' = {} /\ doomed' = {}
    /\ runLost' = Runs
    /\ UNCHANGED <<runStatus, claims, job, training, retried, told>>

(***************************************************************************)
(* The training task, one instance per delivery of its message             *)
(***************************************************************************)
requestVars == <<api, prep, left, doomed>>

Job(r, c, from, to) == job[r][c] = from /\ job' = [job EXCEPT ![r][c] = to]

(* prepare reads the run: only a draft may start.  An error of its other   *)
(* checks, or of the database, is not TrainingAlreadyStartedError.         *)
ReadRun(r, c) ==
    /\ \/ Job(r, c, "queued", IF runStatus[r] = "draft" THEN "read" ELSE "reporting")
       \/ runStatus[r] = "draft" /\ Job(r, c, "queued", "failing")
    /\ UNCHANGED <<requestVars, runStatus, claims, training, retried, told, runLost>> /\ Fine

Claim(r, c) ==
    /\ Job(r, c, "read", IF runStatus[r] = "draft" THEN "claimed" ELSE "reporting")
    /\ UpdateRun(r, {"draft"}, "training")
    /\ claims' = [claims EXCEPT ![r] = IF runStatus[r] = "draft" THEN @ + 1 ELSE @]
    /\ UNCHANGED <<requestVars, training, retried, told, runLost>> /\ Fine

(* The claim raises, before or after the database committed it.            *)
ClaimRaises(r, c) ==
    /\ Job(r, c, "read", "failing")
    /\ TrainFault
    /\ \/ UNCHANGED <<runStatus, claims>>
       \/ /\ runStatus[r] = "draft"
          /\ UpdateRun(r, {"draft"}, "training")
          /\ claims' = [claims EXCEPT ![r] = @ + 1]
    /\ UNCHANGED <<requestVars, training, retried, told, runLost>>

SendToQlib(r, c) ==
    /\ Job(r, c, "claimed", "sent")
    /\ \/ training' = Deliver(training, r, {1}) /\ Fine
       \/ training' = Deliver(training, r, Copies) /\ TrainFault
    /\ UNCHANGED <<requestVars, runStatus, claims, retried, told, runLost>>

SendRaises(r, c) ==
    /\ Job(r, c, "claimed", "failing")
    /\ TrainFault
    /\ UNCHANGED training \/ training' = Deliver(training, r, {1})
    /\ UNCHANGED <<requestVars, runStatus, claims, retried, told, runLost>>

(* mark_dispatched writes the Qlib task's id to a run that is training;    *)
(* the task then ends without concluding its row.                          *)
MarkDispatched(r, c) ==
    /\ \/ Job(r, c, "sent", "over") /\ Fine
       \/ Job(r, c, "sent", "failing") /\ TrainFault
    /\ UNCHANGED <<requestVars, runStatus, claims, training, retried, told, runLost>>

FailRun(r, c) ==
    /\ Job(r, c, "failing", "reporting")
    /\ Fail(r)
    /\ UNCHANGED <<requestVars, claims, training, retried, told, runLost>> /\ Fine

ReportTrainingFailure(r, c) ==
    /\ Job(r, c, "reporting", "over")
    /\ told' = [told EXCEPT ![r] = "failed"]
    /\ UNCHANGED <<requestVars, runStatus, claims, training, retried, runLost>> /\ Fine

(* The write of a failing branch raises itself, or the process dies.       *)
JobDies(r, c) ==
    /\ job[r][c] \notin {"none", "over"}
    /\ Job(r, c, job[r][c], "over")
    /\ TrainFault
    /\ runLost' = runLost \cup {r}
    /\ UNCHANGED <<requestVars, runStatus, claims, training, retried, told>>

(***************************************************************************)
(* The Qlib worker and the callbacks                                       *)
(***************************************************************************)
Trainer(r, c, from, to) == training[r][c] = from /\ training' = [training EXCEPT ![r][c] = to]

(* commit_model gives every training of one run the same artifact.         *)
Train(r, c) ==
    /\ \E callback \in {"finalize", "fail"} : Trainer(r, c, "queued", callback)
    /\ UNCHANGED <<requestVars, runStatus, claims, job, retried, told, runLost>> /\ Fine

(* An exception in finalize: a retry, or the failure branch.               *)
FinalizeRaises(r, c) ==
    IF retried[r][c] < TrainRetries
    THEN /\ training' = [training EXCEPT ![r][c] = "finalize"]
         /\ retried' = [retried EXCEPT ![r][c] = @ + 1]
    ELSE /\ training' = [training EXCEPT ![r][c] = "giveup"]
         /\ UNCHANGED retried

(* finalize repeats an accepted result and refuses one of a failed run.    *)
ReadForFinalize(r, c) ==
    /\ training[r][c] = "finalize"
    /\ CASE runStatus[r] \in Accepted   -> Trainer(r, c, "finalize", "good") /\ UNCHANGED retried
         [] runStatus[r] = "training"   -> Trainer(r, c, "finalize", "update") /\ UNCHANGED retried
         [] OTHER                    -> FinalizeRaises(r, c)
    /\ UNCHANGED <<requestVars, runStatus, claims, job, told, runLost>> /\ Fine

(* It does not look at what update_model_run returns.                      *)
Accept(r, c) ==
    /\ Trainer(r, c, "update", "good")
    /\ UpdateRun(r, {"training"}, "candidate")
    /\ UNCHANGED <<requestVars, claims, job, retried, told, runLost>> /\ Fine

AcceptRaises(r, c) ==
    /\ training[r][c] = "update"
    /\ TrainFault
    /\ FinalizeRaises(r, c)
    /\ UNCHANGED runStatus \/ UpdateRun(r, {"training"}, "candidate")
    /\ UNCHANGED <<requestVars, claims, job, told, runLost>>

(* fail_quant_model leaves an accepted run and its task row alone.         *)
ReadForFail(r, c) ==
    /\ Trainer(r, c, "fail", IF runStatus[r] \in Accepted THEN "over" ELSE "giveup")
    /\ UNCHANGED <<requestVars, runStatus, claims, job, retried, told, runLost>> /\ Fine

GiveUpTraining(r, c) ==
    /\ Trainer(r, c, "giveup", "bad")
    /\ Fail(r)
    /\ UNCHANGED <<requestVars, claims, job, retried, told, runLost>> /\ Fine

FinishTraining(r, c) ==
    /\ \/ Trainer(r, c, "good", "over") /\ told' = [told EXCEPT ![r] = "completed"]
       \/ Trainer(r, c, "bad", "over") /\ told' = [told EXCEPT ![r] = "failed"]
    /\ UNCHANGED <<requestVars, runStatus, claims, job, retried, runLost>> /\ Fine

QlibDies(r, c) ==
    /\ training[r][c] \notin {"none", "over"}
    /\ Trainer(r, c, training[r][c], "over")
    /\ TrainFault
    /\ runLost' = runLost \cup {r}
    /\ UNCHANGED <<requestVars, runStatus, claims, job, retried, told>>

(* A release publishes, retires or takes back an accepted run.             *)
PromoteRun(r) ==
    /\ runStatus[r] \in Accepted
    /\ \E to \in {"production", "retired"} \ {runStatus[r]} :
          /\ to = "retired" => runStatus[r] = "production"
          /\ runStatus' = [runStatus EXCEPT ![r] = to]
    /\ UNCHANGED <<requestVars, claims, job, training, retried, told, runLost>> /\ Fine

Requester ==
    \/ SubmitPreparation \/ SubmitRaises \/ Refused \/ StartPreparation
    \/ \E r \in Runs : \/ RefuseExperiment(r) \/ QueueTraining(r) \/ QueueRaises(r)
                        \/ ReadDraft(r) \/ FailDraft(r)

Training(r, c) ==
    \/ ReadRun(r, c) \/ Claim(r, c) \/ ClaimRaises(r, c) \/ SendToQlib(r, c)
    \/ SendRaises(r, c) \/ MarkDispatched(r, c) \/ FailRun(r, c) \/ ReportTrainingFailure(r, c)

TrainWorker(r, c) ==
    \/ Train(r, c) \/ ReadForFinalize(r, c) \/ Accept(r, c) \/ AcceptRaises(r, c)
    \/ ReadForFail(r, c) \/ GiveUpTraining(r, c) \/ FinishTraining(r, c)

TrainNext ==
    \/ CreateExperiment \/ Requester \/ RequestDies
    \/ \E r \in Runs : PromoteRun(r)
    \/ \E r \in Runs, c \in Copies :
          Training(r, c) \/ TrainWorker(r, c) \/ JobDies(r, c) \/ QlibDies(r, c)

TrainSpec == TrainInit /\ [][TrainNext]_trainVars

(* Whatever was sent is taken up and whoever is at work goes on: Celery    *)
(* runs every message and every process that does not die.                 *)
TrainFairness ==
    /\ WF_trainVars(Requester)
    /\ \A r \in Runs, c \in Copies : WF_trainVars(Training(r, c)) /\ WF_trainVars(TrainWorker(r, c))

TrainFairSpec == TrainSpec /\ TrainFairness

(***************************************************************************)
(* Properties                                                              *)
(***************************************************************************)
(* A failed run stays failed and an accepted one accepted, whatever late   *)
(* callback, second delivery or failure branch reaches it; only the API's  *)
(* own failure branch writes without looking.                              *)
ConclusionStays ==
    [][\A r \in Runs :
         /\ runStatus[r] = "failed" => runStatus'[r] = "failed"
         /\ runStatus[r] \in Accepted => runStatus'[r] \in Accepted \/ api = "failing"]_trainVars

Pending(r) ==
    /\ runStatus[r] \in {"draft", "training"} \/ (claims[r] > 0 /\ told[r] = "open")
    /\ r \notin runLost

(* A submitted run, and the task row of a claimed one, do not stay without *)
(* a verdict unless a message, a process or a write of theirs was lost.    *)
TrainingConcludes == []<>(\A r \in Runs : ~Pending(r))
=============================================================================
