----------------------------- MODULE QuantDaily -----------------------------
(***************************************************************************)
(* The daily Qlib prediction of one market and trade date: a parent task   *)
(* prepares an execution and its temporary input and sends the prediction; *)
(* the Qlib worker reads the input under its lease; a callback publishes   *)
(* the portfolio, or records the failure, and concludes the parent's row;  *)
(* maintenance fences executions that showed no heartbeat for 24 hours and *)
(* reclaims the inputs of finished ones.                                   *)
(*                                                                         *)
(* Every execution here is of the same market and date.  Executions in     *)
(* Faulty may meet faults: killed processes, lost messages, errors of the  *)
(* database and of the file system, and a commit whose answer is lost.     *)
(***************************************************************************)
EXTENDS TaskRecord

CONSTANTS
    Execs,       \* executions, each with its parent task
    Faulty,      \* the ones that may meet faults
    MaxRetries   \* max_retries of finalize_quant_daily

ASSUME MaxRetriesAssumption == MaxRetries \in Nat
ASSUME FaultyAssumption == Faulty \subseteq Execs

VARIABLES
    status,  \* quant_execution.status, "none" before the row exists
    uri,     \* quant_execution.input_uri is set
    parent,  \* the status of the parent task's row
    disp,    \* the step the parent's _dispatch takes next
    qlib,    \* the delivery of the prediction the Qlib worker is at
    again,   \* the queue holds the prediction's message once more
    call,    \* the next step of each of the two callbacks
    tries,   \* retries of finalize_quant_daily
    input,   \* the temporary directory, and whether a run has used it up
    lease,   \* who holds the lock on its .lease file
    old,     \* the execution was created more than 24 hours ago
    beat,    \* its .lease was touched within 24 hours
    fenced,  \* failed by a maintenance run that has yet to tell the parent
    unheard,    \* history: a write to the parent's row was lost
    gone,    \* history: what was to conclude the parent was lost
    unsure   \* history: a send or a commit took effect and yet raised, or
             \* the prediction was delivered twice

execRows   == <<status, uri>>
qlibState == <<qlib, again>>
inputFiles  == <<input, lease, beat>>
dailyHistory   == <<unheard, gone, unsure>>
dailyVars   == <<execRows, parent, disp, qlibState, call, tries, inputFiles, old, fenced, dailyHistory>>

Live     == {"preparing", "predicting"}
Finished == {"complete", "failed"}

(* finalize_quant_daily and fail_quant_daily.                              *)
Callbacks == {"finalize", "failed"}

DailyTypeOK ==
    /\ status \in [Execs -> {"none"} \cup Live \cup Finished]
    /\ uri \in [Execs -> BOOLEAN]
    /\ parent \in [Execs -> Statuses]
    /\ disp \in [Execs -> {"idle", "loading", "building", "built", "sending",
                           "deferring", "failing", "discarding", "reporting",
                           "done"}]
    /\ qlib \in [Execs -> {"none", "queued", "opened", "reading", "done"}]
    /\ again \in [Execs -> BOOLEAN]
    /\ call \in [Execs -> [Callbacks -> {"idle", "ready", "completed", "giveup",
                                         "removed", "kept", "report", "discard"}]]
    /\ tries \in [Execs -> 0 .. MaxRetries]
    /\ input \in [Execs -> {"none", "whole", "spent"}]
    /\ lease \in [Execs -> {"free", "builder", "worker"}]
    /\ old \in [Execs -> BOOLEAN]
    /\ beat \in [Execs -> BOOLEAN]
    /\ fenced \subseteq Execs
    /\ unheard \subseteq Execs
    /\ gone \subseteq Execs
    /\ unsure \subseteq Execs

DailyInit ==
    /\ status = [e \in Execs |-> "none"]
    /\ uri = [e \in Execs |-> FALSE]
    /\ parent = [e \in Execs |-> "processing"]
    /\ disp = [e \in Execs |-> "idle"]
    /\ qlib = [e \in Execs |-> "none"]
    /\ again = [e \in Execs |-> FALSE]
    /\ call = [e \in Execs |-> [c \in Callbacks |-> "idle"]]
    /\ tries = [e \in Execs |-> 0]
    /\ input = [e \in Execs |-> "none"]
    /\ lease = [e \in Execs |-> "free"]
    /\ old = [e \in Execs |-> FALSE]
    /\ beat = [e \in Execs |-> FALSE]
    /\ fenced = {} /\ unheard = {} /\ gone = {} /\ unsure = {}

Set(f, e, v) == [f EXCEPT ![e] = v]

Goes(e, c, step) == call' = [call EXCEPT ![e][c] = step]

(* A lifecycle write to the parent's row: applied, or swallowed.           *)
Tell(e, s) ==
    \/ parent' = Set(parent, e, Applied(parent[e], s)) /\ UNCHANGED unheard
    \/ e \in Faulty /\ UNCHANGED parent /\ unheard' = unheard \cup {e}

(* Mutant of UpdateExecution: a finished execution is written as well.     *)
UpdateAnyExecution(e, s, u) ==
    status' = Set(status, e, s) /\ uri' = Set(uri, e, u)

(* update_execution leaves a finished execution alone.                     *)
UpdateExecution(e, s, u) ==
    /\ status' = IF status[e] \in Finished THEN status ELSE Set(status, e, s)
    /\ uri' = IF status[e] \in Finished THEN uri ELSE Set(uri, e, u)

(* Mutant of Removable: the lease is not asked for.                        *)
RemovableAlways(e) == TRUE

(* PredictionInputs.remove takes the lease or gives up.                    *)
Removable(e) == lease[e] = "free" \/ input[e] = "none"

Discard(e) ==
    /\ \/ Removable(e) /\ input' = Set(input, e, "none")
       \/ (~Removable(e) \/ e \in Faulty) /\ UNCHANGED input
    /\ UNCHANGED <<lease, beat>>

-----------------------------------------------------------------------------
(* The parent task: _dispatch and QuantDailyPipeline.prepare.              *)

(* An open market skips the parent's task.                                 *)
SkipOpenMarket(e) ==
    /\ disp[e] = "idle"
    /\ disp' = Set(disp, e, "done")
    /\ Tell(e, "skipped")
    /\ UNCHANGED <<execRows, qlibState, call, tries, inputFiles, old, fenced, gone, unsure>>

(* No published model pair, no universe, or a live execution of the scope: *)
(* uix_quant_execution_active admits one.                                  *)
Refuse(e) ==
    /\ disp[e] = "idle"
    /\ disp' = Set(disp, e, "reporting")
    /\ UNCHANGED <<execRows, parent, qlibState, call, tries, inputFiles, old, fenced, dailyHistory>>

CreateExecution(e) ==
    /\ disp[e] = "idle"
    /\ \A f \in Execs : status[f] \notin Live
    /\ disp' = Set(disp, e, "loading")
    /\ status' = Set(status, e, "preparing")
    /\ UNCHANGED <<uri, parent, qlibState, call, tries, inputFiles, old, fenced, dailyHistory>>

(* The directory and its lease file are made before the input is exported; *)
(* a failed export takes the directory with it, if it can.                 *)
StartBuild(e) ==
    /\ disp[e] = "loading"
    /\ \/ /\ disp' = Set(disp, e, "building")
          /\ input' = Set(input, e, "whole")
          /\ lease' = Set(lease, e, "builder")
          /\ beat' = Set(beat, e, TRUE)
       \/ e \in Faulty /\ disp' = Set(disp, e, "failing") /\ UNCHANGED inputFiles
    /\ UNCHANGED <<execRows, parent, qlibState, call, tries, old, fenced, dailyHistory>>

Build(e) ==
    /\ disp[e] = "building"
    /\ lease' = Set(lease, e, "free")
    /\ \/ disp' = Set(disp, e, "built") /\ UNCHANGED input
       \/ /\ e \in Faulty
          /\ disp' = Set(disp, e, "failing")
          /\ \E left \in {"none", "whole"} : input' = Set(input, e, left)
    /\ UNCHANGED <<execRows, parent, qlibState, call, tries, beat, old, fenced, dailyHistory>>

MarkPredicting(e) ==
    /\ disp[e] = "built"
    /\ \/ UpdateExecution(e, "predicting", TRUE) /\ disp' = Set(disp, e, "sending")
       \/ /\ e \in Faulty
          /\ disp' = Set(disp, e, "failing")
          /\ UpdateExecution(e, "predicting", TRUE) \/ UNCHANGED execRows
    /\ UNCHANGED <<parent, qlibState, call, tries, inputFiles, old, fenced, dailyHistory>>

(* send_task may raise after the broker took the message.                  *)
SendPrediction(e) ==
    /\ disp[e] = "sending"
    /\ \/ /\ disp' = Set(disp, e, "deferring")
          /\ qlib' = Set(qlib, e, "queued")
          /\ UNCHANGED unsure
       \/ /\ e \in Faulty
          /\ disp' = Set(disp, e, "failing")
          /\ \/ UNCHANGED <<qlib, unsure>>
             \/ qlib' = Set(qlib, e, "queued") /\ unsure' = unsure \cup {e}
    /\ UNCHANGED <<execRows, parent, again, call, tries, inputFiles, old, fenced, unheard,
                   gone>>

Defer(e) ==
    /\ disp[e] = "deferring"
    /\ disp' = Set(disp, e, "done")
    /\ Tell(e, "processing")
    /\ UNCHANGED <<execRows, qlibState, call, tries, inputFiles, old, fenced, gone, unsure>>

(* The except branches: fail the execution (a second error leaves it as it *)
(* is), remove the input, raise into track_task.                           *)
FailExecution(e) ==
    /\ disp[e] = "failing"
    /\ \/ UpdateExecution(e, "failed", uri[e]) /\ disp' = Set(disp, e, "discarding")
       \/ e \in Faulty /\ disp' = Set(disp, e, "reporting") /\ UNCHANGED execRows
    /\ UNCHANGED <<parent, qlibState, call, tries, inputFiles, old, fenced, dailyHistory>>

DiscardInput(e) ==
    /\ disp[e] = "discarding"
    /\ disp' = Set(disp, e, "reporting")
    /\ Discard(e)
    /\ UNCHANGED <<execRows, parent, qlibState, call, tries, old, fenced, dailyHistory>>

ReportFailure(e) ==
    /\ disp[e] = "reporting"
    /\ disp' = Set(disp, e, "done")
    /\ Tell(e, "failed")
    /\ UNCHANGED <<execRows, qlibState, call, tries, inputFiles, old, fenced, gone, unsure>>

-----------------------------------------------------------------------------
(* The Qlib worker: prediction_input_lease around predict_daily.           *)

(* A message the worker reserves behind a training of more than an hour is *)
(* delivered once more; the worker runs one task at a time.                *)
Redeliver(e) ==
    /\ e \in Faulty
    /\ qlib[e] = "queued"
    /\ e \notin unsure
    /\ again' = Set(again, e, TRUE)
    /\ unsure' = unsure \cup {e}
    /\ UNCHANGED <<execRows, parent, disp, qlib, call, tries, inputFiles, old, fenced,
                   unheard, gone>>

(* A delivery ends and sends callback c, one message of each at a time.    *)
ExecutionEnds(e, c) ==
    /\ call[e][c] = "idle"
    /\ Goes(e, c, "ready")
    /\ qlib' = Set(qlib, e, IF again[e] THEN "queued" ELSE "done")
    /\ again' = Set(again, e, FALSE)

(* An input that is gone fails the task, which links fail_quant_daily.     *)
Open(e) ==
    /\ qlib[e] = "queued"
    /\ IF input[e] # "none"
       THEN qlib' = Set(qlib, e, "opened") /\ UNCHANGED <<again, call>>
       ELSE ExecutionEnds(e, "failed")
    /\ UNCHANGED <<execRows, parent, disp, tries, inputFiles, old, fenced, dailyHistory>>

(* The lease may be that of a directory removed since it was opened.       *)
Lock(e) ==
    /\ qlib[e] = "opened"
    /\ lease[e] = "free"
    /\ IF input[e] # "none"
       THEN /\ qlib' = Set(qlib, e, "reading")
            /\ lease' = Set(lease, e, "worker")
            /\ beat' = Set(beat, e, TRUE)
            /\ UNCHANGED <<again, call>>
       ELSE ExecutionEnds(e, "failed") /\ UNCHANGED <<lease, beat>>
    /\ UNCHANGED <<execRows, parent, disp, tries, input, old, fenced, dailyHistory>>

(* The prediction ends; the directory goes unless its removal fails.       *)
Predict(e) ==
    /\ qlib[e] = "reading"
    /\ lease' = Set(lease, e, "free")
    /\ \/ input' = Set(input, e, "none")
       \/ e \in Faulty /\ input' = Set(input, e, "spent")
    /\ \/ input[e] = "whole" /\ ExecutionEnds(e, "finalize")
       \/ ExecutionEnds(e, "failed")
    /\ UNCHANGED <<execRows, parent, disp, tries, beat, old, fenced, dailyHistory>>

-----------------------------------------------------------------------------
(* The callbacks on the main application.                                  *)

(* Mutant of RetryOrGiveUp: one retry too many.                            *)
(* An exception of finalize is retried until max_retries.                  *)
RetryOrGiveUp(e) ==
    IF tries[e] < MaxRetries
    THEN tries' = Set(tries, e, tries[e] + 1) /\ UNCHANGED call
    ELSE Goes(e, "finalize", "giveup") /\ UNCHANGED tries

(* Mutant of Publish: the execution's status is not looked at.             *)
PublishAnyway(e) ==
    /\ call[e].finalize = "ready"
    /\ status' = Set(status, e, "complete")
    /\ Goes(e, "finalize", "completed")
    /\ UNCHANGED <<uri, parent, disp, qlibState, tries, inputFiles, old, fenced, dailyHistory>>

(* replace_signals_and_save_portfolio: one transaction under the row lock, *)
(* which publishes and completes a live execution, finds a complete one    *)
(* already published and refuses a failed one.                             *)
Publish(e) ==
    /\ call[e].finalize = "ready"
    /\ status[e] # "failed"
    /\ status' = Set(status, e, "complete")
    /\ \/ Goes(e, "finalize", "completed") /\ UNCHANGED <<tries, unsure>>
       \/ /\ e \in Faulty
          /\ unsure' = unsure \cup {e}
          /\ RetryOrGiveUp(e)
    /\ UNCHANGED <<uri, parent, disp, qlibState, inputFiles, old, fenced, unheard, gone>>

PublishFails(e) ==
    /\ call[e].finalize = "ready"
    /\ status[e] = "failed" \/ e \in Faulty
    /\ RetryOrGiveUp(e)
    /\ UNCHANGED <<execRows, parent, disp, qlibState, inputFiles, old, fenced, dailyHistory>>

(* The parent is completed, then the leftover input removed.               *)
MarkCompleted(e) ==
    /\ call[e].finalize = "completed"
    /\ Goes(e, "finalize", "discard")
    /\ Tell(e, "completed")
    /\ UNCHANGED <<execRows, disp, qlibState, tries, inputFiles, old, fenced, gone, unsure>>

DiscardLeftover(e) ==
    /\ call[e].finalize = "discard"
    /\ Goes(e, "finalize", "idle")
    /\ Discard(e)
    /\ UNCHANGED <<execRows, parent, disp, qlibState, tries, old, fenced, dailyHistory>>

(* fail_quant_daily and the last attempt of finalize remove the input, but *)
(* only the former looks at the execution first.                           *)
GiveUp(e, c) ==
    /\ IF c = "failed" THEN call[e][c] = "ready" /\ status[e] # "complete"
                       ELSE call[e][c] = "giveup"
    /\ Discard(e)
    /\ Goes(e, c, IF input'[e] = "none" THEN "removed" ELSE "kept")
    /\ UNCHANGED <<execRows, parent, disp, qlibState, tries, old, fenced, dailyHistory>>

KeepComplete(e) ==
    /\ call[e].failed = "ready"
    /\ status[e] = "complete"
    /\ Goes(e, "failed", "idle")
    /\ UNCHANGED <<execRows, parent, disp, qlibState, tries, inputFiles, old, fenced, dailyHistory>>

(* A database error here ends the callback without a word to the parent:   *)
(* that of a live execution is left to maintenance.                        *)
RecordFailure(e, c) ==
    /\ call[e][c] \in {"removed", "kept"}
    /\ \/ /\ UpdateExecution(e, "failed", call[e][c] = "kept")
          /\ Goes(e, c, "report")
          /\ UNCHANGED gone
       \/ /\ e \in Faulty
          /\ Goes(e, c, "idle")
          /\ gone' = IF status[e] \in Live THEN gone ELSE gone \cup {e}
          /\ UNCHANGED execRows
    /\ UNCHANGED <<parent, disp, qlibState, tries, inputFiles, old, fenced, unheard, unsure>>

MarkFailed(e, c) ==
    /\ call[e][c] = "report"
    /\ Goes(e, c, "idle")
    /\ Tell(e, "failed")
    /\ UNCHANGED <<execRows, disp, qlibState, tries, inputFiles, old, fenced, gone, unsure>>

-----------------------------------------------------------------------------
(* cleanup_inputs, at every dispatch and every six hours.                  *)

(* Mutants of Fence: an execution still preparing is left alone; the       *)
(* parents are not told.                                                   *)
FencePredicting(e) ==
    /\ status[e] = "predicting"
    /\ old[e]
    /\ ~(input[e] # "none" /\ beat[e])
    /\ status' = Set(status, e, "failed")
    /\ uri' = Set(uri, e, TRUE)
    /\ fenced' = fenced \cup {e}
    /\ UNCHANGED <<parent, disp, qlibState, call, tries, inputFiles, old, dailyHistory>>

(* The row lock excludes a publication; a fresh lease spares the execution.*)
Fence(e) ==
    /\ status[e] \in Live
    /\ old[e]
    /\ ~(input[e] # "none" /\ beat[e])
    /\ status' = Set(status, e, "failed")
    /\ uri' = Set(uri, e, TRUE)
    /\ fenced' = fenced \cup {e}
    /\ UNCHANGED <<parent, disp, qlibState, call, tries, inputFiles, old, dailyHistory>>

TellFenced(e) ==
    /\ e \in fenced
    /\ fenced' = fenced \ {e}
    /\ Tell(e, "failed")
    /\ UNCHANGED <<execRows, disp, qlibState, call, tries, inputFiles, old, gone, unsure>>

(* Mutant of Reclaim: the input of a failed execution is kept.             *)
ReclaimComplete(e) ==
    /\ status[e] = "complete"
    /\ uri[e]
    /\ Removable(e)
    /\ input' = Set(input, e, "none")
    /\ uri' = Set(uri, e, FALSE)
    /\ UNCHANGED <<status, parent, disp, qlibState, call, tries, lease, beat, old,
                   fenced, dailyHistory>>

Reclaim(e) ==
    /\ status[e] \in Finished
    /\ uri[e]
    /\ Removable(e)
    /\ input' = Set(input, e, "none")
    /\ uri' = Set(uri, e, FALSE)
    /\ UNCHANGED <<status, parent, disp, qlibState, call, tries, lease, beat, old,
                   fenced, dailyHistory>>

(* A day goes by: only a reading worker keeps touching the lease.          *)
Day(e) ==
    /\ status[e] # "none"
    /\ old' = Set(old, e, TRUE)
    /\ beat' = Set(beat, e, qlib[e] = "reading")
    /\ UNCHANGED <<execRows, parent, disp, qlibState, call, tries, input, lease, fenced,
                   dailyHistory>>

-----------------------------------------------------------------------------
(* Killed processes and lost messages.  A lock ends with its process; the  *)
(* parent of a live execution is left to maintenance.                      *)
Lose(e) ==
    /\ e \in Faulty
    /\ gone' = IF status[e] \in Live THEN gone ELSE gone \cup {e}
    /\ \/ /\ disp[e] \notin {"idle", "done"}
          /\ disp' = Set(disp, e, "done")
          /\ lease' = IF lease[e] = "builder" THEN Set(lease, e, "free") ELSE lease
          /\ UNCHANGED <<qlibState, call, input, fenced>>
       \/ /\ qlib[e] \notin {"none", "done"}
          /\ qlib' = Set(qlib, e, IF again[e] THEN "queued" ELSE "done")
          /\ again' = Set(again, e, FALSE)
          /\ input' = IF qlib[e] = "reading" THEN Set(input, e, "spent") ELSE input
          /\ lease' = IF lease[e] = "worker" THEN Set(lease, e, "free") ELSE lease
          /\ UNCHANGED <<disp, call, fenced>>
       \/ /\ \E c \in Callbacks : call[e][c] # "idle" /\ Goes(e, c, "idle")
          /\ UNCHANGED <<disp, qlibState, input, lease, fenced>>
       \/ /\ e \in fenced
          /\ fenced' = fenced \ {e}
          /\ UNCHANGED <<disp, qlibState, call, input, lease>>
    /\ UNCHANGED <<execRows, parent, tries, beat, old, unheard, unsure>>

DailyDispatch(e) == \/ StartBuild(e) \/ Build(e) \/ MarkPredicting(e) \/ SendPrediction(e)
                    \/ Defer(e) \/ FailExecution(e) \/ DiscardInput(e)
                    \/ ReportFailure(e)

Trigger(e) == SkipOpenMarket(e) \/ Refuse(e) \/ CreateExecution(e)

QlibWorker(e) == Open(e) \/ Lock(e) \/ Predict(e)

Callback(e) == \/ Publish(e) \/ PublishFails(e) \/ MarkCompleted(e)
               \/ DiscardLeftover(e) \/ KeepComplete(e)
               \/ \E c \in Callbacks :
                     GiveUp(e, c) \/ RecordFailure(e, c) \/ MarkFailed(e, c)

Maintenance(e) == Fence(e) \/ TellFenced(e) \/ Reclaim(e)

DailyNext == \E e \in Execs : \/ Trigger(e) \/ DailyDispatch(e) \/ QlibWorker(e) \/ Callback(e)
                              \/ Maintenance(e) \/ Day(e) \/ Redeliver(e) \/ Lose(e)

DailySpec == DailyInit /\ [][DailyNext]_dailyVars

(* Workers run what they take; maintenance runs every six hours and its    *)
(* file errors do not last; days go by.                                    *)
DailyFairness ==
    \A e \in Execs :
        /\ WF_dailyVars(DailyDispatch(e))
        /\ WF_dailyVars(QlibWorker(e))
        /\ WF_dailyVars(Callback(e))
        /\ WF_dailyVars(Fence(e)) /\ WF_dailyVars(TellFenced(e)) /\ WF_dailyVars(Reclaim(e))
        /\ WF_dailyVars(Day(e))

DailyFairSpec == DailySpec /\ DailyFairness

-----------------------------------------------------------------------------
(* Properties.                                                             *)

AtRest(e) == /\ disp[e] = "done" /\ qlib[e] \in {"none", "done"}
             /\ \A c \in Callbacks : call[e][c] = "idle"
             /\ e \notin fenced

(* The input a worker reads is never removed under it, whatever callback,  *)
(* dispatcher or maintenance run gives the execution up meanwhile.         *)
InputOutlivesReader == \A e \in Execs : qlib[e] = "reading" => input[e] # "none"

(* Once all is done the parent's row and the execution agree: the one is   *)
(* completed exactly when the other has published its portfolio.           *)
ParentAgrees ==
    \A e \in Execs \ (unheard \cup gone \cup unsure) :
        AtRest(e) => (status[e] = "complete" <=> parent[e] = "completed")

(* The database admits one live execution of a market and date; none that  *)
(* was fenced or failed ever comes back to life beside its successor,      *)
(* whatever its late dispatcher and callbacks write.                       *)
OneLivePerDate ==
    \A e, f \in Execs : status[e] \in Live /\ status[f] \in Live => e = f

(* A finished execution stays as it is: a late or repeated callback of a   *)
(* fenced or failed one never publishes, and none takes a portfolio back.  *)
FinishedStays ==
    [][\A e \in Execs : status[e] \in Finished => status'[e] = status[e]]_dailyVars

(* Whatever is killed or lost, an execution ends, so that it stops keeping *)
(* the next one of its market and date out.                                *)
(* Nor does the parent stay processing, unless the write itself was lost   *)
(* or what was to make it died after the execution had ended.              *)
ExecutionConcludes ==
    \A e \in Execs :
        /\ status[e] \in Live ~> status[e] \in Finished
        /\ disp[e] # "idle" ~> parent[e] \in Terminal \/ e \in unheard \cup gone

(* An input is removed in the end, except one whose execution failed       *)
(* before its input_uri was recorded.                                      *)
InputReclaimed ==
    \A e \in Execs :
        input[e] # "none" ~> \/ input[e] = "none"
                             \/ status[e] = "failed" /\ ~uri[e]
-----------------------------------------------------------------------------
(* What the documents say, and the code does not keep.                     *)

(* docs/task-outcomes.md: the status of the task's row is the source of    *)
(* truth about the run.  Both callbacks mark the parent failed without     *)
(* asking whether update_execution left a completed execution alone.       *)
TaskStatusIsTruth ==
    [][\A e \in Execs, c \in Callbacks :
          status[e] = "complete" => ~MarkFailed(e, c)]_dailyVars

(* docs/quant-research.md: maintenance is the fallback for hard kills and  *)
(* interrupted work, and reclaims the inputs of completed and failed       *)
(* executions.  It looks for input_uri, which an execution that failed     *)
(* while preparing never got.                                              *)
InputsAlwaysReclaimed ==
    \A e \in Execs : input[e] # "none" ~> input[e] = "none"
=============================================================================
