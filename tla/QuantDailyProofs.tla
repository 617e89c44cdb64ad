--------------------------- MODULE QuantDailyProofs ---------------------------
(***************************************************************************)
(* Safety of the daily prediction, for any executions of a market and      *)
(* date, any of which may meet faults, and any number of retries.          *)
(***************************************************************************)
EXTENDS QuantDaily, TLAPS

(* An execution before its prediction is sent, while it is built and while *)
(* it is read.                                                             *)
Sound(e) ==
    /\ disp[e] = "idle" => status[e] = "none"
    /\ disp[e] \in {"loading", "building", "built"} => status[e] # "none"
    /\ disp[e] \in {"idle", "loading", "building", "built", "sending"} => qlib[e] = "none"
    /\ qlib[e] = "none" => \A c \in Callbacks : call[e][c] = "idle"
    /\ lease[e] = "builder" <=> disp[e] = "building"
    /\ lease[e] = "worker" <=> qlib[e] = "reading"
    /\ qlib[e] = "reading" => input[e] # "none"
    /\ e \in fenced => status[e] = "failed"

(* An execution nothing was lost of has one delivery and one callback at a *)
(* time, and whoever speaks to the parent knows the execution's end.       *)
Told(e) ==
    e \notin unheard \cup gone \cup unsure =>
      /\ ~again[e]
      /\ qlib[e] # "done" => \A c \in Callbacks : call[e][c] = "idle"
      /\ call[e].finalize = "idle" \/ call[e].failed = "idle"
      /\ qlib[e] # "none" => disp[e] \in {"deferring", "done"}
      /\ call[e].finalize \in {"completed", "discard"} => status[e] = "complete"
      /\ status[e] = "complete" =>
           /\ qlib[e] = "done" /\ call[e].failed = "idle"
           /\ \/ call[e].finalize = "completed"
              \/ call[e].finalize \in {"discard", "idle"} /\ parent[e] = "completed"
      /\ parent[e] = "completed" => status[e] = "complete"

DailyInv ==
    /\ DailyTypeOK /\ OneLivePerDate
    /\ \A e \in Execs : Sound(e) /\ Told(e)

-----------------------------------------------------------------------------

Steps == {"idle", "ready", "completed", "giveup", "removed", "kept", "report", "discard"}

(***************************************************************************)
(* What the operators of the model do to the variables.                    *)
(***************************************************************************)

LEMMA GoesFacts ==
  ASSUME DailyTypeOK, NEW e \in Execs, NEW c \in Callbacks, NEW step \in Steps, Goes(e, c, step)
  PROVE  /\ call' \in [Execs -> [Callbacks -> Steps]]
         /\ \A f \in Execs : f # e => call'[f] = call[f]
         /\ call'[e][c] = step
         /\ \A d \in Callbacks : d # c => call'[e][d] = call[e][d]
<1>1. call \in [Execs -> [Callbacks -> Steps]]
  BY DEF DailyTypeOK, Steps
<1>2. call' = [call EXCEPT ![e] = [call[e] EXCEPT ![c] = step]]
  BY <1>1 DEF Goes
<1>3. [call[e] EXCEPT ![c] = step] \in [Callbacks -> Steps]
  BY <1>1
<1>4. QED
  BY <1>1, <1>2, <1>3

LEMMA StatusFacts ==
  ASSUME DailyTypeOK, NEW e \in Execs, NEW s \in Live \cup Finished,
         status' = IF status[e] \in Finished THEN status ELSE Set(status, e, s)
  PROVE  /\ status' \in [Execs -> {"none"} \cup Live \cup Finished]
         /\ \A f \in Execs : f # e => status'[f] = status[f]
         /\ status'[e] = IF status[e] \in Finished THEN status[e] ELSE s
<1> USE DEF DailyTypeOK, Set
<1>1. CASE status[e] \in Finished
  BY <1>1
<1>2. CASE status[e] \notin Finished
  BY <1>2
<1>3. QED
  BY <1>1, <1>2

(* What update_execution writes: u stands for whether input_uri is set.    *)
LEMMA UpdateFacts ==
  ASSUME DailyTypeOK, NEW e \in Execs, NEW s \in Live \cup Finished, NEW u \in BOOLEAN,
         UpdateExecution(e, s, u)
  PROVE  /\ status' \in [Execs -> {"none"} \cup Live \cup Finished]
         /\ uri' \in [Execs -> BOOLEAN]
<1>1. uri' \in [Execs -> BOOLEAN]
  BY DEF UpdateExecution, Set, DailyTypeOK
<1>2. QED
  BY <1>1, StatusFacts DEF UpdateExecution

LEMMA TellFacts ==
  ASSUME DailyTypeOK, NEW e \in Execs, NEW s \in Statuses, Tell(e, s)
  PROVE  /\ parent' \in [Execs -> Statuses] /\ unheard' \subseteq Execs /\ unheard \subseteq unheard'
         /\ \A f \in Execs : f # e => parent'[f] = parent[f] /\ (f \in unheard' <=> f \in unheard)
         /\ e \notin unheard' => parent'[e] = Applied(parent[e], s)
<1>1. Applied(parent[e], s) \in Statuses
  BY DEF DailyTypeOK, Applied
<1>2. QED
  BY ZenonT(60), <1>1 DEF DailyTypeOK, Tell, Set

LEMMA DiscardFacts ==
  ASSUME DailyTypeOK, NEW e \in Execs, Discard(e)
  PROVE  /\ input' \in [Execs -> {"none", "whole", "spent"}]
         /\ \A f \in Execs : f # e => input'[f] = input[f]
         /\ lease[e] # "free" => input'[e] = input[e]
         /\ lease' = lease /\ beat' = beat
  BY DEF DailyTypeOK, Discard, Removable, Set

LEMMA RetryFacts ==
  ASSUME DailyTypeOK, NEW e \in Execs, RetryOrGiveUp(e)
  PROVE  /\ tries' \in [Execs -> 0 .. MaxRetries]
         /\ call' \in [Execs -> [Callbacks -> Steps]]
         /\ \A f \in Execs : f # e => call'[f] = call[f]
         /\ call'[e].finalize \in {call[e].finalize, "giveup"}
         /\ call'[e].failed = call[e].failed
<1> USE MaxRetriesAssumption
<1>1. CASE tries[e] < MaxRetries
  <2>1. tries[e] + 1 \in 0 .. MaxRetries
    BY <1>1 DEF DailyTypeOK
  <2>2. tries' = [tries EXCEPT ![e] = tries[e] + 1] /\ call' = call
    BY <1>1 DEF RetryOrGiveUp, Set
  <2>3. call \in [Execs -> [Callbacks -> Steps]] /\ tries \in [Execs -> 0 .. MaxRetries]
    BY DEF DailyTypeOK, Steps
  <2>4. QED
    BY <2>1, <2>2, <2>3
<1>2. CASE ~(tries[e] < MaxRetries)
  <2>1. Goes(e, "finalize", "giveup") /\ tries' = tries
    BY <1>2 DEF RetryOrGiveUp
  <2>2. "finalize" \in Callbacks /\ "failed" \in Callbacks /\ "giveup" \in Steps
    BY DEF Callbacks, Steps
  <2>3. QED
    BY <2>1, <2>2, GoesFacts DEF DailyTypeOK
<1>3. QED
  BY <1>1, <1>2

LEMMA EndsFacts ==
  ASSUME DailyTypeOK, NEW e \in Execs, NEW c \in Callbacks, ExecutionEnds(e, c)
  PROVE  /\ call[e][c] = "idle" /\ call'[e][c] = "ready"
         /\ call' \in [Execs -> [Callbacks -> Steps]]
         /\ \A f \in Execs : f # e => call'[f] = call[f]
         /\ \A d \in Callbacks : d # c => call'[e][d] = call[e][d]
         /\ qlib' = [qlib EXCEPT ![e] = IF again[e] THEN "queued" ELSE "done"]
         /\ qlib' \in [Execs -> {"none", "queued", "opened", "reading", "done"}]
         /\ qlib'[e] = IF again[e] THEN "queued" ELSE "done"
         /\ again' = [again EXCEPT ![e] = FALSE]
         /\ again' \in [Execs -> BOOLEAN]
<1>1. "ready" \in Steps
  BY DEF Steps
<1>2. QED
  BY <1>1, GoesFacts DEF ExecutionEnds, DailyTypeOK, Set

-----------------------------------------------------------------------------

LEMMA DailyTypingStep == ASSUME DailyTypeOK, [DailyNext]_dailyVars PROVE DailyTypeOK'
<1> SUFFICES ASSUME NEW e \in Execs,
                    \/ Trigger(e) \/ DailyDispatch(e) \/ QlibWorker(e) \/ Callback(e)
                    \/ Maintenance(e) \/ Day(e) \/ Redeliver(e) \/ Lose(e)
             PROVE  DailyTypeOK'
  BY ZenonT(60) DEF DailyNext, dailyVars, execRows, qlibState, inputFiles, dailyHistory, DailyTypeOK
<1> USE MaxRetriesAssumption, FaultyAssumption
    DEF DailyTypeOK, Steps, Set, execRows, qlibState, inputFiles, dailyHistory, Live, Finished, Callbacks,
        Applied, Statuses, Active, Terminal
<1>1. CASE SkipOpenMarket(e)
  BY <1>1, TellFacts DEF SkipOpenMarket
<1>2. CASE Refuse(e)
  BY <1>2 DEF Refuse
<1>3. CASE CreateExecution(e)
  BY <1>3 DEF CreateExecution
<1>4. CASE StartBuild(e)
  BY ZenonT(60), <1>4 DEF StartBuild
<1>5. CASE Build(e)
  BY <1>5 DEF Build
<1>6. CASE MarkPredicting(e)
  BY ZenonT(60), <1>6, UpdateFacts DEF MarkPredicting
<1>7. CASE SendPrediction(e)
  BY ZenonT(60), <1>7 DEF SendPrediction
<1>8. CASE Defer(e)
  BY <1>8, TellFacts DEF Defer
<1>9. CASE FailExecution(e)
  <2>1. uri[e] \in BOOLEAN /\ "failed" \in Live \cup Finished
    OBVIOUS
  <2>2. CASE UpdateExecution(e, "failed", uri[e])
    <3>1. status' \in [Execs -> {"none"} \cup Live \cup Finished] /\ uri' \in [Execs -> BOOLEAN]
      BY <2>1, <2>2, UpdateFacts
    <3>2. QED
      BY SMTT(60), <1>9, <3>1 DEF FailExecution
  <2>3. CASE UNCHANGED execRows
    BY <1>9, <2>3 DEF FailExecution
  <2>4. QED
    BY <1>9, <2>2, <2>3 DEF FailExecution
<1>10. CASE DiscardInput(e)
  BY <1>10, DiscardFacts DEF DiscardInput
<1>11. CASE ReportFailure(e)
  BY <1>11, TellFacts DEF ReportFailure
<1>12. CASE Redeliver(e)
  BY <1>12 DEF Redeliver
<1>13. CASE Open(e)
  <2>1. CASE ExecutionEnds(e, "failed")
    <3>1. /\ call' \in [Execs -> [Callbacks -> Steps]] /\ again' \in [Execs -> BOOLEAN]
          /\ qlib' \in [Execs -> {"none", "queued", "opened", "reading", "done"}]
      BY <2>1, EndsFacts
    <3>2. QED
      BY <1>13, <3>1 DEF Open
  <2>2. CASE qlib' = [qlib EXCEPT ![e] = "opened"] /\ UNCHANGED <<again, call>>
    BY <1>13, <2>2 DEF Open
  <2>3. QED
    BY <1>13, <2>1, <2>2 DEF Open
<1>14. CASE Lock(e)
  <2>1. CASE ExecutionEnds(e, "failed") /\ UNCHANGED <<lease, beat>>
    <3>1. /\ call' \in [Execs -> [Callbacks -> Steps]] /\ again' \in [Execs -> BOOLEAN]
          /\ qlib' \in [Execs -> {"none", "queued", "opened", "reading", "done"}]
      BY <2>1, EndsFacts
    <3>2. QED
      BY <1>14, <2>1, <3>1 DEF Lock
  <2>2. CASE /\ qlib' = [qlib EXCEPT ![e] = "reading"] /\ lease' = [lease EXCEPT ![e] = "worker"]
             /\ beat' = [beat EXCEPT ![e] = TRUE] /\ UNCHANGED <<again, call>>
    BY <1>14, <2>2 DEF Lock
  <2>3. QED
    BY <1>14, <2>1, <2>2 DEF Lock
<1>15. CASE Predict(e)
  <2>1. ExecutionEnds(e, "finalize") \/ ExecutionEnds(e, "failed")
    BY <1>15 DEF Predict
  <2>2. /\ call' \in [Execs -> [Callbacks -> Steps]] /\ again' \in [Execs -> BOOLEAN]
        /\ qlib' \in [Execs -> {"none", "queued", "opened", "reading", "done"}]
    BY <2>1, EndsFacts
  <2>3. QED
    BY ZenonT(60), <1>15, <2>2 DEF Predict
<1>16. CASE Publish(e)
  BY <1>16, RetryFacts, GoesFacts DEF Publish
<1>17. CASE PublishFails(e)
  BY <1>17, RetryFacts DEF PublishFails
<1>18. CASE MarkCompleted(e)
  BY <1>18, GoesFacts, TellFacts DEF MarkCompleted
<1>19. CASE DiscardLeftover(e)
  BY <1>19, GoesFacts, DiscardFacts DEF DiscardLeftover
<1>20. CASE KeepComplete(e)
  BY <1>20, GoesFacts DEF KeepComplete
<1>21. ASSUME NEW c \in Callbacks, GiveUp(e, c) PROVE DailyTypeOK'
  BY <1>21, GoesFacts, DiscardFacts DEF GiveUp
<1>22. ASSUME NEW c \in Callbacks, RecordFailure(e, c) PROVE DailyTypeOK'
  <2> DEFINE kept == call[e][c] = "kept"
  <2>1. kept \in BOOLEAN /\ "failed" \in Live \cup Finished
    OBVIOUS
  <2>2. CASE UpdateExecution(e, "failed", kept) /\ Goes(e, c, "report") /\ UNCHANGED gone
    <3>1. status' \in [Execs -> {"none"} \cup Live \cup Finished] /\ uri' \in [Execs -> BOOLEAN]
      BY <2>1, <2>2, UpdateFacts
    <3>2. call' \in [Execs -> [Callbacks -> Steps]]
      BY <2>2, GoesFacts
    <3>3. QED
      BY <1>22, <2>2, <3>1, <3>2 DEF RecordFailure
  <2>3. CASE Goes(e, c, "idle") /\ UNCHANGED execRows
    BY <1>22, <2>3, GoesFacts DEF RecordFailure
  <2>4. QED
    BY <1>22, <2>2, <2>3 DEF RecordFailure
<1>23. ASSUME NEW c \in Callbacks, MarkFailed(e, c) PROVE DailyTypeOK'
  <2>1. call' \in [Execs -> [Callbacks -> Steps]]
    BY <1>23, GoesFacts DEF MarkFailed
  <2>2. QED
    BY <1>23, <2>1, TellFacts DEF MarkFailed
<1>24. CASE Fence(e)
  BY <1>24 DEF Fence
<1>25. CASE TellFenced(e)
  BY <1>25, TellFacts DEF TellFenced
<1>26. CASE Reclaim(e)
  BY <1>26 DEF Reclaim
<1>27. CASE Day(e)
  BY <1>27 DEF Day
<1>28. CASE Lose(e)
  <2>1. gone' \subseteq Execs
    BY <1>28 DEF Lose
  <2>2. CASE UNCHANGED call
    <3>1. CASE disp' = Set(disp, e, "done") /\ UNCHANGED <<qlibState, input, fenced>>
      BY ZenonT(60), <1>28, <2>1, <2>2, <3>1 DEF Lose
    <3>2. CASE UNCHANGED <<disp, fenced>>
      <4>1. CASE UNCHANGED <<qlibState, input, lease>>
        BY <1>28, <2>1, <2>2, <3>2, <4>1 DEF Lose
      <4>2. CASE /\ qlib' = Set(qlib, e, IF again[e] THEN "queued" ELSE "done")
                 /\ again' = Set(again, e, FALSE)
                 /\ input' = IF qlib[e] = "reading" THEN Set(input, e, "spent") ELSE input
                 /\ lease' = IF lease[e] = "worker" THEN Set(lease, e, "free") ELSE lease
        <5>1. qlib' \in [Execs -> {"none", "queued", "opened", "reading", "done"}]
          BY <4>2
        <5>2. input' \in [Execs -> {"none", "whole", "spent"}] /\ lease' \in [Execs -> {"free", "builder", "worker"}]
          BY <4>2
        <5>3. QED
          BY <1>28, <2>1, <2>2, <3>2, <4>2, <5>1, <5>2 DEF Lose
      <4>3. QED
        BY <1>28, <2>2, <3>2, <4>1, <4>2 DEF Lose
    <3>3. CASE UNCHANGED <<disp, qlibState, input, lease>>
      BY <1>28, <2>1, <2>2, <3>3 DEF Lose
    <3>4. QED
      BY <1>28, <2>2, <3>1, <3>2, <3>3 DEF Lose
  <2>3. ASSUME NEW c \in Callbacks, Goes(e, c, "idle"), UNCHANGED <<disp, qlibState, input, lease, fenced>>
        PROVE  DailyTypeOK'
    <3>1. call' \in [Execs -> [Callbacks -> Steps]]
      BY <2>3, GoesFacts
    <3>2. QED
      BY <1>28, <2>1, <2>3, <3>1 DEF Lose
  <2>4. QED
    BY <1>28, <2>2, <2>3 DEF Lose
<1>29. QED
  BY <1>1, <1>2, <1>3, <1>4, <1>5, <1>6, <1>7, <1>8, <1>9, <1>10, <1>11, <1>12, <1>13, <1>14, <1>15,
     <1>16, <1>17, <1>18, <1>19, <1>20, <1>21, <1>22, <1>23, <1>24, <1>25, <1>26, <1>27, <1>28
     DEF Trigger, DailyDispatch, QlibWorker, Callback, Maintenance

-----------------------------------------------------------------------------

StepOf(e) == \/ Trigger(e) \/ DailyDispatch(e) \/ QlibWorker(e) \/ Callback(e)
             \/ Maintenance(e) \/ Day(e) \/ Redeliver(e) \/ Lose(e)

SameExecution(f) ==
    /\ status'[f] = status[f] /\ parent'[f] = parent[f] /\ disp'[f] = disp[f]
    /\ qlib'[f] = qlib[f] /\ again'[f] = again[f] /\ call'[f] = call[f]
    /\ input'[f] = input[f] /\ lease'[f] = lease[f] /\ (f \in fenced' <=> f \in fenced)
    /\ (f \in unheard' <=> f \in unheard) /\ (f \in gone' <=> f \in gone)
    /\ (f \in unsure' <=> f \in unsure)

(* A step of one execution leaves the others as they are.                   *)
LEMMA OthersSame ==
  ASSUME DailyTypeOK, NEW e \in Execs, StepOf(e), NEW f \in Execs, f # e
  PROVE  SameExecution(f)
<1> USE DEF DailyTypeOK, Steps, Set, execRows, qlibState, inputFiles, dailyHistory, Live, Finished, Callbacks,
           Statuses, Active, Terminal, SameExecution
<1>1. CASE SkipOpenMarket(e)
  BY <1>1, TellFacts DEF SkipOpenMarket
<1>2. CASE Refuse(e)
  BY <1>2 DEF Refuse
<1>3. CASE CreateExecution(e)
  BY <1>3 DEF CreateExecution
<1>4. CASE StartBuild(e)
  BY <1>4 DEF StartBuild
<1>5. CASE Build(e)
  BY <1>5 DEF Build
<1>6. CASE MarkPredicting(e)
  <2>1. UpdateExecution(e, "predicting", TRUE) => status'[f] = status[f]
    BY StatusFacts DEF UpdateExecution
  <2>2. QED
    BY <1>6, <2>1 DEF MarkPredicting
<1>7. CASE SendPrediction(e)
  BY <1>7 DEF SendPrediction
<1>8. CASE Defer(e)
  BY <1>8, TellFacts DEF Defer
<1>9. CASE FailExecution(e)
  <2>1. UpdateExecution(e, "failed", uri[e]) => status'[f] = status[f]
    BY StatusFacts DEF UpdateExecution
  <2>2. QED
    BY <1>9, <2>1 DEF FailExecution
<1>10. CASE DiscardInput(e)
  BY <1>10, DiscardFacts DEF DiscardInput
<1>11. CASE ReportFailure(e)
  BY <1>11, TellFacts DEF ReportFailure
<1>12. CASE Redeliver(e)
  BY <1>12 DEF Redeliver
<1>13. CASE Open(e)
  BY <1>13, EndsFacts DEF Open
<1>14. CASE Lock(e)
  BY <1>14, EndsFacts DEF Lock
<1>15. CASE Predict(e)
  BY <1>15, EndsFacts DEF Predict
<1>16. CASE Publish(e)
  BY <1>16, RetryFacts, GoesFacts DEF Publish
<1>17. CASE PublishFails(e)
  BY <1>17, RetryFacts DEF PublishFails
<1>18. CASE MarkCompleted(e)
  BY <1>18, GoesFacts, TellFacts DEF MarkCompleted
<1>19. CASE DiscardLeftover(e)
  BY <1>19, GoesFacts, DiscardFacts DEF DiscardLeftover
<1>20. CASE KeepComplete(e)
  BY <1>20, GoesFacts DEF KeepComplete
<1>21. ASSUME NEW c \in Callbacks, GiveUp(e, c) PROVE SameExecution(f)
  BY <1>21, GoesFacts, DiscardFacts DEF GiveUp
<1>22. ASSUME NEW c \in Callbacks, RecordFailure(e, c) PROVE SameExecution(f)
  <2>1. UpdateExecution(e, "failed", call[e][c] = "kept") => status'[f] = status[f]
    BY StatusFacts DEF UpdateExecution
  <2>2. call'[f] = call[f]
    BY <1>22, GoesFacts DEF RecordFailure
  <2>3. QED
    BY <1>22, <2>1, <2>2 DEF RecordFailure
<1>23. ASSUME NEW c \in Callbacks, MarkFailed(e, c) PROVE SameExecution(f)
  BY <1>23, GoesFacts, TellFacts DEF MarkFailed
<1>24. CASE Fence(e)
  BY <1>24 DEF Fence
<1>25. CASE TellFenced(e)
  BY <1>25, TellFacts DEF TellFenced
<1>26. CASE Reclaim(e)
  BY <1>26 DEF Reclaim
<1>27. CASE Day(e)
  BY <1>27 DEF Day
<1>28. CASE Lose(e)
  BY <1>28, GoesFacts DEF Lose
<1>29. QED
  BY <1>1, <1>2, <1>3, <1>4, <1>5, <1>6, <1>7, <1>8, <1>9, <1>10, <1>11, <1>12, <1>13, <1>14, <1>15,
     <1>16, <1>17, <1>18, <1>19, <1>20, <1>21, <1>22, <1>23, <1>24, <1>25, <1>26, <1>27, <1>28
     DEF StepOf, Trigger, DailyDispatch, QlibWorker, Callback, Maintenance

LEMMA SoundNext ==
  ASSUME DailyTypeOK, DailyTypeOK', NEW e \in Execs, StepOf(e), Sound(e)
  PROVE  Sound(e)'
<1> USE DEF DailyTypeOK, Steps, Set, execRows, qlibState, inputFiles, dailyHistory, Live, Finished, Callbacks, Sound
<1>1. CASE SkipOpenMarket(e)
  BY <1>1, TellFacts DEF SkipOpenMarket
<1>2. CASE Refuse(e)
  BY <1>2 DEF Refuse
<1>3. CASE CreateExecution(e)
  BY <1>3 DEF CreateExecution
<1>4. CASE StartBuild(e)
  BY <1>4 DEF StartBuild
<1>5. CASE Build(e)
  BY <1>5 DEF Build
<1>6. CASE MarkPredicting(e)
  <2>1. \/ status' = IF status[e] \in Finished THEN status ELSE Set(status, e, "predicting")
        \/ status' = status
    BY <1>6 DEF MarkPredicting, UpdateExecution
  <2>2. /\ disp[e] = "built"
        /\ disp' \in {Set(disp, e, "sending"), Set(disp, e, "failing")}
        /\ UNCHANGED <<parent, qlibState, call, tries, inputFiles, old, fenced, dailyHistory>>
    BY <1>6 DEF MarkPredicting
  <2>3. status'[e] # "none" /\ (status[e] = "failed" => status'[e] = "failed")
    BY <2>1, <2>2, StatusFacts
  <2>4. QED
    BY <2>2, <2>3
<1>7. CASE SendPrediction(e)
  BY <1>7 DEF SendPrediction
<1>8. CASE Defer(e)
  BY <1>8, TellFacts DEF Defer
<1>9. CASE FailExecution(e)
  <2>1. UpdateExecution(e, "failed", uri[e]) =>
          status'[e] = IF status[e] \in Finished THEN status[e] ELSE "failed"
    BY StatusFacts DEF UpdateExecution
  <2>5. QED
    BY <1>9, <2>1 DEF FailExecution
<1>10. CASE DiscardInput(e)
  BY <1>10, DiscardFacts DEF DiscardInput
<1>11. CASE ReportFailure(e)
  BY <1>11, TellFacts DEF ReportFailure
<1>12. CASE Redeliver(e)
  BY <1>12 DEF Redeliver
<1>13. CASE Open(e)
  BY <1>13, EndsFacts DEF Open
<1>14. CASE Lock(e)
  <2>1. CASE input[e] # "none"
    BY <1>14, <2>1 DEF Lock
  <2>2. CASE input[e] = "none"
    BY <1>14, <2>2, EndsFacts DEF Lock
  <2>3. QED
    BY <2>1, <2>2
<1>15. CASE Predict(e)
  BY SMTT(60), <1>15, EndsFacts DEF Predict
<1>16. CASE Publish(e)
  BY <1>16, RetryFacts, GoesFacts DEF Publish
<1>17. CASE PublishFails(e)
  BY <1>17, RetryFacts DEF PublishFails
<1>18. CASE MarkCompleted(e)
  BY <1>18, GoesFacts, TellFacts DEF MarkCompleted
<1>19. CASE DiscardLeftover(e)
  BY <1>19, GoesFacts, DiscardFacts DEF DiscardLeftover
<1>20. CASE KeepComplete(e)
  BY <1>20, GoesFacts DEF KeepComplete
<1>21. ASSUME NEW c \in Callbacks, GiveUp(e, c) PROVE Sound(e)'
  BY <1>21, GoesFacts, DiscardFacts DEF GiveUp
<1>22. ASSUME NEW c \in Callbacks, RecordFailure(e, c) PROVE Sound(e)'
  <2>1. UpdateExecution(e, "failed", call[e][c] = "kept") =>
          status'[e] = IF status[e] \in Finished THEN status[e] ELSE "failed"
    BY StatusFacts DEF UpdateExecution
  <2>2. qlib[e] # "none" /\ qlib'[e] = qlib[e]
    BY <1>22 DEF RecordFailure
  <2>5. QED
    BY <1>22, <2>1, <2>2 DEF RecordFailure
<1>23. ASSUME NEW c \in Callbacks, MarkFailed(e, c) PROVE Sound(e)'
  BY <1>23, GoesFacts, TellFacts DEF MarkFailed
<1>24. CASE Fence(e)
  BY <1>24 DEF Fence
<1>25. CASE TellFenced(e)
  BY <1>25, TellFacts DEF TellFenced
<1>26. CASE Reclaim(e)
  <2>1. qlib[e] # "reading"
    BY <1>26 DEF Reclaim, Removable
  <2>2. QED
    BY <1>26, <2>1 DEF Reclaim
<1>27. CASE Day(e)
  BY <1>27 DEF Day
<1>28. CASE Lose(e)
  BY <1>28, GoesFacts DEF Lose
<1>29. QED
  BY <1>1, <1>2, <1>3, <1>4, <1>5, <1>6, <1>7, <1>8, <1>9, <1>10, <1>11, <1>12, <1>13, <1>14, <1>15,
     <1>16, <1>17, <1>18, <1>19, <1>20, <1>21, <1>22, <1>23, <1>24, <1>25, <1>26, <1>27, <1>28
     DEF StepOf, Trigger, DailyDispatch, QlibWorker, Callback, Maintenance

LEMMA ToldNext ==
  ASSUME DailyTypeOK, DailyTypeOK', NEW e \in Execs, StepOf(e), Sound(e), Told(e)
  PROVE  Told(e)'
<1> USE DEF DailyTypeOK, Steps, Set, execRows, qlibState, inputFiles, dailyHistory, Live, Finished, Callbacks, Sound, Told, Applied,
           CanApplyStatus, Statuses, Active, Terminal
<1>1. CASE SkipOpenMarket(e)
  BY <1>1, TellFacts DEF SkipOpenMarket
<1>2. CASE Refuse(e)
  BY <1>2 DEF Refuse
<1>3. CASE CreateExecution(e)
  BY <1>3 DEF CreateExecution
<1>4. CASE StartBuild(e)
  BY <1>4 DEF StartBuild
<1>5. CASE Build(e)
  BY <1>5 DEF Build
<1>6. CASE MarkPredicting(e)
  <2>1. UpdateExecution(e, "predicting", TRUE) =>
          status'[e] = IF status[e] \in Finished THEN status[e] ELSE "predicting"
    BY StatusFacts DEF UpdateExecution
  <2>5. QED
    BY <1>6, <2>1 DEF MarkPredicting
<1>7. CASE SendPrediction(e)
  BY <1>7 DEF SendPrediction
<1>8. CASE Defer(e)
  BY <1>8, TellFacts DEF Defer
<1>9. CASE FailExecution(e)
  <2>1. UpdateExecution(e, "failed", uri[e]) =>
          status'[e] = IF status[e] \in Finished THEN status[e] ELSE "failed"
    BY StatusFacts DEF UpdateExecution
  <2>5. QED
    BY <1>9, <2>1 DEF FailExecution
<1>10. CASE DiscardInput(e)
  BY <1>10, DiscardFacts DEF DiscardInput
<1>11. CASE ReportFailure(e)
  BY <1>11, TellFacts DEF ReportFailure
<1>12. CASE Redeliver(e)
  BY <1>12 DEF Redeliver
<1>13. CASE Open(e)
  BY <1>13, EndsFacts DEF Open
<1>14. CASE Lock(e)
  BY <1>14, EndsFacts DEF Lock
<1>15. CASE Predict(e)
  BY <1>15, EndsFacts DEF Predict
<1>16. CASE Publish(e)
  BY <1>16, RetryFacts, GoesFacts DEF Publish
<1>17. CASE PublishFails(e)
  BY <1>17, RetryFacts DEF PublishFails
<1>18. CASE MarkCompleted(e)
  BY <1>18, GoesFacts, TellFacts DEF MarkCompleted
<1>19. CASE DiscardLeftover(e)
  BY <1>19, GoesFacts, DiscardFacts DEF DiscardLeftover
<1>20. CASE KeepComplete(e)
  BY <1>20, GoesFacts DEF KeepComplete
<1>21. ASSUME NEW c \in Callbacks, GiveUp(e, c) PROVE Told(e)'
  BY <1>21, GoesFacts, DiscardFacts DEF GiveUp
<1>22. ASSUME NEW c \in Callbacks, RecordFailure(e, c) PROVE Told(e)'
  <2>1. /\ call[e][c] \in {"removed", "kept"}
        /\ \E step \in {"report", "idle"} : Goes(e, c, step)
        /\ UNCHANGED <<parent, disp, qlibState, tries, inputFiles, old, fenced, unheard, unsure>>
        /\ gone \subseteq gone'
    BY <1>22 DEF RecordFailure
  <2>2. \/ status' = IF status[e] \in Finished THEN status ELSE Set(status, e, "failed")
        \/ status' = status
    BY <1>22 DEF RecordFailure, UpdateExecution
  <2>3. status'[e] = "complete" <=> status[e] = "complete"
    BY <2>2, StatusFacts
  <2>4. call'[e][c] \in {"report", "idle"} /\ \A d \in Callbacks : d # c => call'[e][d] = call[e][d]
    BY <2>1, GoesFacts
  <2>5. QED
    BY <2>1, <2>3, <2>4
<1>23. ASSUME NEW c \in Callbacks, MarkFailed(e, c) PROVE Told(e)'
  BY <1>23, GoesFacts, TellFacts DEF MarkFailed
<1>24. CASE Fence(e)
  BY <1>24 DEF Fence
<1>25. CASE TellFenced(e)
  BY <1>25, TellFacts DEF TellFenced
<1>26. CASE Reclaim(e)
  BY <1>26 DEF Reclaim
<1>27. CASE Day(e)
  BY <1>27 DEF Day
<1>28. CASE Lose(e)
  BY <1>28, GoesFacts DEF Lose
<1>29. QED
  BY <1>1, <1>2, <1>3, <1>4, <1>5, <1>6, <1>7, <1>8, <1>9, <1>10, <1>11, <1>12, <1>13, <1>14, <1>15,
     <1>16, <1>17, <1>18, <1>19, <1>20, <1>21, <1>22, <1>23, <1>24, <1>25, <1>26, <1>27, <1>28
     DEF StepOf, Trigger, DailyDispatch, QlibWorker, Callback, Maintenance

(* A finished execution stays finished, and an execution comes alive only  *)
(* where none is.                                                          *)
LEMMA StatusStep ==
  ASSUME DailyTypeOK, NEW e \in Execs, StepOf(e), Sound(e)
  PROVE  /\ status[e] \in Finished => status'[e] = status[e]
         /\ status'[e] \in Live => status[e] \in Live \/ \A f \in Execs : status[f] \notin Live
<1> USE DEF DailyTypeOK, Live, Finished, execRows
<1>1. CASE UNCHANGED status
  BY <1>1
<1>2. CASE CreateExecution(e)
  BY <1>2 DEF CreateExecution, Sound
<1>3. CASE Publish(e)
  BY <1>3 DEF Publish, Set
<1>4. CASE Fence(e)
  BY <1>4 DEF Fence, Set
<1>5. CASE MarkPredicting(e)
  <2>1. status[e] # "none"
    BY <1>5 DEF MarkPredicting, Sound
  <2>2. \/ status' = IF status[e] \in Finished THEN status ELSE Set(status, e, "predicting")
        \/ status' = status
    BY <1>5 DEF MarkPredicting, UpdateExecution
  <2>3. QED
    BY <2>1, <2>2, StatusFacts
<1>6. CASE FailExecution(e) \/ \E c \in Callbacks : RecordFailure(e, c)
  <2>1. \/ status' = IF status[e] \in Finished THEN status ELSE Set(status, e, "failed")
        \/ status' = status
    BY <1>6 DEF FailExecution, RecordFailure, UpdateExecution
  <2>2. QED
    BY <2>1, StatusFacts
<1>7. QED
  BY <1>1, <1>2, <1>3, <1>4, <1>5, <1>6
     DEF StepOf, Trigger, DailyDispatch, QlibWorker, Callback, Maintenance, SkipOpenMarket, Refuse,
         StartBuild, Build, SendPrediction, Defer, DiscardInput, ReportFailure, Redeliver, Open, Lock,
         Predict, PublishFails, MarkCompleted, DiscardLeftover, KeepComplete, GiveUp, MarkFailed,
         TellFenced, Reclaim, Day, Lose

LEMMA DailyInvInit == DailyInit => DailyInv
  BY FaultyAssumption, MaxRetriesAssumption
     DEF DailyInit, DailyInv, DailyTypeOK, OneLivePerDate, Sound, Told, Live, Finished, Callbacks, Statuses,
         Active, Terminal

LEMMA DailyInvNext == DailyInv /\ [DailyNext]_dailyVars => DailyInv'
<1> SUFFICES ASSUME DailyInv, [DailyNext]_dailyVars PROVE DailyInv'
  OBVIOUS
<1>1. DailyTypeOK'
  BY DailyTypingStep DEF DailyInv
<1>2. ASSUME NEW e \in Execs, StepOf(e) PROVE DailyInv'
  <2>1. \A f \in Execs : f # e => SameExecution(f)
    BY <1>2, OthersSame DEF DailyInv
  <2>2. ASSUME NEW f \in Execs PROVE Sound(f)' /\ Told(f)'
    <3>1. CASE f = e
      BY <1>1, <1>2, <3>1, SoundNext, ToldNext DEF DailyInv
    <3>2. CASE f # e
      BY <2>1, <3>2 DEF DailyInv, SameExecution, Sound, Told
    <3>3. QED
      BY <3>1, <3>2
  <2>3. OneLivePerDate'
    <3>1. ASSUME NEW f \in Execs, NEW g \in Execs, status'[f] \in Live, status'[g] \in Live, f # g
          PROVE  FALSE
      <4>1. status'[e] \in Live => status[e] \in Live \/ \A h \in Execs : status[h] \notin Live
        BY <1>2, StatusStep DEF DailyInv
      <4>2. \A h \in Execs : h # e => status'[h] = status[h]
        BY <2>1 DEF SameExecution
      <4>3. QED
        BY <3>1, <4>1, <4>2 DEF DailyInv, OneLivePerDate
    <3>2. QED
      BY <3>1 DEF OneLivePerDate
  <2>4. QED
    BY <1>1, <2>2, <2>3 DEF DailyInv
<1>3. CASE UNCHANGED dailyVars
  BY <1>1, <1>3 DEF DailyInv, OneLivePerDate, Sound, Told, dailyVars, execRows, qlibState, inputFiles, dailyHistory
<1>4. QED
  BY <1>2, <1>3 DEF DailyNext, StepOf

-----------------------------------------------------------------------------

(* The variables keep their types.  (quant_execution and the task row)     *)
THEOREM DailyTyping == DailySpec => []DailyTypeOK
<1>1. DailyInv => DailyTypeOK
  BY DEF DailyInv
<1>2. QED
  BY <1>1, DailyInvInit, DailyInvNext, PTL DEF DailySpec

(* The input a worker reads is there, whoever gives the execution up.      *)
(* (PredictionInputs.remove, prediction_input_lease)                       *)
THEOREM ReaderKeepsInput == DailySpec => []InputOutlivesReader
<1>1. DailyInv => InputOutlivesReader
  BY DEF DailyInv, Sound, InputOutlivesReader
<1>2. QED
  BY <1>1, DailyInvInit, DailyInvNext, PTL DEF DailySpec

(* One execution of a market and date is live.  (uix_quant_execution_active*)
(* and update_execution)                                                   *)
THEOREM OneLive == DailySpec => []OneLivePerDate
<1>1. DailyInv => OneLivePerDate
  BY DEF DailyInv
<1>2. QED
  BY <1>1, DailyInvInit, DailyInvNext, PTL DEF DailySpec

(* Once all is done, an execution nothing was lost of is complete exactly  *)
(* when its parent's row is completed.  (finalize and fail_quant_daily,    *)
(* cleanup_inputs)                                                         *)
THEOREM ParentKnows == DailySpec => []ParentAgrees
<1>1. DailyInv => ParentAgrees
  BY DEF DailyInv, Told, ParentAgrees, AtRest, Callbacks
<1>2. QED
  BY <1>1, DailyInvInit, DailyInvNext, PTL DEF DailySpec

(* A finished execution never changes, whatever callbacks come late.       *)
(* (update_execution, replace_signals_and_save_portfolio)                  *)
THEOREM FinishedForGood == DailySpec => FinishedStays
<1>1. DailyInv /\ [DailyNext]_dailyVars =>
        [\A e \in Execs : status[e] \in Finished => status'[e] = status[e]]_dailyVars
  <2> SUFFICES ASSUME DailyInv, NEW e \in Execs, StepOf(e), NEW f \in Execs, status[f] \in Finished
               PROVE  status'[f] = status[f]
    BY DEF DailyNext, StepOf
  <2>1. CASE f = e
    BY <2>1, StatusStep DEF DailyInv
  <2>2. CASE f # e
    BY <2>2, OthersSame DEF DailyInv, SameExecution
  <2>3. QED
    BY <2>1, <2>2
<1>2. QED
  BY <1>1, DailyInvInit, DailyInvNext, PTL DEF DailySpec, FinishedStays
=============================================================================
