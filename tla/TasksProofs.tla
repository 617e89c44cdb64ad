------------------------------ MODULE TasksProofs ------------------------------
(***************************************************************************)
(* The two sides of a parent's row under the one specification of          *)
(* MCTasks: whichever of them a behaviour moves, both keep what they       *)
(* promise.                                                                *)
(***************************************************************************)
EXTENDS MCTasks, TaskLifecycleProofs, QuantDailyProofs

LEMMA EachSide ==
    ASSUME Administered \subseteq Tasks
    PROVE  TasksSpec => Spec /\ DailySpec
<1>1. TasksInit => Init /\ DailyInit
      BY DEF TasksInit
<1>2. [TasksNext]_<<vars, dailyVars, focus>> => [Next]_vars /\ [DailyNext]_dailyVars
      BY DEF TasksNext, Next
<1> QED BY <1>1, <1>2, PTL DEF TasksSpec, Spec, DailySpec

(* The states of both are well typed.  (run_registered_task,               *)
(* quant_execution)                                                        *)
THEOREM TasksTyping ==
    ASSUME Administered \subseteq Tasks
    PROVE  TasksSpec => []TasksTypeOK
BY EachSide, Typing, DailyTyping, PTL DEF TasksTypeOK

(* The row tells the truth, retries follow reported failures, inputs       *)
(* outlive their readers and the parent agrees with its execution, in      *)
(* behaviours of either.  (run_registered_task, prepare, finalize)         *)
THEOREM TasksAreSound ==
    ASSUME Administered \subseteq Tasks
    PROVE  TasksSpec => /\ [](TruthAtRest /\ RetryFollowsReportedFailure /\ RowCoherent)
                        /\ [](InputOutlivesReader /\ ParentAgrees)
                        /\ StatusNeverMovesBack /\ FinishedStays
BY EachSide, RestTellsTruth, RetriesAreReported, RowsAreCoherent, NoWayBack,
   ReaderKeepsInput, ParentKnows, FinishedForGood, PTL
=============================================================================
