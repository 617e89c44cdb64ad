------------------------------- MODULE MCTasks -------------------------------
(* Instances of TaskLifecycle and of QuantDaily for TLC: three pieces of   *)
(* work that do not meet, of which a behaviour does one.                   *)
EXTENDS TaskLifecycle, QuantDaily, TLC

CONSTANTS m, q, lk, e1

VARIABLE focus \* the task or the execution of this behaviour

(* m is an administrator's job with two retries and outcomes that holds a  *)
(* lock and expires, q a parent that hands its row to a Qlib child, e1 one *)
(* daily execution under every fault.                                      *)
Administered == {m, q}
LockNames    == m :> lk
Retries2     == m :> 2 @@ q :> 0
Parents      == {q}
OneExecution == {e1}

TasksInit == Init /\ DailyInit /\ focus \in Administered \cup OneExecution

TasksNext ==
    /\ UNCHANGED focus
    /\ \/ /\ \E t \in Administered : focus = t /\ (Publisher(t) \/ Worker(t) \/ Child(t) \/ Fault(t))
          /\ UNCHANGED dailyVars
       \/ focus \in OneExecution /\ DailyNext /\ UNCHANGED vars

TasksSpec ==
    TasksInit /\ [][TasksNext]_<<vars, dailyVars, focus>> /\ Fairness /\ DailyFairness

TasksTypeOK == TypeOK /\ DailyTypeOK
=============================================================================
