--------------------------- MODULE TaskLifecycle ---------------------------
(***************************************************************************)
(* A Celery task from the click or the beat tick that publishes it to the  *)
(* last write to its row: the publisher (TaskService.run_scheduled_task_now*)
(* or beat), the before_task_publish signal, the broker, and the           *)
(* track_task wrapper around the job with its advisory lock, its failure   *)
(* notification and Celery's automatic retries.                            *)
(*                                                                         *)
(* A write through TaskLifecycleService is best effort: _safe_write        *)
(* swallows whatever the database raises.  lost names the tasks that lost  *)
(* such a write; stranded names those whose message, publisher, worker or  *)
(* Qlib child disappeared, for which the code keeps no one to conclude the *)
(* row.  Both are history variables, read by the properties only.          *)
(***************************************************************************)
EXTENDS TaskRecord

CONSTANTS
    Tasks,        \* task ids
    Locks,        \* TaskAdvisoryLockId
    LockOf,       \* the advisory_lock_id of the tasks that have one
    RetryLimit,   \* max_retries of each task, 0 without autoretry_for
    OutcomeTasks, \* tasks with an outcome_getter
    Deferring,    \* tasks that return a DeferredTaskResult
    Manual,       \* tasks an administrator submits, the others being beat's
    Expiring      \* tasks published with an expiry

ASSUME LockOfAssumption == /\ DOMAIN LockOf \subseteq Tasks
                           /\ \A t \in DOMAIN LockOf : LockOf[t] \in Locks
ASSUME RetryLimitAssumption == RetryLimit \in [Tasks -> Nat]
ASSUME DeferringAssumption  == \A t \in Deferring : RetryLimit[t] = 0

VARIABLES
    rec,      \* the row of each task
    pub,      \* how far the first publication got
    msg,      \* a message of the task is in the broker
    wrk,      \* the step its worker takes next
    attempt,  \* the retries header of the task's latest message
    verdict,  \* the status the attempt is about to record
    exc,      \* the exception the attempt leaves the wrapper with
    lock,     \* the attempt's advisory lock: none, held, or its session died
    child,    \* the Qlib work a deferring task handed its row to
    outcomes, \* history: the verdicts reached since the latest attempt began
    notified, \* history: the attempts a failure notification was sent for
    lost, stranded

worker  == <<wrk, attempt, verdict, exc, lock>>
history == <<notified, stranded>>
vars == <<rec, pub, msg, worker, child, outcomes, history, lost>>

Locked  == DOMAIN LockOf
Running == {"body", "deferring", "writing", "notifying"}

TypeOK ==
    /\ rec \in [Tasks -> Record]
    /\ pub \in [Tasks -> {"new", "submitted", "announced", "refused", "done"}]
    /\ msg \in [Tasks -> BOOLEAN]
    /\ wrk \in [Tasks -> Running \cup {"idle", "locking", "releasing",
                                       "retrying", "resending"}]
    /\ attempt \in [Tasks -> Nat]
    /\ verdict \in [Tasks -> Terminal \cup {"none"}]
    /\ exc \in [Tasks -> {"none", "retryable", "fatal"}]
    /\ lock \in [Tasks -> {"none", "held", "lost"}]
    /\ child \in [Tasks -> {"none", "running", "done"}]
    /\ outcomes \in [Tasks -> SUBSET Terminal]
    /\ notified \in [Tasks -> SUBSET Nat]
    /\ lost \subseteq Tasks
    /\ stranded \subseteq Tasks
    /\ \A t \in Tasks : wrk[t] = "writing" => verdict[t] # "none"

Init ==
    /\ rec = [t \in Tasks |-> Blank]
    /\ pub = [t \in Tasks |-> "new"]
    /\ msg = [t \in Tasks |-> FALSE]
    /\ wrk = [t \in Tasks |-> "idle"]
    /\ attempt = [t \in Tasks |-> 0]
    /\ verdict = [t \in Tasks |-> "none"]
    /\ exc = [t \in Tasks |-> "none"]
    /\ lock = [t \in Tasks |-> "none"]
    /\ child = [t \in Tasks |-> "none"]
    /\ outcomes = [t \in Tasks |-> {}]
    /\ notified = [t \in Tasks |-> {}]
    /\ lost = {}
    /\ stranded = {}

(* A write to t's row that the database takes, or that is lost.            *)
Write(t, row) ==
    \/ rec' = [rec EXCEPT ![t] = row] /\ UNCHANGED lost
    \/ UNCHANGED rec /\ lost' = lost \cup {t}

Strand(t) == stranded' = stranded \cup {t} /\ UNCHANGED notified

-----------------------------------------------------------------------------
(* The publisher.                                                          *)

(* The administrator's row is written before the submission; a database    *)
(* error ends the request.                                                 *)
SubmitManual(t) ==
    /\ t \in Manual
    /\ pub[t] = "new"
    /\ \/ /\ rec' = [rec EXCEPT ![t] = EnsurePending(@, 0)]
          /\ pub' = [pub EXCEPT ![t] = "submitted"]
       \/ /\ pub' = [pub EXCEPT ![t] = "done"]
          /\ UNCHANGED rec
    /\ UNCHANGED <<msg, worker, child, outcomes, history, lost>>

(* before_task_publish runs in the publisher, ahead of the message.        *)
Announce(t) ==
    /\ pub[t] = IF t \in Manual THEN "submitted" ELSE "new"
    /\ pub' = [pub EXCEPT ![t] = "announced"]
    /\ Write(t, EnsurePending(rec[t], 0))
    /\ UNCHANGED <<msg, worker, child, outcomes, history>>

Send(t) ==
    /\ pub[t] = "announced"
    /\ pub' = [pub EXCEPT ![t] = "done"]
    /\ msg' = [msg EXCEPT ![t] = TRUE]
    /\ UNCHANGED <<rec, worker, child, outcomes, history, lost>>

(* The broker call raises; the broker may have taken the message anyway.   *)
SendFails(t) ==
    /\ pub[t] = "announced"
    /\ pub' = [pub EXCEPT ![t] = IF t \in Manual THEN "refused" ELSE "done"]
    /\ \E accepted \in BOOLEAN :
          /\ msg' = [msg EXCEPT ![t] = accepted]
          /\ IF accepted \/ t \in Manual THEN UNCHANGED history ELSE Strand(t)
    /\ UNCHANGED <<rec, worker, child, outcomes, lost>>

Cancel(t) ==
    /\ pub[t] = "refused"
    /\ pub' = [pub EXCEPT ![t] = "done"]
    /\ outcomes' = [outcomes EXCEPT ![t] = @ \cup {"cancelled"}]
    /\ Write(t, MarkFinal(rec[t], "cancelled", 0))
    /\ UNCHANGED <<msg, worker, child, history>>

PublisherDies(t) ==
    /\ pub[t] \in {"submitted", "announced", "refused"}
    /\ pub' = [pub EXCEPT ![t] = "done"]
    /\ Strand(t)
    /\ UNCHANGED <<rec, msg, worker, child, outcomes, lost>>

(* A worker discards an expired message; nothing listens for it.           *)
Expire(t) ==
    /\ t \in Expiring
    /\ msg[t]
    /\ msg' = [msg EXCEPT ![t] = FALSE]
    /\ Strand(t)
    /\ UNCHANGED <<rec, pub, worker, child, outcomes, lost>>

-----------------------------------------------------------------------------
(* The track_task wrapper.                                                 *)

(* Celery acknowledges the message before it runs the task.                *)
Start(t) ==
    /\ msg[t]
    /\ wrk[t] = "idle"
    /\ msg' = [msg EXCEPT ![t] = FALSE]
    /\ wrk' = [wrk EXCEPT ![t] = "locking"]
    /\ verdict' = [verdict EXCEPT ![t] = "none"]
    /\ exc' = [exc EXCEPT ![t] = "none"]
    /\ outcomes' = [outcomes EXCEPT ![t] = {}]
    /\ Write(t, MarkProcessing(rec[t], attempt[t]))
    /\ UNCHANGED <<pub, attempt, lock, child, history>>

(* Mutant of End: the verdict of the attempt before is kept.               *)
EndKeepingVerdict(t, v, e) ==
    /\ wrk' = [wrk EXCEPT ![t] = "writing"]
    /\ exc' = [exc EXCEPT ![t] = e]
    /\ UNCHANGED <<rec, pub, msg, attempt, verdict, lock, outcomes, history, lost>>

(* The body, or what stands in its way, ends in verdict v and exception e. *)
End(t, v, e) ==
    /\ wrk' = [wrk EXCEPT ![t] = "writing"]
    /\ verdict' = [verdict EXCEPT ![t] = v]
    /\ exc' = [exc EXCEPT ![t] = e]
    /\ UNCHANGED <<rec, pub, msg, attempt, lock, outcomes, history, lost>>

(* Mutant of LockFree: the lock is taken without asking.                   *)
LockIgnored(t) == TRUE

(* pg_try_advisory_lock succeeds unless another session holds the lock.    *)
LockFree(t) == \A u \in Locked : LockOf[u] = LockOf[t] => lock[u] # "held"

EnterBody(t) ==
    /\ wrk[t] = "locking"
    /\ t \in Locked => LockFree(t)
    /\ wrk' = [wrk EXCEPT ![t] = "body"]
    /\ lock' = [lock EXCEPT ![t] = IF t \in Locked THEN "held" ELSE @]
    /\ UNCHANGED <<rec, pub, msg, attempt, verdict, exc, child, outcomes,
                   history, lost>>

LockBusy(t) ==
    /\ wrk[t] = "locking"
    /\ t \in Locked /\ ~LockFree(t)
    /\ End(t, "skipped", "none")
    /\ UNCHANGED child

LockError(t) ==
    /\ wrk[t] = "locking"
    /\ t \in Locked
    /\ End(t, "failed", "fatal")
    /\ UNCHANGED child

Return(t) ==
    /\ wrk[t] = "body"
    /\ t \notin Deferring
    /\ \E v \in {"completed"} \cup
                (IF t \in OutcomeTasks THEN {"failed", "partial"} ELSE {}) :
          End(t, v, "none")
    /\ UNCHANGED child

(* Mutant of Skip: TaskSkipped is swallowed without mark_skipped.          *)
SkipUnrecorded(t) ==
    /\ wrk[t] = "body"
    /\ wrk' = [wrk EXCEPT ![t] = "releasing"]
    /\ UNCHANGED <<rec, pub, msg, attempt, verdict, exc, lock, child, outcomes,
                   history, lost>>

Skip(t) ==
    /\ wrk[t] = "body"
    /\ End(t, "skipped", "none")
    /\ UNCHANGED child

Raise(t) ==
    /\ wrk[t] = "body"
    /\ \E e \in {"retryable", "fatal"} : End(t, "failed", e)
    /\ UNCHANGED child

(* A deferring body sends its child and returns a DeferredTaskResult, ...  *)
Dispatch(t) ==
    /\ wrk[t] = "body"
    /\ t \in Deferring
    /\ wrk' = [wrk EXCEPT ![t] = "deferring"]
    /\ child' = [child EXCEPT ![t] = "running"]
    /\ UNCHANGED <<rec, pub, msg, attempt, verdict, exc, lock, outcomes,
                   history, lost>>

(* ... or its send raises although the broker took the child's message.    *)
DispatchFails(t) ==
    /\ wrk[t] = "body"
    /\ t \in Deferring
    /\ child' = [child EXCEPT ![t] = "running"]
    /\ End(t, "failed", "fatal")

WriteProgress(t) ==
    /\ wrk[t] = "deferring"
    /\ wrk' = [wrk EXCEPT ![t] = "releasing"]
    /\ Write(t, MarkProgress(rec[t]))
    /\ UNCHANGED <<pub, msg, attempt, verdict, exc, lock, child, outcomes,
                   history>>

WriteVerdict(t) ==
    /\ wrk[t] = "writing"
    /\ wrk' = [wrk EXCEPT ![t] = IF exc[t] = "none" THEN "releasing"
                                 ELSE "notifying"]
    /\ outcomes' = [outcomes EXCEPT ![t] = @ \cup {verdict[t]}]
    /\ Write(t, MarkFinal(rec[t], verdict[t], attempt[t]))
    /\ UNCHANGED <<pub, msg, attempt, verdict, exc, lock, child, history>>

Notify(t) ==
    /\ wrk[t] = "notifying"
    /\ wrk' = [wrk EXCEPT ![t] = "releasing"]
    /\ notified' = [notified EXCEPT ![t] = @ \cup {attempt[t]}]
    /\ UNCHANGED <<rec, pub, msg, attempt, verdict, exc, lock, child, outcomes,
                   lost, stranded>>

(* Mutant of Retries: whatever the attempt ended in is retried.            *)
RetriesAnyEnd(t) == attempt[t] < RetryLimit[t]

Retries(t) == exc[t] = "retryable" /\ attempt[t] < RetryLimit[t]

(* Mutant of Release: outside the finally block, skipped by an exception.  *)
ReleaseUnlessRaised(t) ==
    /\ wrk[t] = "releasing"
    /\ lock[t] # "lost"
    /\ lock' = [lock EXCEPT ![t] = IF exc[t] = "none" THEN "none" ELSE @]
    /\ wrk' = [wrk EXCEPT ![t] = IF Retries(t) THEN "retrying" ELSE "idle"]
    /\ UNCHANGED <<rec, pub, msg, attempt, verdict, exc, child, outcomes,
                   history, lost>>

Release(t) ==
    /\ wrk[t] = "releasing"
    /\ lock[t] # "lost"
    /\ lock' = [lock EXCEPT ![t] = "none"]
    /\ wrk' = [wrk EXCEPT ![t] = IF Retries(t) THEN "retrying" ELSE "idle"]
    /\ UNCHANGED <<rec, pub, msg, attempt, verdict, exc, child, outcomes,
                   history, lost>>

(* release raises out of the finally block: its exception replaces the     *)
(* body's, and no autoretry_for lists it.  The session ends with it.       *)
ReleaseFails(t) ==
    /\ wrk[t] = "releasing"
    /\ lock[t] # "none"
    /\ lock' = [lock EXCEPT ![t] = "none"]
    /\ wrk' = [wrk EXCEPT ![t] = "idle"]
    /\ exc' = [exc EXCEPT ![t] = "fatal"]
    /\ UNCHANGED <<rec, pub, msg, attempt, verdict, child, outcomes, history,
                   lost>>

(* Celery publishes the retry from the worker, through the same signal.    *)
Reannounce(t) ==
    /\ wrk[t] = "retrying"
    /\ wrk' = [wrk EXCEPT ![t] = "resending"]
    /\ Write(t, EnsurePending(rec[t], attempt[t] + 1))
    /\ UNCHANGED <<pub, msg, attempt, verdict, exc, lock, child, outcomes,
                   history>>

(* The broker takes the retry, or (the task rejected) it does not.         *)
Resend(t) ==
    /\ wrk[t] = "resending"
    /\ wrk' = [wrk EXCEPT ![t] = "idle"]
    /\ \/ /\ msg' = [msg EXCEPT ![t] = TRUE]
          /\ attempt' = [attempt EXCEPT ![t] = @ + 1]
       \/ UNCHANGED <<msg, attempt>>
    /\ UNCHANGED <<rec, pub, verdict, exc, lock, child, outcomes, history, lost>>

-----------------------------------------------------------------------------
(* The Qlib child: its callback records the parent's verdict.  A child     *)
(* whose dispatch was reported failed finds its execution failed.          *)
ChildFinal(t) ==
    /\ child[t] = "running"
    /\ child' = [child EXCEPT ![t] = "done"]
    /\ \E v \in {"failed"} \cup (IF exc[t] = "none" THEN {"completed"} ELSE {}) :
          /\ outcomes' = [outcomes EXCEPT ![t] = @ \cup {v}]
          /\ Write(t, MarkFinal(rec[t], v, attempt[t]))
    /\ UNCHANGED <<pub, msg, worker, history>>

ChildLost(t) ==
    /\ child[t] = "running"
    /\ child' = [child EXCEPT ![t] = "done"]
    /\ Strand(t)
    /\ UNCHANGED <<rec, pub, msg, worker, outcomes, lost>>

(* The worker process dies: its database session ends, its message is gone.*)
Crash(t) ==
    /\ wrk[t] # "idle"
    /\ wrk' = [wrk EXCEPT ![t] = "idle"]
    /\ lock' = [lock EXCEPT ![t] = "none"]
    /\ Strand(t)
    /\ UNCHANGED <<rec, pub, msg, attempt, verdict, exc, child, outcomes, lost>>

(* The database ends the session that holds the lock; the body runs on.    *)
LoseConnection(t) ==
    /\ lock[t] = "held"
    /\ lock' = [lock EXCEPT ![t] = "lost"]
    /\ UNCHANGED <<rec, pub, msg, wrk, attempt, verdict, exc, child, outcomes,
                   history, lost>>

-----------------------------------------------------------------------------
Publisher(t) == \/ SubmitManual(t) \/ Announce(t) \/ Send(t) \/ SendFails(t)
                \/ Cancel(t)

Worker(t) ==
    \/ Start(t) \/ EnterBody(t) \/ LockBusy(t) \/ LockError(t)
    \/ Return(t) \/ Skip(t) \/ Raise(t) \/ Dispatch(t) \/ DispatchFails(t)
    \/ WriteProgress(t) \/ WriteVerdict(t) \/ Notify(t)
    \/ Release(t) \/ ReleaseFails(t) \/ Reannounce(t) \/ Resend(t)

Child(t) == ChildFinal(t) \/ ChildLost(t)

Fault(t) == PublisherDies(t) \/ Expire(t) \/ Crash(t) \/ LoseConnection(t)

Next == \E t \in Tasks : Publisher(t) \/ Worker(t) \/ Child(t) \/ Fault(t)

Spec == Init /\ [][Next]_vars

(* A worker process runs what it takes, jobs return (Celery is given no    *)
(* time limit to stop one that does not), and a Qlib worker does the same. *)
Fairness == \A t \in Tasks : WF_vars(Worker(t)) /\ WF_vars(Child(t))

FairSpec == Spec /\ Fairness

-----------------------------------------------------------------------------
(* Safety.                                                                 *)

Settled(t) == /\ pub[t] = "done" /\ ~msg[t] /\ wrk[t] = "idle"
              /\ child[t] # "running"

(* Once nothing of a task is in flight its row tells what became of it:    *)
(* a verdict of its latest attempt (or of the Qlib child that took the row *)
(* over), the cancellation of a refused submission, or no row at all when  *)
(* it never ran.  A retry replaces the failure before it, and the parent's *)
(* late 50% progress write never takes a callback's verdict back.          *)
TruthAtRest ==
    \A t \in Tasks \ (lost \cup stranded) :
        Settled(t) => rec[t].status \in
                          IF outcomes[t] = {} THEN {"absent"} ELSE outcomes[t]

InBody(t) == \/ wrk[t] \in {"body", "deferring"}
             \/ wrk[t] = "writing" /\ verdict[t] \in {"completed", "partial"}

(* Two jobs that share an advisory lock never run at the same time, from   *)
(* entering the body to recording its success, unless the database ended   *)
(* the session of one of them.                                             *)
NoOverlap ==
    \A t, u \in Locked :
        t # u /\ LockOf[t] = LockOf[u] /\ InBody(t) /\ InBody(u)
            => "lost" \in {lock[t], lock[u]}

(* A second attempt is only ever made of a task whose last attempt was     *)
(* recorded as failed and reported: a skip or a business outcome (failed,  *)
(* partial) returns normally and is never run again.                       *)
RetryFollowsReportedFailure ==
    \A t \in Tasks :
        wrk[t] \in {"retrying", "resending"} \/ (msg[t] /\ attempt[t] > 0) =>
            /\ outcomes[t] \ {"cancelled"} = {"failed"}
            /\ \A n \in 0 .. attempt[t] - (IF msg[t] THEN 1 ELSE 0) :
                  n \in notified[t]
            /\ exc[t] = "retryable"

Coherent(r) ==
    /\ r.status = "pending" => r.started = 0
    /\ r.status \in {"processing", "completed", "failed", "partial", "skipped"} =>
          r.started # 0
    /\ r.finished # 0 <=> r.status \in Terminal
    /\ r.status \in {"failed", "partial"} => r.error = r.finished

(* The columns of a row agree whichever writes reached it: a row that ran  *)
(* has a start, a terminal row an end, an active row no end, a pending row *)
(* neither; the error of a failed row is that of its last attempt.         *)
RowCoherent == \A t \in Tasks \ lost : Coherent(rec[t])

Rank(s) == CASE s = "absent" -> 0 [] s = "pending" -> 1
             [] s = "processing" -> 2 [] OTHER -> 3

(* Whatever order the publisher, the worker, its retries and the Qlib      *)
(* callback write in, a status never moves back: late pending and          *)
(* processing writes leave a terminal row terminal, with lost writes too,  *)
(* and a processing row becomes pending again only if a write of its task  *)
(* was lost and a retry announces it.                                      *)
StatusNeverMovesBack ==
    [][\A t \in Tasks :
          \/ Rank(rec'[t].status) >= Rank(rec[t].status)
          \/ t \in lost /\ rec[t].status = "processing"]_vars

-----------------------------------------------------------------------------
(* What the invariants above rest on, task by task.                        *)

(* Where the message, the attempt and the Qlib child can be.               *)
Flow(t) ==
    /\ msg[t] => wrk[t] = "idle"
    /\ pub[t] \in {"new", "submitted", "announced"} =>
          /\ ~msg[t] /\ wrk[t] = "idle" /\ attempt[t] = 0 /\ child[t] = "none"
          /\ outcomes[t] = {} /\ rec[t].status \in {"absent", "pending"}
    /\ pub[t] = "new" => rec[t].status = "absent"
    /\ child[t] # "none" => /\ t \in Deferring /\ ~msg[t]
                            /\ wrk[t] \notin {"locking", "body"}
    /\ wrk[t] = "deferring" => child[t] # "none"
    /\ attempt[t] <= RetryLimit[t]
    /\ wrk[t] \in {"retrying", "resending"} => attempt[t] < RetryLimit[t]

(* What a retry knows of the attempts before it.                           *)
RetryKnows(t) ==
    /\ wrk[t] \in {"locking", "body", "deferring"} => exc[t] = "none"
    /\ wrk[t] = "writing" /\ exc[t] # "none" => verdict[t] = "failed"
    /\ RetryLimit[t] > 0 =>
          /\ wrk[t] \in {"locking", "body", "writing"} =>
                outcomes[t] \subseteq {"cancelled"}
          /\ \/ wrk[t] \in {"notifying", "releasing"} /\ exc[t] = "retryable"
             \/ wrk[t] \in {"retrying", "resending"}
             \/ msg[t] /\ attempt[t] > 0
             => outcomes[t] \ {"cancelled"} = {"failed"} /\ exc[t] = "retryable"
    /\ wrk[t] \in {"releasing", "retrying", "resending"} /\ exc[t] = "retryable" =>
          attempt[t] \in notified[t]
    /\ msg[t] \/ wrk[t] # "idle" =>
          \A n \in 0 .. attempt[t] - 1 : n \in notified[t]

(* What the row owes to the verdicts, while nothing has been lost.         *)
RowTells(t) ==
    /\ t \notin lost /\ outcomes[t] # {} => rec[t].status \in outcomes[t]
    /\ child[t] = "done" /\ t \notin stranded => outcomes[t] # {}
    /\ t \notin lost \cup stranded /\ outcomes[t] = {} =>
          \/ rec[t].status = "absent"
          \/ pub[t] \in {"submitted", "announced", "refused"}
          \/ msg[t]
          \/ wrk[t] \in {"locking", "body", "deferring", "writing"}
          \/ child[t] = "running"

(* When the columns of the row are set.                                    *)
RowTimes(t) ==
    t \notin lost =>
        /\ wrk[t] # "idle" \/ child[t] # "none" => rec[t].started # 0
        /\ rec[t].status \in {"absent", "pending"} => rec[t].started = 0

TaskInv == \A t \in Tasks : Flow(t) /\ RetryKnows(t) /\ RowTells(t) /\ RowTimes(t)

(* The sessions that hold the advisory locks.                              *)
LockInv ==
    /\ \A t \in Locked : InBody(t) => lock[t] # "none"
    /\ \A t, u \in Locked :
          t # u /\ LockOf[t] = LockOf[u] /\ lock[t] = "held" => lock[u] # "held"

-----------------------------------------------------------------------------
(* Liveness, under FairSpec.                                               *)

(* Every message ends in a verdict on the row, or in a lost write or a     *)
(* lost process that accounts for its absence.                             *)
EveryMessageConcludes ==
    \A t \in Tasks :
        msg[t] ~> /\ ~msg[t] /\ wrk[t] = "idle" /\ child[t] # "running"
                  /\ rec[t].status \in Terminal \/ t \in lost \cup stranded

(* An advisory lock is always given back.                                  *)
LockReleased == \A t \in Tasks : lock[t] # "none" ~> lock[t] = "none"
=============================================================================
