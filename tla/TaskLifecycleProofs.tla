------------------------ MODULE TaskLifecycleProofs ------------------------
(* Theorems about TaskLifecycle, for any tasks, locks and retry limits.    *)
EXTENDS TaskLifecycle, TLAPS

-----------------------------------------------------------------------------
(* What the row writes return.                                             *)

(* Every write of a row, at any attempt, gives a row back.                 *)
LEMMA RowTyping ==
    ASSUME NEW r \in Record, NEW n \in Nat
    PROVE  /\ Blank \in Record
           /\ EnsurePending(r, n) \in Record
           /\ MarkProcessing(r, n) \in Record
           /\ MarkProgress(r) \in Record
           /\ \A s \in Terminal : MarkFinal(r, s, n) \in Record
<1>1. n + 1 \in Nat
    OBVIOUS
<1>2. \A s \in Statuses : Applied(r.status, s) \in Statuses
    BY DEF Applied, Record
<1>3. "pending" \in Statuses /\ "processing" \in Statuses
      /\ Terminal \subseteq Statuses /\ "absent" \in Statuses
    BY DEF Statuses, Active
<1>4. Blank \in Record
    BY <1>3 DEF Blank, Record
<1>5. EnsurePending(r, n) \in Record
    BY <1>2, <1>3 DEF EnsurePending, Record
<1>6. MarkProcessing(r, n) \in Record
    BY <1>1, <1>2, <1>3 DEF MarkProcessing, Record
<1>7. MarkProgress(r) \in Record
    BY <1>2, <1>3 DEF MarkProgress, Record
<1>8. ASSUME NEW s \in Terminal PROVE MarkFinal(r, s, n) \in Record
    BY ZenonT(60), <1>1, <1>2, <1>3 DEF MarkFinal, Record
<1> QED BY <1>4, <1>5, <1>6, <1>7, <1>8

(* A write of a well-typed row leaves rec and lost well typed.             *)
LEMMA WriteTyping ==
    ASSUME TypeOK, NEW t \in Tasks, NEW row \in Record, Write(t, row)
    PROVE  rec' \in [Tasks -> Record] /\ lost' \subseteq Tasks
BY DEF TypeOK, Write

LEMMA StrandTyping ==
    ASSUME TypeOK, NEW t \in Tasks, Strand(t)
    PROVE  stranded' \subseteq Tasks /\ notified' \in [Tasks -> SUBSET Nat]
BY DEF TypeOK, Strand

-----------------------------------------------------------------------------
LEMMA InitTyping == Init => TypeOK
BY RowTyping, 0 \in Nat DEF Init, TypeOK, Record, Blank, Statuses

LEMMA PublisherTyping ==
    ASSUME TypeOK, NEW t \in Tasks, Publisher(t) PROVE TypeOK'
<1> rec[t] \in Record /\ 0 \in Nat
    BY DEF TypeOK
<1>1. CASE SubmitManual(t)
    <2>1. EnsurePending(rec[t], 0) \in Record
        BY RowTyping
    <2>2. rec' \in [Tasks -> Record]
        BY <1>1, <2>1 DEF SubmitManual, TypeOK
    <2> QED BY <1>1, <2>2 DEF SubmitManual, TypeOK, worker, history
<1>2. CASE Announce(t)
    <2>1. EnsurePending(rec[t], 0) \in Record
        BY RowTyping
    <2>2. rec' \in [Tasks -> Record] /\ lost' \subseteq Tasks
        BY <1>2, <2>1, WriteTyping DEF Announce
    <2> QED BY <1>2, <2>2 DEF Announce, TypeOK, worker, history
<1>3. CASE Send(t)
    BY <1>3 DEF Send, TypeOK, worker, history
<1>4. CASE SendFails(t)
    <2>1. stranded' \subseteq Tasks /\ notified' \in [Tasks -> SUBSET Nat]
        BY <1>4, StrandTyping DEF SendFails, TypeOK, history
    <2> QED BY ZenonT(60), <1>4, <2>1 DEF SendFails, TypeOK, worker
<1>5. CASE Cancel(t)
    <2>1. MarkFinal(rec[t], "cancelled", 0) \in Record
        BY RowTyping DEF Terminal
    <2>2. rec' \in [Tasks -> Record] /\ lost' \subseteq Tasks
        BY <1>5, <2>1, WriteTyping DEF Cancel
    <2> QED BY <1>5, <2>2 DEF Cancel, TypeOK, worker, history, Terminal
<1> QED BY <1>1, <1>2, <1>3, <1>4, <1>5 DEF Publisher

LEMMA WorkerTyping ==
    ASSUME TypeOK, NEW t \in Tasks, Worker(t) PROVE TypeOK'
<1> rec[t] \in Record /\ attempt[t] \in Nat /\ attempt[t] + 1 \in Nat
    BY DEF TypeOK
<1>1. CASE Start(t)
    <2>1. MarkProcessing(rec[t], attempt[t]) \in Record
        BY RowTyping
    <2>2. rec' \in [Tasks -> Record] /\ lost' \subseteq Tasks
        BY <1>1, <2>1, WriteTyping DEF Start
    <2> QED BY <1>1, <2>2 DEF Start, TypeOK, history
<1>2. CASE EnterBody(t)
    BY <1>2 DEF EnterBody, TypeOK, history, Running
<1>3. CASE LockBusy(t)
    BY <1>3 DEF LockBusy, End, TypeOK, history, Running, Terminal
<1>4. CASE LockError(t)
    BY <1>4 DEF LockError, End, TypeOK, history, Running, Terminal
<1>5. CASE Return(t)
    BY <1>5 DEF Return, End, TypeOK, history, Running, Terminal
<1>6. CASE Skip(t)
    BY <1>6 DEF Skip, End, TypeOK, history, Running, Terminal
<1>7. CASE Raise(t)
    BY <1>7 DEF Raise, End, TypeOK, history, Running, Terminal
<1>8. CASE Dispatch(t)
    BY <1>8 DEF Dispatch, TypeOK, history, Running
<1>9. CASE DispatchFails(t)
    BY <1>9 DEF DispatchFails, End, TypeOK, history, Running, Terminal
<1>10. CASE WriteProgress(t)
    <2>1. rec' \in [Tasks -> Record] /\ lost' \subseteq Tasks
        BY <1>10, RowTyping, WriteTyping DEF WriteProgress
    <2> QED BY <1>10, <2>1 DEF WriteProgress, TypeOK, history
<1>11. CASE WriteVerdict(t)
    <2>1. verdict[t] \in Terminal
        BY <1>11 DEF WriteVerdict, TypeOK
    <2>2. MarkFinal(rec[t], verdict[t], attempt[t]) \in Record
        BY <2>1, RowTyping
    <2>3. rec' \in [Tasks -> Record] /\ lost' \subseteq Tasks
        BY <1>11, <2>2, WriteTyping DEF WriteVerdict
    <2> QED BY <1>11, <2>1, <2>3 DEF WriteVerdict, TypeOK, history, Running
<1>12. CASE Notify(t)
    BY <1>12 DEF Notify, TypeOK
<1>13. CASE Release(t)
    BY <1>13 DEF Release, TypeOK, history
<1>14. CASE ReleaseFails(t)
    BY <1>14 DEF ReleaseFails, TypeOK, history
<1>15. CASE Reannounce(t)
    <2>1. rec' \in [Tasks -> Record] /\ lost' \subseteq Tasks
        BY <1>15, RowTyping, WriteTyping DEF Reannounce
    <2> QED BY <1>15, <2>1 DEF Reannounce, TypeOK, history
<1>16. CASE Resend(t)
    BY ZenonT(60), <1>16 DEF Resend, TypeOK, history
<1> QED BY <1>1, <1>2, <1>3, <1>4, <1>5, <1>6, <1>7, <1>8, <1>9, <1>10, <1>11,
           <1>12, <1>13, <1>14, <1>15, <1>16 DEF Worker

LEMMA EnvironmentTyping ==
    ASSUME TypeOK, NEW t \in Tasks, Child(t) \/ Fault(t) PROVE TypeOK'
<1> rec[t] \in Record /\ attempt[t] \in Nat
    BY DEF TypeOK
<1>1. CASE ChildFinal(t)
    <2>1. PICK v \in {"failed", "completed"} :
              /\ outcomes' = [outcomes EXCEPT ![t] = @ \cup {v}]
              /\ Write(t, MarkFinal(rec[t], v, attempt[t]))
        BY <1>1 DEF ChildFinal
    <2>2. v \in Terminal
        BY DEF Terminal
    <2>3. MarkFinal(rec[t], v, attempt[t]) \in Record
        BY <2>2, RowTyping
    <2>4. rec' \in [Tasks -> Record] /\ lost' \subseteq Tasks
        BY <2>1, <2>3, WriteTyping
    <2> QED BY <1>1, <2>1, <2>2, <2>4 DEF ChildFinal, TypeOK, worker, history
<1>2. CASE ChildLost(t)
    BY <1>2, StrandTyping DEF ChildLost, TypeOK, worker
<1>3. CASE PublisherDies(t)
    BY <1>3, StrandTyping DEF PublisherDies, TypeOK, worker
<1>4. CASE Expire(t)
    BY <1>4, StrandTyping DEF Expire, TypeOK, worker
<1>5. CASE Crash(t)
    BY <1>5, StrandTyping DEF Crash, TypeOK
<1>6. CASE LoseConnection(t)
    BY <1>6 DEF LoseConnection, TypeOK, history
<1> QED BY <1>1, <1>2, <1>3, <1>4, <1>5, <1>6 DEF Child, Fault

(* The state variables keep their types, the row its columns.              *)
THEOREM Typing == Spec => []TypeOK
<1>1. TypeOK /\ [Next]_vars => TypeOK'
    <2> SUFFICES ASSUME TypeOK, [Next]_vars PROVE TypeOK'
        OBVIOUS
    <2>1. CASE UNCHANGED vars
        BY <2>1 DEF vars, worker, history, TypeOK
    <2>2. CASE Next
        BY <2>2, PublisherTyping, WorkerTyping, EnvironmentTyping DEF Next
    <2> QED BY <2>1, <2>2
<1> QED BY <1>1, InitTyping, PTL DEF Spec

-----------------------------------------------------------------------------
(* Mutual exclusion.                                                       *)

LEMMA LockStep ==
    ASSUME TypeOK, LockInv, [Next]_vars PROVE LockInv'
<1> Locked \subseteq Tasks
    BY LockOfAssumption DEF Locked
<1>1. CASE UNCHANGED vars
    BY <1>1 DEF vars, worker, LockInv, InBody, Locked
<1>2. ASSUME NEW t \in Tasks, EnterBody(t) PROVE LockInv'
    BY <1>2 DEF EnterBody, LockFree, TypeOK, LockInv, InBody, Locked
<1>3. ASSUME NEW t \in Tasks,
             \/ Publisher(t) \/ Child(t) \/ PublisherDies(t) \/ Expire(t)
      PROVE  LockInv'
    <2>1. UNCHANGED <<wrk, verdict, lock>>
        BY <1>3 DEF Publisher, Child, SubmitManual, Announce, Send, SendFails,
                    Cancel, PublisherDies, Expire, ChildFinal, ChildLost, worker
    <2> QED BY <2>1 DEF LockInv, InBody, Locked
<1>4. ASSUME NEW t \in Tasks,
             LockBusy(t) \/ LockError(t) \/ Return(t) \/ Skip(t) \/ Raise(t)
                \/ DispatchFails(t)
      PROVE  LockInv'
    <2>1. UNCHANGED lock
        BY <1>4 DEF LockBusy, LockError, Return, Skip, Raise, DispatchFails, End
    <2>2. \A u \in Tasks : InBody(u)' => InBody(u)
        BY <1>4 DEF LockBusy, LockError, Return, Skip, Raise, DispatchFails,
                    End, InBody, TypeOK
    <2> QED BY <2>1, <2>2 DEF LockInv, InBody, Locked
<1>5. ASSUME NEW t \in Tasks,
             Start(t) \/ Dispatch(t) \/ WriteProgress(t) \/ WriteVerdict(t)
                \/ Notify(t) \/ Reannounce(t) \/ Resend(t)
      PROVE  LockInv'
    <2>1. UNCHANGED lock
        BY <1>5 DEF Start, Dispatch, WriteProgress, WriteVerdict, Notify,
                    Reannounce, Resend
    <2>2. \A u \in Tasks : InBody(u)' => InBody(u)
        BY <1>5 DEF Start, Dispatch, WriteProgress, WriteVerdict, Notify,
                    Reannounce, Resend, InBody, TypeOK
    <2> QED BY <2>1, <2>2 DEF LockInv, InBody, Locked
<1>6. ASSUME NEW t \in Tasks,
             Release(t) \/ ReleaseFails(t) \/ Crash(t) \/ LoseConnection(t)
      PROVE  LockInv'
    <2>1. \A u \in Tasks : lock'[u] = "held" => lock[u] = "held"
        BY <1>6 DEF Release, ReleaseFails, Crash, LoseConnection, TypeOK
    <2>2. \A u \in Tasks : InBody(u)' => InBody(u)
        BY <1>6 DEF Release, ReleaseFails, Crash, LoseConnection, InBody, TypeOK
    <2>3. \A u \in Locked : InBody(u)' => lock'[u] # "none"
        BY <1>6, <2>2 DEF Release, ReleaseFails, Crash, LoseConnection, InBody,
                          TypeOK, LockInv, Locked
    <2> QED BY <2>1, <2>3 DEF LockInv, Locked
<1> QED BY <1>1, <1>2, <1>3, <1>4, <1>5, <1>6
        DEF Next, Worker, Fault

(* However the jobs that share an advisory lock interleave, crash or fail  *)
(* to release it, two of them are only ever in their bodies together when  *)
(* the database ended the session of one.                                  *)
THEOREM MutualExclusion == Spec => []NoOverlap
<1>1. Init => LockInv
    BY LockOfAssumption DEF Init, LockInv, InBody, Locked
<1>2. TypeOK /\ LockInv => NoOverlap
    <2> SUFFICES ASSUME TypeOK, LockInv, NEW t \in Locked, NEW u \in Locked,
                        t # u, LockOf[t] = LockOf[u], InBody(t), InBody(u)
                 PROVE  "lost" \in {lock[t], lock[u]}
        BY DEF NoOverlap
    <2>1. t \in Tasks /\ u \in Tasks
        BY LockOfAssumption DEF Locked
    <2> QED BY <2>1 DEF LockInv, TypeOK
<1> QED BY <1>1, <1>2, LockStep, Typing, PTL DEF Spec

-----------------------------------------------------------------------------
(* The rows.  A step of one task leaves the others alone, so each part of  *)
(* TaskInv is shown for the task that steps.                               *)

LEMMA RowFacts ==
    ASSUME NEW r \in Record, NEW n \in Nat
    PROVE  /\ EnsurePending(r, n).started = r.started
           /\ EnsurePending(r, n).finished = r.finished
           /\ EnsurePending(r, n).error = r.error
           /\ EnsurePending(r, n).status =
                 IF r.status \in Terminal THEN r.status ELSE "pending"
           /\ MarkProcessing(r, n).started # 0
           /\ MarkProcessing(r, n).finished = r.finished
           /\ MarkProcessing(r, n).error = r.error
           /\ MarkProcessing(r, n).status =
                 IF r.status \in Terminal THEN r.status ELSE "processing"
           /\ MarkProgress(r).started = r.started
           /\ MarkProgress(r).finished = r.finished
           /\ MarkProgress(r).error = r.error
           /\ MarkProgress(r).status =
                 IF r.status \in Terminal \cup {"absent"} THEN r.status
                 ELSE "processing"
           /\ \A s \in Terminal :
                 /\ MarkFinal(r, s, n).status = s
                 /\ MarkFinal(r, s, n).started = r.started
                 /\ MarkFinal(r, s, n).finished # 0
                 /\ s \in {"failed", "partial"} =>
                       MarkFinal(r, s, n).error = MarkFinal(r, s, n).finished
BY DEF Record, EnsurePending, MarkProcessing, MarkProgress, MarkFinal, Applied,
       CanApplyStatus, Terminal, Statuses, Active

Step(t) == Publisher(t) \/ Worker(t) \/ Child(t) \/ Fault(t)

Same(u) ==
    /\ rec'[u] = rec[u] /\ pub'[u] = pub[u] /\ msg'[u] = msg[u]
    /\ wrk'[u] = wrk[u] /\ attempt'[u] = attempt[u]
    /\ verdict'[u] = verdict[u] /\ exc'[u] = exc[u] /\ child'[u] = child[u]
    /\ outcomes'[u] = outcomes[u] /\ notified'[u] = notified[u]
    /\ u \in lost' <=> u \in lost
    /\ u \in stranded' <=> u \in stranded

LEMMA OthersAlone ==
    ASSUME TypeOK, NEW t \in Tasks, Step(t), NEW u \in Tasks, u # t
    PROVE  Same(u)
<1>1. CASE SubmitManual(t)
    BY <1>1 DEF SubmitManual, Same, TypeOK, worker, history
<1>2. CASE Announce(t)
    BY <1>2 DEF Announce, Write, Same, TypeOK, worker, history
<1>3. CASE Send(t)
    BY <1>3 DEF Send, Same, TypeOK, worker, history
<1>4. CASE SendFails(t)
    BY <1>4 DEF SendFails, Strand, Same, TypeOK, worker, history
<1>5. CASE Cancel(t)
    BY <1>5 DEF Cancel, Write, Same, TypeOK, worker, history
<1>6. CASE Start(t)
    BY <1>6 DEF Start, Write, Same, TypeOK, worker, history
<1>7. CASE EnterBody(t)
    BY <1>7 DEF EnterBody, Same, TypeOK, worker, history
<1>8. CASE LockBusy(t)
    BY <1>8 DEF LockBusy, End, Same, TypeOK, worker, history
<1>9. CASE LockError(t)
    BY <1>9 DEF LockError, End, Same, TypeOK, worker, history
<1>10. CASE Return(t)
    BY <1>10 DEF Return, End, Same, TypeOK, worker, history
<1>11. CASE Skip(t)
    BY <1>11 DEF Skip, End, Same, TypeOK, worker, history
<1>12. CASE Raise(t)
    BY <1>12 DEF Raise, End, Same, TypeOK, worker, history
<1>13. CASE Dispatch(t)
    BY <1>13 DEF Dispatch, Same, TypeOK, worker, history
<1>14. CASE DispatchFails(t)
    BY <1>14 DEF DispatchFails, End, Same, TypeOK, worker, history
<1>15. CASE WriteProgress(t)
    BY <1>15 DEF WriteProgress, Write, Same, TypeOK, worker, history
<1>16. CASE WriteVerdict(t)
    BY <1>16 DEF WriteVerdict, Write, Same, TypeOK, worker, history
<1>17. CASE Notify(t)
    BY <1>17 DEF Notify, Same, TypeOK, worker, history
<1>18. CASE Release(t)
    BY <1>18 DEF Release, Same, TypeOK, worker, history
<1>19. CASE ReleaseFails(t)
    BY <1>19 DEF ReleaseFails, Same, TypeOK, worker, history
<1>20. CASE Reannounce(t)
    BY <1>20 DEF Reannounce, Write, Same, TypeOK, worker, history
<1>21. CASE Resend(t)
    BY <1>21 DEF Resend, Same, TypeOK, worker, history
<1>22. CASE ChildFinal(t)
    BY <1>22 DEF ChildFinal, Write, Same, TypeOK, worker, history
<1>23. CASE ChildLost(t)
    BY <1>23 DEF ChildLost, Strand, Same, TypeOK, worker, history
<1>24. CASE PublisherDies(t)
    BY <1>24 DEF PublisherDies, Strand, Same, TypeOK, worker, history
<1>25. CASE Expire(t)
    BY <1>25 DEF Expire, Strand, Same, TypeOK, worker, history
<1>26. CASE Crash(t)
    BY <1>26 DEF Crash, Strand, Same, TypeOK, worker, history
<1>27. CASE LoseConnection(t)
    BY <1>27 DEF LoseConnection, Same, TypeOK, worker, history
<1> QED BY <1>1, <1>2, <1>3, <1>4, <1>5, <1>6, <1>7, <1>8, <1>9, <1>10,
            <1>11, <1>12, <1>13, <1>14, <1>15, <1>16, <1>17, <1>18, <1>19,
            <1>20, <1>21, <1>22, <1>23, <1>24, <1>25, <1>26, <1>27
           DEF Step, Publisher, Worker, Child, Fault

LEMMA SameKeeps ==
    ASSUME NEW u \in Tasks, Same(u)
    PROVE  /\ Flow(u) => Flow(u)'
           /\ RetryKnows(u) => RetryKnows(u)'
           /\ RowTells(u) => RowTells(u)'
           /\ RowTimes(u) => RowTimes(u)'
<1>1. Flow(u) => Flow(u)'
    BY DEF Same, Flow
<1>2. RetryKnows(u) => RetryKnows(u)'
    BY DEF Same, RetryKnows
<1>3. RowTells(u) => RowTells(u)'
    BY DEF Same, RowTells
<1>4. RowTimes(u) => RowTimes(u)'
    BY DEF Same, RowTimes
<1> QED BY <1>1, <1>2, <1>3, <1>4

LEMMA FlowStep ==
    ASSUME TypeOK, NEW t \in Tasks, Flow(t), Step(t) PROVE Flow(t)'
<1> /\ rec[t] \in Record /\ attempt[t] \in Nat /\ RetryLimit[t] \in Nat
    /\ 0 \in Nat /\ verdict[t] \in Terminal \cup {"none"}
    BY RetryLimitAssumption DEF TypeOK
<1>1. CASE SubmitManual(t)
    BY <1>1, RowFacts DEF SubmitManual, TypeOK, Flow, worker, history, Terminal
<1>2. CASE Announce(t)
    BY <1>2, RowFacts
    DEF Announce, Write, TypeOK, Flow, worker, history, Terminal
<1>3. CASE Send(t)
    BY <1>3 DEF Send, TypeOK, Flow, worker, history
<1>4. CASE SendFails(t)
    BY <1>4 DEF SendFails, Strand, TypeOK, Flow, worker, history
<1>5. CASE Cancel(t)
    BY <1>5, RowFacts
    DEF Cancel, Write, TypeOK, Flow, worker, history, Terminal
<1>6. CASE Start(t)
    BY <1>6, RowFacts DEF Start, Write, TypeOK, Flow, worker, history, Terminal
<1>7. CASE EnterBody(t)
    BY <1>7 DEF EnterBody, TypeOK, Flow, worker, history
<1>8. CASE LockBusy(t)
    BY <1>8 DEF LockBusy, End, TypeOK, Flow, worker, history
<1>9. CASE LockError(t)
    BY <1>9 DEF LockError, End, TypeOK, Flow, worker, history
<1>10. CASE Return(t)
    BY <1>10 DEF Return, End, TypeOK, Flow, worker, history
<1>11. CASE Skip(t)
    BY <1>11 DEF Skip, End, TypeOK, Flow, worker, history
<1>12. CASE Raise(t)
    BY <1>12 DEF Raise, End, TypeOK, Flow, worker, history
<1>13. CASE Dispatch(t)
    BY <1>13, DeferringAssumption DEF Dispatch, TypeOK, Flow, worker, history
<1>14. CASE DispatchFails(t)
    BY <1>14, DeferringAssumption
    DEF DispatchFails, End, TypeOK, Flow, worker, history
<1>15. CASE WriteProgress(t)
    BY <1>15, RowFacts
    DEF WriteProgress, Write, TypeOK, Flow, worker, history, Terminal
<1>16. CASE WriteVerdict(t)
    BY <1>16, RowFacts
    DEF WriteVerdict, Write, TypeOK, Flow, worker, history, Terminal
<1>17. CASE Notify(t)
    BY <1>17 DEF Notify, TypeOK, Flow, worker, history
<1>18. CASE Release(t)
    BY <1>18 DEF Release, TypeOK, Flow, worker, history, Retries
<1>19. CASE ReleaseFails(t)
    BY <1>19 DEF ReleaseFails, TypeOK, Flow, worker, history
<1>20. CASE Reannounce(t)
    BY <1>20, RowFacts
    DEF Reannounce, Write, TypeOK, Flow, worker, history, Terminal
<1>21. CASE Resend(t)
    BY <1>21, DeferringAssumption DEF Resend, TypeOK, Flow, worker, history
<1>22. CASE ChildFinal(t)
    BY <1>22, RowFacts
    DEF ChildFinal, Write, TypeOK, Flow, worker, history, Terminal
<1>23. CASE ChildLost(t)
    BY <1>23 DEF ChildLost, Strand, TypeOK, Flow, worker, history
<1>24. CASE PublisherDies(t)
    BY <1>24 DEF PublisherDies, Strand, TypeOK, Flow, worker, history
<1>25. CASE Expire(t)
    BY <1>25 DEF Expire, Strand, TypeOK, Flow, worker, history
<1>26. CASE Crash(t)
    BY <1>26 DEF Crash, Strand, TypeOK, Flow, worker, history
<1>27. CASE LoseConnection(t)
    BY <1>27 DEF LoseConnection, TypeOK, Flow, worker, history
<1> QED BY <1>1, <1>2, <1>3, <1>4, <1>5, <1>6, <1>7, <1>8, <1>9,
           <1>10, <1>11, <1>12, <1>13, <1>14, <1>15, <1>16, <1>17, <1>18,
           <1>19, <1>20, <1>21, <1>22, <1>23, <1>24, <1>25, <1>26, <1>27
           DEF Step, Publisher, Worker, Child, Fault

LEMMA RetryStep ==
    ASSUME TypeOK, NEW t \in Tasks, Flow(t), RetryKnows(t), Step(t)
    PROVE  RetryKnows(t)'
<1> /\ attempt[t] \in Nat /\ RetryLimit[t] \in Nat
    /\ t \in Deferring => RetryLimit[t] = 0
    BY RetryLimitAssumption, DeferringAssumption DEF TypeOK
<1>1. CASE SubmitManual(t)
    BY <1>1 DEF SubmitManual, TypeOK, Flow, RetryKnows, worker, history
<1>2. CASE Announce(t)
    BY <1>2 DEF Announce, Write, TypeOK, Flow, RetryKnows, worker, history
<1>3. CASE Send(t)
    BY <1>3 DEF Send, TypeOK, Flow, RetryKnows, worker, history
<1>4. CASE SendFails(t)
    BY <1>4 DEF SendFails, Strand, TypeOK, Flow, RetryKnows, worker, history
<1>5. CASE Cancel(t)
    BY <1>5 DEF Cancel, Write, TypeOK, Flow, RetryKnows, worker, history
<1>6. CASE Start(t)
    BY <1>6 DEF Start, Write, TypeOK, Flow, RetryKnows, worker, history
<1>7. CASE EnterBody(t)
    BY <1>7 DEF EnterBody, TypeOK, Flow, RetryKnows, worker, history
<1>8. CASE LockBusy(t)
    BY <1>8 DEF LockBusy, End, TypeOK, Flow, RetryKnows, worker, history
<1>9. CASE LockError(t)
    BY <1>9 DEF LockError, End, TypeOK, Flow, RetryKnows, worker, history
<1>10. CASE Return(t)
    BY <1>10 DEF Return, End, TypeOK, Flow, RetryKnows, worker, history
<1>11. CASE Skip(t)
    BY <1>11 DEF Skip, End, TypeOK, Flow, RetryKnows, worker, history
<1>12. CASE Raise(t)
    BY <1>12 DEF Raise, End, TypeOK, Flow, RetryKnows, worker, history
<1>13. CASE Dispatch(t)
    BY <1>13 DEF Dispatch, TypeOK, Flow, RetryKnows, worker, history
<1>14. CASE DispatchFails(t)
    BY <1>14 DEF DispatchFails, End, TypeOK, Flow, RetryKnows, worker, history
<1>15. CASE WriteProgress(t)
    BY <1>15
    DEF WriteProgress, Write, TypeOK, Flow, RetryKnows, worker, history
<1>16. CASE WriteVerdict(t)
    BY <1>16 DEF WriteVerdict, Write, TypeOK, Flow, RetryKnows, worker, history
<1>17. CASE Notify(t)
    BY <1>17 DEF Notify, TypeOK, Flow, RetryKnows, worker, history
<1>18. CASE Release(t)
    BY <1>18 DEF Release, TypeOK, Flow, RetryKnows, worker, history, Retries
<1>19. CASE ReleaseFails(t)
    BY <1>19 DEF ReleaseFails, TypeOK, Flow, RetryKnows, worker, history
<1>20. CASE Reannounce(t)
    BY <1>20 DEF Reannounce, Write, TypeOK, Flow, RetryKnows, worker, history
<1>21. CASE Resend(t)
    BY <1>21 DEF Resend, TypeOK, Flow, RetryKnows, worker, history
<1>22. CASE ChildFinal(t)
    BY <1>22 DEF ChildFinal, Write, TypeOK, Flow, RetryKnows, worker, history
<1>23. CASE ChildLost(t)
    BY <1>23 DEF ChildLost, Strand, TypeOK, Flow, RetryKnows, worker, history
<1>24. CASE PublisherDies(t)
    BY <1>24
    DEF PublisherDies, Strand, TypeOK, Flow, RetryKnows, worker, history
<1>25. CASE Expire(t)
    BY <1>25 DEF Expire, Strand, TypeOK, Flow, RetryKnows, worker, history
<1>26. CASE Crash(t)
    BY <1>26 DEF Crash, Strand, TypeOK, Flow, RetryKnows, worker, history
<1>27. CASE LoseConnection(t)
    BY <1>27 DEF LoseConnection, TypeOK, Flow, RetryKnows, worker, history
<1> QED BY <1>1, <1>2, <1>3, <1>4, <1>5, <1>6, <1>7, <1>8, <1>9,
           <1>10, <1>11, <1>12, <1>13, <1>14, <1>15, <1>16, <1>17, <1>18,
           <1>19, <1>20, <1>21, <1>22, <1>23, <1>24, <1>25, <1>26, <1>27
           DEF Step, Publisher, Worker, Child, Fault

LEMMA TellsStep ==
    ASSUME TypeOK, NEW t \in Tasks, Flow(t), RetryKnows(t), RowTells(t),
           Step(t)
    PROVE  RowTells(t)'
<1> /\ rec[t] \in Record /\ attempt[t] \in Nat /\ 0 \in Nat
    /\ verdict[t] \in Terminal \cup {"none"} /\ outcomes[t] \subseteq Terminal
    BY DEF TypeOK
<1>1. CASE SubmitManual(t)
    BY <1>1, RowFacts
    DEF SubmitManual, TypeOK, Flow, RowTells, worker, history, Terminal
<1>2. CASE Announce(t)
    BY <1>2, RowFacts
    DEF Announce, Write, TypeOK, Flow, RowTells, worker, history, Terminal
<1>3. CASE Send(t)
    BY <1>3 DEF Send, TypeOK, Flow, RowTells, worker, history
<1>4. CASE SendFails(t)
    BY <1>4 DEF SendFails, Strand, TypeOK, Flow, RowTells, worker, history
<1>5. CASE Cancel(t)
    BY <1>5, RowFacts
    DEF Cancel, Write, TypeOK, Flow, RowTells, worker, history, Terminal
<1>6. CASE Start(t)
    BY <1>6, RowFacts
    DEF Start, Write, TypeOK, Flow, RowTells, worker, history, Terminal
<1>7. CASE EnterBody(t)
    BY <1>7 DEF EnterBody, TypeOK, Flow, RowTells, worker, history
<1>8. CASE LockBusy(t)
    BY <1>8 DEF LockBusy, End, TypeOK, Flow, RowTells, worker, history
<1>9. CASE LockError(t)
    BY <1>9 DEF LockError, End, TypeOK, Flow, RowTells, worker, history
<1>10. CASE Return(t)
    BY <1>10 DEF Return, End, TypeOK, Flow, RowTells, worker, history
<1>11. CASE Skip(t)
    BY <1>11 DEF Skip, End, TypeOK, Flow, RowTells, worker, history
<1>12. CASE Raise(t)
    BY <1>12 DEF Raise, End, TypeOK, Flow, RowTells, worker, history
<1>13. CASE Dispatch(t)
    BY <1>13 DEF Dispatch, TypeOK, Flow, RowTells, worker, history
<1>14. CASE DispatchFails(t)
    BY <1>14 DEF DispatchFails, End, TypeOK, Flow, RowTells, worker, history
<1>15. CASE WriteProgress(t)
    <2>1. /\ t \notin lost' => rec' = [rec EXCEPT ![t] = MarkProgress(rec[t])]
          /\ lost \subseteq lost' /\ stranded' = stranded
          /\ child' = child /\ outcomes' = outcomes
        BY <1>15 DEF WriteProgress, Write, history
    <2>2. t \notin lost' /\ outcomes[t] # {} => rec'[t].status \in outcomes[t]
        BY <2>1, RowFacts DEF RowTells, TypeOK
    <2>3. child[t] = "running" \/ child[t] = "done"
        BY <1>15 DEF WriteProgress, Flow, TypeOK
    <2> QED BY <2>1, <2>2, <2>3 DEF RowTells
<1>16. CASE WriteVerdict(t)
    BY <1>16, RowFacts
    DEF WriteVerdict, Write, TypeOK, Flow, RowTells, worker, history, Terminal
<1>17. CASE Notify(t)
    BY <1>17 DEF Notify, TypeOK, Flow, RowTells, worker, history
<1>18. CASE Release(t)
    BY <1>18 DEF Release, TypeOK, Flow, RowTells, worker, history
<1>19. CASE ReleaseFails(t)
    BY <1>19 DEF ReleaseFails, TypeOK, Flow, RowTells, worker, history
<1>20. CASE Reannounce(t)
    <2>1. /\ t \notin lost' =>
                rec' = [rec EXCEPT ![t] = EnsurePending(rec[t], attempt[t] + 1)]
          /\ lost \subseteq lost' /\ stranded' = stranded
          /\ child' = child /\ outcomes' = outcomes
        BY <1>20 DEF Reannounce, Write, history
    <2>2. outcomes[t] # {}
        <3>1. RetryLimit[t] \in Nat /\ attempt[t] < RetryLimit[t]
            BY <1>20, RetryLimitAssumption DEF Reannounce, Flow
        <3> QED BY <1>20, <3>1 DEF Reannounce, RetryKnows
    <2> DEFINE row == EnsurePending(rec[t], attempt[t] + 1)
    <2>3. t \notin lost => rec[t].status \in outcomes[t] \cap Terminal
        BY <2>2 DEF RowTells
    <2>4. rec[t].status \in Terminal => row.status = rec[t].status
        BY RowFacts
    <2>5. t \notin lost' => rec'[t].status \in outcomes[t]
        BY <2>1, <2>3, <2>4 DEF TypeOK
    <2> QED BY <2>1, <2>2, <2>5 DEF RowTells
<1>21. CASE Resend(t)
    BY <1>21 DEF Resend, TypeOK, Flow, RowTells, worker, history
<1>22. CASE ChildFinal(t)
    BY <1>22, RowFacts
    DEF ChildFinal, Write, TypeOK, Flow, RowTells, worker, history, Terminal
<1>23. CASE ChildLost(t)
    BY <1>23 DEF ChildLost, Strand, TypeOK, Flow, RowTells, worker, history
<1>24. CASE PublisherDies(t)
    BY <1>24 DEF PublisherDies, Strand, TypeOK, Flow, RowTells, worker, history
<1>25. CASE Expire(t)
    BY <1>25 DEF Expire, Strand, TypeOK, Flow, RowTells, worker, history
<1>26. CASE Crash(t)
    BY <1>26 DEF Crash, Strand, TypeOK, Flow, RowTells, worker, history
<1>27. CASE LoseConnection(t)
    BY <1>27 DEF LoseConnection, TypeOK, Flow, RowTells, worker, history
<1> QED BY <1>1, <1>2, <1>3, <1>4, <1>5, <1>6, <1>7, <1>8, <1>9,
           <1>10, <1>11, <1>12, <1>13, <1>14, <1>15, <1>16, <1>17, <1>18,
           <1>19, <1>20, <1>21, <1>22, <1>23, <1>24, <1>25, <1>26, <1>27
           DEF Step, Publisher, Worker, Child, Fault

LEMMA TimesStep ==
    ASSUME TypeOK, NEW t \in Tasks, Flow(t), RowTells(t), RetryKnows(t),
           RowTimes(t), Step(t)
    PROVE  RowTimes(t)'
<1> /\ rec[t] \in Record /\ attempt[t] \in Nat /\ 0 \in Nat
    /\ verdict[t] \in Terminal \cup {"none"} /\ outcomes[t] \subseteq Terminal
    /\ RetryLimit[t] \in Nat
    BY RetryLimitAssumption DEF TypeOK
<1>1. CASE SubmitManual(t)
    BY <1>1, RowFacts
    DEF SubmitManual, TypeOK, Flow, RowTimes, worker, history, Terminal
<1>2. CASE Announce(t)
    BY <1>2, RowFacts
    DEF Announce, Write, TypeOK, Flow, RowTimes, worker, history, Terminal
<1>3. CASE Send(t)
    BY <1>3 DEF Send, TypeOK, Flow, RowTimes, worker, history
<1>4. CASE SendFails(t)
    BY <1>4 DEF SendFails, Strand, TypeOK, Flow, RowTimes, worker, history
<1>5. CASE Cancel(t)
    BY <1>5, RowFacts
    DEF Cancel, Write, TypeOK, Flow, RowTimes, worker, history, Terminal
<1>6. CASE Start(t)
    <2>1. /\ t \notin lost' =>
                rec' = [rec EXCEPT ![t] = MarkProcessing(rec[t], attempt[t])]
        BY <1>6 DEF Start, Write
    <2> DEFINE row == MarkProcessing(rec[t], attempt[t])
    <2>2. row.started # 0 /\ row.status \in Terminal \cup {"processing"}
        BY RowFacts
    <2>3. t \notin lost' => /\ rec'[t].started # 0
                             /\ rec'[t].status \in Terminal \cup {"processing"}
        BY <2>1, <2>2 DEF TypeOK
    <2> QED BY <2>3 DEF RowTimes, Terminal
<1>7. CASE EnterBody(t)
    BY <1>7 DEF EnterBody, TypeOK, Flow, RowTimes, worker, history
<1>8. CASE LockBusy(t)
    BY <1>8 DEF LockBusy, End, TypeOK, Flow, RowTimes, worker, history
<1>9. CASE LockError(t)
    BY <1>9 DEF LockError, End, TypeOK, Flow, RowTimes, worker, history
<1>10. CASE Return(t)
    BY <1>10 DEF Return, End, TypeOK, Flow, RowTimes, worker, history
<1>11. CASE Skip(t)
    BY <1>11 DEF Skip, End, TypeOK, Flow, RowTimes, worker, history
<1>12. CASE Raise(t)
    BY <1>12 DEF Raise, End, TypeOK, Flow, RowTimes, worker, history
<1>13. CASE Dispatch(t)
    BY <1>13 DEF Dispatch, TypeOK, Flow, RowTimes, worker, history
<1>14. CASE DispatchFails(t)
    BY <1>14 DEF DispatchFails, End, TypeOK, Flow, RowTimes, worker, history
<1>15. CASE WriteProgress(t)
    <2>1. /\ t \notin lost' => rec' = [rec EXCEPT ![t] = MarkProgress(rec[t])]
          /\ lost \subseteq lost'
        BY <1>15 DEF WriteProgress, Write
    <2>2. t \notin lost => rec[t].started # 0
        BY <1>15 DEF WriteProgress, RowTimes
    <2>3. t \notin lost' => /\ rec'[t].started # 0
                             /\ rec'[t].status \in Terminal \cup {"processing"}
        BY <2>1, <2>2, RowFacts DEF TypeOK, RowTimes
    <2> QED BY <2>3 DEF RowTimes, Terminal
<1>16. CASE WriteVerdict(t)
    BY <1>16, RowFacts
    DEF WriteVerdict, Write, TypeOK, Flow, RowTimes, worker, history, Terminal
<1>17. CASE Notify(t)
    BY <1>17 DEF Notify, TypeOK, Flow, RowTimes, worker, history
<1>18. CASE Release(t)
    BY <1>18 DEF Release, TypeOK, Flow, RowTimes, worker, history
<1>19. CASE ReleaseFails(t)
    BY <1>19 DEF ReleaseFails, TypeOK, Flow, RowTimes, worker, history
<1>20. CASE Reannounce(t)
    <2>1. /\ t \notin lost' =>
                rec' = [rec EXCEPT ![t] = EnsurePending(rec[t], attempt[t] + 1)]
          /\ lost \subseteq lost'
        BY <1>20 DEF Reannounce, Write
    <2>2. t \notin lost => rec[t].started # 0
        BY <1>20 DEF Reannounce, RowTimes
    <2>3. t \notin lost => rec[t].status \in Terminal
        BY <1>20 DEF Reannounce, Flow, RetryKnows, RowTells
    <2>4. t \notin lost' => /\ rec'[t].started # 0
                             /\ rec'[t].status \in Terminal
        BY <2>1, <2>2, <2>3, RowFacts DEF TypeOK
    <2> QED BY <2>4 DEF RowTimes, Terminal
<1>21. CASE Resend(t)
    BY <1>21 DEF Resend, TypeOK, Flow, RowTimes, worker, history
<1>22. CASE ChildFinal(t)
    BY <1>22, RowFacts
    DEF ChildFinal, Write, TypeOK, Flow, RowTimes, worker, history, Terminal
<1>23. CASE ChildLost(t)
    BY <1>23 DEF ChildLost, Strand, TypeOK, Flow, RowTimes, worker, history
<1>24. CASE PublisherDies(t)
    BY <1>24 DEF PublisherDies, Strand, TypeOK, Flow, RowTimes, worker, history
<1>25. CASE Expire(t)
    BY <1>25 DEF Expire, Strand, TypeOK, Flow, RowTimes, worker, history
<1>26. CASE Crash(t)
    BY <1>26 DEF Crash, Strand, TypeOK, Flow, RowTimes, worker, history
<1>27. CASE LoseConnection(t)
    BY <1>27 DEF LoseConnection, TypeOK, Flow, RowTimes, worker, history
<1> QED BY <1>1, <1>2, <1>3, <1>4, <1>5, <1>6, <1>7, <1>8, <1>9,
           <1>10, <1>11, <1>12, <1>13, <1>14, <1>15, <1>16, <1>17, <1>18,
           <1>19, <1>20, <1>21, <1>22, <1>23, <1>24, <1>25, <1>26, <1>27
           DEF Step, Publisher, Worker, Child, Fault

LEMMA TaskInvStep ==
    ASSUME TypeOK, TaskInv, [Next]_vars PROVE TaskInv'
<1>1. CASE UNCHANGED vars
    BY <1>1 DEF vars, worker, history, TaskInv, Flow, RetryKnows, RowTells,
                RowTimes
<1>2. ASSUME NEW t \in Tasks, Step(t) PROVE TaskInv'
    <2>1. Flow(t)' /\ RetryKnows(t)' /\ RowTells(t)' /\ RowTimes(t)'
        BY <1>2, FlowStep, RetryStep, TellsStep, TimesStep DEF TaskInv
    <2>2. \A u \in Tasks : u # t => Same(u)
        BY <1>2, OthersAlone
    <2>3. \A u \in Tasks :
             u # t => Flow(u)' /\ RetryKnows(u)' /\ RowTells(u)' /\ RowTimes(u)'
        BY <2>2, SameKeeps DEF TaskInv
    <2> QED BY <2>1, <2>3 DEF TaskInv
<1> QED BY <1>1, <1>2 DEF Next, Step

LEMMA TaskInvariant == Spec => []TaskInv
<1>1. Init => TaskInv
    <2> SUFFICES ASSUME Init, NEW t \in Tasks
                 PROVE  Flow(t) /\ RetryKnows(t) /\ RowTells(t) /\ RowTimes(t)
        BY DEF TaskInv
    <2>1. RetryLimit[t] \in Nat
        BY RetryLimitAssumption
    <2>2. rec[t].status = "absent" /\ rec[t].started = 0
        BY DEF Init, Blank
    <2>3. 0 .. attempt[t] - 1 = {}
        BY DEF Init
    <2>4. Flow(t)
        BY <2>1, <2>2 DEF Init, Flow
    <2>5. RetryKnows(t)
        BY <2>3 DEF Init, RetryKnows
    <2> QED BY <2>2, <2>4, <2>5 DEF Init, RowTells, RowTimes
<1> QED BY <1>1, TaskInvStep, Typing, PTL DEF Spec

(* For any number of tasks, retries, lost writes of other tasks and orders *)
(* of the writers, a task at rest shows what became of it.                 *)
THEOREM RestTellsTruth == Spec => []TruthAtRest
<1>1. TypeOK /\ TaskInv => TruthAtRest
    BY DEF TypeOK, TaskInv, RowTells, Settled, TruthAtRest
<1> QED BY <1>1, TaskInvariant, Typing, PTL

(* No retry starts behind a skip or a business outcome, and none before    *)
(* every attempt so far was recorded as failed and reported.               *)
THEOREM RetriesAreReported == Spec => []RetryFollowsReportedFailure
<1>1. TypeOK /\ TaskInv => RetryFollowsReportedFailure
    <2> SUFFICES ASSUME TypeOK, TaskInv, NEW t \in Tasks,
                        \/ wrk[t] \in {"retrying", "resending"}
                        \/ msg[t] /\ attempt[t] > 0
                 PROVE  /\ outcomes[t] \ {"cancelled"} = {"failed"}
                        /\ exc[t] = "retryable"
                        /\ \A n \in 0 .. attempt[t] - (IF msg[t] THEN 1 ELSE 0) :
                              n \in notified[t]
        BY DEF RetryFollowsReportedFailure
    <2>1. /\ Flow(t) /\ RetryKnows(t)
          /\ attempt[t] \in Nat /\ RetryLimit[t] \in Nat
        BY RetryLimitAssumption DEF TaskInv, TypeOK
    <2>2. RetryLimit[t] > 0
        BY <2>1 DEF Flow
    <2>3. outcomes[t] \ {"cancelled"} = {"failed"} /\ exc[t] = "retryable"
        BY <2>1, <2>2 DEF RetryKnows
    <2>4. \A n \in 0 .. attempt[t] - 1 : n \in notified[t]
        BY <2>1 DEF RetryKnows
    <2>5. ~msg[t] => attempt[t] \in notified[t]
        BY <2>1, <2>3 DEF RetryKnows
    <2> QED BY <2>1, <2>3, <2>4, <2>5
<1> QED BY <1>1, TaskInvariant, Typing, PTL

(* The status of t is not moved back by this step.                         *)
Forward(t) == \/ Rank(rec'[t].status) >= Rank(rec[t].status)
              \/ t \in lost /\ rec[t].status = "processing"

LEMMA RankTyping ==
    /\ \A s \in Statuses : Rank(s) \in 0 .. 3
    /\ \A s \in Terminal : Rank(s) = 3
    /\ Rank("absent") = 0 /\ Rank("pending") = 1 /\ Rank("processing") = 2
    /\ \A s : Rank(s) <= 2 <=> s \in {"absent", "pending", "processing"}
BY DEF Rank, Statuses, Active, Terminal

LEMMA RowWritesForward ==
    ASSUME TypeOK, TaskInv, NEW t \in Tasks, Step(t) PROVE Forward(t)
<1> DEFINE s  == rec[t].status
           s1 == rec'[t].status
<1>0. /\ rec[t] \in Record /\ s \in Statuses /\ 0 \in Nat
      /\ attempt[t] \in Nat /\ attempt[t] + 1 \in Nat
      /\ Rank(s) \in 0 .. 3 /\ Flow(t) /\ RowTells(t) /\ RetryKnows(t)
      /\ outcomes[t] \subseteq Terminal
    BY RankTyping DEF TypeOK, Record, TaskInv
<1>1. CASE s1 = s
    BY <1>0, <1>1 DEF Forward
<1>2. CASE SubmitManual(t) \/ Announce(t)
    <2>1. s \in {"absent", "pending"}
        BY <1>0, <1>2 DEF SubmitManual, Announce, Flow
    <2>2. s1 = s \/ s1 = "pending"
        BY <1>0, <1>2, <2>1, RowFacts
        DEF SubmitManual, Announce, Write, TypeOK, Terminal
    <2> QED BY <1>0, <2>1, <2>2, RankTyping DEF Forward
<1>3. CASE Start(t)
    <2>1. s1 = s \/ (s \notin Terminal /\ s1 = "processing")
        BY <1>0, <1>3, RowFacts DEF Start, Write, TypeOK
    <2> QED BY <1>0, <2>1, RankTyping DEF Forward, Statuses, Active
<1>4. CASE WriteProgress(t)
    <2>1. s1 = s \/ (s \notin Terminal /\ s1 = "processing")
        BY <1>0, <1>4, RowFacts DEF WriteProgress, Write, TypeOK
    <2> QED BY <1>0, <2>1, RankTyping DEF Forward, Statuses, Active
<1>5. CASE Cancel(t) \/ WriteVerdict(t) \/ ChildFinal(t)
    <2>1. ASSUME NEW v \in Terminal, NEW n \in Nat, Write(t, MarkFinal(rec[t], v, n))
          PROVE  s1 = s \/ s1 \in Terminal
        BY <1>0, <2>1, RowFacts DEF Write, TypeOK
    <2>2. s1 = s \/ s1 \in Terminal
        BY <1>0, <1>5, <2>1
        DEF Cancel, WriteVerdict, ChildFinal, TypeOK, Terminal
    <2> QED BY <1>0, <2>2, RankTyping DEF Forward
<1>6. CASE Reannounce(t)
    <2>1. t \in lost \/ s \in Terminal
        <3>1. RetryLimit[t] \in Nat /\ attempt[t] < RetryLimit[t]
            BY <1>0, <1>6, RetryLimitAssumption DEF Reannounce, Flow
        <3>2. outcomes[t] # {}
            BY <1>0, <1>6, <3>1 DEF Reannounce, RetryKnows
        <3> QED BY <1>0, <3>2 DEF RowTells
    <2>2. s1 = s \/ (s \notin Terminal /\ s1 = "pending")
        BY <1>0, <1>6, RowFacts DEF Reannounce, Write, TypeOK
    <2>3. CASE s = "processing"
        BY <2>1, <2>3 DEF Forward, Terminal
    <2> QED BY <1>0, <2>2, <2>3, RankTyping DEF Forward, Statuses, Active
<1>7. \/ UNCHANGED rec \/ SubmitManual(t) \/ Announce(t) \/ Start(t)
      \/ WriteProgress(t) \/ Cancel(t) \/ WriteVerdict(t) \/ ChildFinal(t)
      \/ Reannounce(t)
    BY DEF Step, Publisher, Worker, Child, Fault, Send, SendFails, EnterBody,
           LockBusy, LockError, Return, Skip, Raise, Dispatch, DispatchFails, End,
           Notify, Release, ReleaseFails, Resend, ChildLost, PublisherDies,
           Expire, Crash, LoseConnection
<1> QED BY <1>1, <1>2, <1>3, <1>4, <1>5, <1>6, <1>7

(* A terminal status never moves back, whichever of the publisher, the     *)
(* worker, its retries and the Qlib callback writes late, and neither does *)
(* a processing one of a task that lost no write.                          *)
THEOREM NoWayBack == Spec => StatusNeverMovesBack
<1>1. TypeOK /\ TaskInv /\ [Next]_vars => [\A t \in Tasks : Forward(t)]_vars
    <2> SUFFICES ASSUME TypeOK, TaskInv, Next, NEW t \in Tasks PROVE Forward(t)
        OBVIOUS
    <2>1. PICK u \in Tasks : Step(u)
        BY DEF Next, Step
    <2>2. CASE u = t
        BY <2>1, <2>2, RowWritesForward
    <2>3. CASE u # t
        <3>1. rec'[t] = rec[t]
            BY <2>1, <2>3, OthersAlone DEF Same
        <3>2. Rank(rec[t].status) \in 0 .. 3
            BY RankTyping DEF TypeOK, Record
        <3> QED BY <3>1, <3>2 DEF Forward
    <2> QED BY <2>2, <2>3
<1> QED BY <1>1, TaskInvariant, Typing, PTL DEF Spec, StatusNeverMovesBack, Forward

LEMMA CoherentStep ==
    ASSUME TypeOK, TaskInv, NEW t \in Tasks, Step(t),
           t \notin lost => Coherent(rec[t])
    PROVE  t \notin lost' => Coherent(rec'[t])
<1> DEFINE r == rec[t]
           n == attempt[t]
<1>0. /\ r \in Record /\ 0 \in Nat /\ n \in Nat /\ n + 1 \in Nat
      /\ Flow(t) /\ RowTells(t) /\ RetryKnows(t) /\ RowTimes(t)
      /\ outcomes[t] \subseteq Terminal
    BY DEF TypeOK, TaskInv
<1> SUFFICES ASSUME t \notin lost' PROVE Coherent(rec'[t])
    OBVIOUS
<1>1. t \notin lost /\ Coherent(r)
    BY DEF Step, Publisher, Worker, Child, Fault, SubmitManual, Announce, Send,
           SendFails, Cancel, Start, EnterBody, LockBusy, LockError, Return, Skip,
           Raise, Dispatch, DispatchFails, End, WriteProgress, WriteVerdict,
           Notify, Release, ReleaseFails, Reannounce, Resend, ChildFinal,
           ChildLost, PublisherDies, Expire, Crash, LoseConnection, Write
<1>2. CASE SubmitManual(t) \/ Announce(t)
    <2>1. r.status \in {"absent", "pending"} /\ r.started = 0
        BY <1>0, <1>1, <1>2 DEF SubmitManual, Announce, Flow, RowTimes
    <2>2. r.finished = 0
        BY <1>1, <2>1, <1>0 DEF Coherent, Terminal
    <2>3. rec'[t] = r \/ rec'[t] = EnsurePending(r, 0)
        BY <1>2 DEF SubmitManual, Announce, Write, TypeOK
    <2>4. Coherent(EnsurePending(r, 0))
        BY <1>0, <2>1, <2>2, RowFacts DEF Coherent, Terminal
    <2> QED BY <1>1, <2>3, <2>4
<1>3. CASE Start(t)
    <2>1. rec'[t] = MarkProcessing(r, n)
        BY <1>3, <1>1 DEF Start, Write, TypeOK
    <2> QED BY <1>0, <1>1, <2>1, RowFacts DEF Coherent, Terminal
<1>4. CASE WriteProgress(t)
    <2>1. rec'[t] = MarkProgress(r)
        BY <1>4, <1>1 DEF WriteProgress, Write, TypeOK
    <2>2. r.started # 0
        BY <1>0, <1>1, <1>4 DEF WriteProgress, RowTimes
    <2> QED BY <1>0, <1>1, <2>1, <2>2, RowFacts DEF Coherent, Terminal
<1>5. CASE Cancel(t)
    <2>1. rec'[t] = MarkFinal(r, "cancelled", 0)
        BY <1>5, <1>1 DEF Cancel, Write, TypeOK
    <2> QED BY <1>0, <2>1, RowFacts DEF Coherent, Terminal
<1>6. CASE WriteVerdict(t) \/ ChildFinal(t)
    <2>1. PICK v \in Terminal : rec'[t] = MarkFinal(r, v, n)
        BY <1>6, <1>1 DEF WriteVerdict, ChildFinal, Write, TypeOK, Terminal
    <2>2. r.started # 0
        BY <1>0, <1>1, <1>6 DEF WriteVerdict, ChildFinal, RowTimes
    <2> QED BY <1>0, <2>1, <2>2, RowFacts DEF Coherent, Terminal
<1>7. CASE Reannounce(t)
    <2>1. rec'[t] = EnsurePending(r, n + 1)
        BY <1>7, <1>1 DEF Reannounce, Write, TypeOK
    <2>2. r.status \in Terminal
        <3>1. RetryLimit[t] > 0 /\ wrk[t] = "retrying"
            BY <1>0, <1>7, RetryLimitAssumption DEF Reannounce, Flow
        <3>2. outcomes[t] # {}
            BY <1>0, <3>1 DEF RetryKnows
        <3> QED BY <1>0, <1>1, <3>2 DEF RowTells
    <2> QED BY <1>0, <1>1, <2>1, <2>2, RowFacts DEF Coherent
<1>8. \/ UNCHANGED rec \/ SubmitManual(t) \/ Announce(t) \/ Start(t)
      \/ WriteProgress(t) \/ Cancel(t) \/ WriteVerdict(t) \/ ChildFinal(t)
      \/ Reannounce(t)
    BY DEF Step, Publisher, Worker, Child, Fault, Send, SendFails, EnterBody,
           LockBusy, LockError, Return, Skip, Raise, Dispatch, DispatchFails, End,
           Notify, Release, ReleaseFails, Resend, ChildLost, PublisherDies,
           Expire, Crash, LoseConnection
<1> QED BY <1>1, <1>2, <1>3, <1>4, <1>5, <1>6, <1>7, <1>8

(* The times and the error of a row agree with its status, whichever       *)
(* writes reached it.                                                      *)
THEOREM RowsAreCoherent == Spec => []RowCoherent
<1>1. Init => RowCoherent
    BY DEF Init, RowCoherent, Coherent, Blank, Terminal
<1>2. TypeOK /\ TaskInv /\ RowCoherent /\ [Next]_vars => RowCoherent'
    <2> SUFFICES ASSUME TypeOK, TaskInv, RowCoherent, [Next]_vars,
                        NEW t \in Tasks, t \notin lost'
                 PROVE  Coherent(rec'[t])
        BY DEF RowCoherent, Coherent
    <2>1. CASE UNCHANGED vars
        BY <2>1 DEF vars, RowCoherent
    <2>2. ASSUME NEW u \in Tasks, Step(u) PROVE Coherent(rec'[t])
        <3>1. CASE u = t
            BY <2>2, <3>1, CoherentStep DEF RowCoherent
        <3>2. CASE u # t
            BY <2>2, <3>2, OthersAlone DEF Same, RowCoherent
        <3> QED BY <3>1, <3>2
    <2> QED BY <2>1, <2>2 DEF Next, Step
<1> QED BY <1>1, <1>2, TaskInvariant, Typing, PTL DEF Spec
=============================================================================
