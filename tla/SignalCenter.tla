---------------------------- MODULE SignalCenter ----------------------------
(***************************************************************************)
(* The signal of one market and day.  Checks that beat starts every ten    *)
(* minutes wait for the day's formal results, freeze them as candidates,   *)
(* have every bucket of them screened by a model, let a final call decide  *)
(* among what the buckets selected, and complete the row together with its *)
(* message.  A retry goes on from the frozen row.                          *)
(*                                                                         *)
(* Source n > 0 nominates candidate n; source 0 stands for the confluence  *)
(* batch and the market's regime, without which there is no signal.        *)
(***************************************************************************)
EXTENDS Naturals, Sequences, FiniteSets

CONSTANTS
    Checkers,       \* tasks that may run at once
    Nominating,     \* sources of candidates
    BucketCount,    \* bucket_count of the screening plan
    MaxMishaps      \* bound: kinds of mishap in a behaviour, each happening once

ASSUME SignalAssumption ==
    /\ Nominating \subseteq Nat \ {0} /\ IsFiniteSet(Nominating) /\ BucketCount \in Nat \ {0} /\ MaxMishaps \in Nat

Sources == Nominating \cup {0}

VARIABLES
    active,   \* sources whose task is pending, processing or retrying
    formal,   \* sources with formal rows of the day
    late,     \* whether the cutoff has passed
    signal,   \* SignalCenterRun: the row of this market and day
    messages, \* Notification rows written with it: the decision of each
    check,    \* per checker: where it is and what it holds
    dayHolder,\* who holds the advisory lock of the day
    mishaps   \* "rerun": a source task is started again; "call": a call fails; "lock": a session ends

signalVars == <<active, formal, late, signal, messages, check, dayHolder, mishaps>>
sourceVars == <<active, formal, late>>

Audits   == [batch : 0..BucketCount - 1, asked : SUBSET Nominating, picked : SUBSET Nominating]
Final    == {"completed", "skipped"}
NoAnswer == {0}   \* raw_response is null

SignalTypeOK ==
    /\ active \subseteq Sources /\ formal \subseteq Sources /\ late \in BOOLEAN
    /\ signal.status \in Final \cup {"absent", "pending", "failed"}
    /\ signal.frozen \subseteq Sources /\ signal.screening \subseteq Audits
    /\ {signal.prompted, signal.answer, signal.decision} \subseteq SUBSET Sources
    /\ messages \in Seq(SUBSET Nominating)
    /\ \A c \in Checkers : check[c].at \in {"idle", "collect", "screen", "final", "complete"}
    /\ dayHolder \subseteq Checkers /\ Cardinality(dayHolder) <= 1

Rest == [at |-> "idle", late |-> FALSE, busy |-> {}, frozen |-> {}, audit |-> {}, decision |-> {}]

SignalInit ==
    /\ active = {} /\ formal = {} /\ late = FALSE /\ messages = <<>>
    /\ signal = [status |-> "absent", frozen |-> {}, screening |-> {}, prompted |-> {}, answer |-> NoAnswer,
                 decision |-> {}]
    /\ check = [c \in Checkers |-> Rest] /\ dayHolder = {}
    /\ mishaps = {}

Mishap(kind) ==
    /\ kind \notin mishaps /\ Cardinality(mishaps) < MaxMishaps
    /\ mishaps' = mishaps \cup {kind}

(***************************************************************************)
(* The tasks whose results are read: TaskRecord has their status, their    *)
(* rows are there once one of them has ended well.  The cutoff passes.     *)
(***************************************************************************)
SourceStarts(s) ==
    /\ s \notin active /\ active' = active \cup {s}
    /\ IF s \in formal THEN Mishap("rerun") ELSE UNCHANGED mishaps
    /\ UNCHANGED <<formal, late, signal, messages, check, dayHolder>>

SourceEnds(s) ==
    /\ s \in active /\ active' = active \ {s}
    /\ formal' \in {formal, formal \cup {s}}
    /\ UNCHANGED <<late, signal, messages, check, dayHolder, mishaps>>

CutoffPasses ==
    /\ ~late /\ late' = TRUE
    /\ UNCHANGED <<active, formal, signal, messages, check, dayHolder, mishaps>>

(***************************************************************************)
(* screening_plan: the candidates in order, dealt round the buckets.       *)
(***************************************************************************)
Position(n, set)  == Cardinality({m \in set : m < n})
Bucket(i, frozen) == {n \in frozen \ {0} : Position(n, frozen \ {0}) % BucketCount = i}

(* The candidates of the moment: what a retry must not go by.              *)
PlanOfNow(c) == formal \ active

(* A retry goes by the frozen ones.                                        *)
Plan(c) == check[c].frozen

Picked(audit) == UNION {a.picked : a \in audit}

(***************************************************************************)
(* Writes of a row: finish and complete leave a final one alone.           *)
(***************************************************************************)
Finish(fields) == signal' = IF signal.status \in Final THEN signal ELSE fields

Ends(c) ==
    /\ check' = [check EXCEPT ![c] = Rest]
    /\ dayHolder' = dayHolder \ {c}

(***************************************************************************)
(* A check takes the day's lock and reads the row; it reads which tasks    *)
(* are running before it reads what they wrote.                            *)
(***************************************************************************)
Check(c) ==
    /\ check[c].at = "idle" /\ dayHolder = {} /\ signal.status \notin Final
    /\ dayHolder' = {c}
    /\ IF signal.status = "absent"
       THEN /\ check' = [check EXCEPT ![c] = [Rest EXCEPT !.at = "collect", !.late = late, !.busy = active]]
            /\ UNCHANGED signal
       ELSE /\ check' = [check EXCEPT ![c] = [Rest EXCEPT !.at = "screen", !.frozen = signal.frozen,
                                                          !.audit = signal.screening]]
            /\ signal' = [signal EXCEPT !.status = "pending"]
    /\ UNCHANGED <<sourceVars, messages, mishaps>>

(* collect, ready, sufficient and create.  The primary key refuses a       *)
(* second row.                                                             *)
CollectCandidates(c) ==
    LET available == formal \ check[c].busy
        ready     == available = Sources
        enough    == 0 \in available /\ available # {0}
    IN
    /\ check[c].at = "collect"
    /\ IF (~check[c].late /\ ~ready) \/ signal.status # "absent"
       THEN Ends(c) /\ UNCHANGED signal
       ELSE /\ signal' = [signal EXCEPT !.status = IF enough THEN "pending" ELSE "skipped", !.frozen = available]
            /\ IF ~enough THEN Ends(c)
               ELSE /\ check' = [check EXCEPT ![c].at = "screen", ![c].frozen = available]
                    /\ UNCHANGED dayHolder
    /\ UNCHANGED <<sourceVars, messages, mishaps>>

(* A call of a model fails, and so does the row.                           *)
CallFails(c) ==
    /\ check[c].at \in {"screen", "final"} /\ Mishap("call")
    /\ Finish([signal EXCEPT !.status = "failed"]) /\ Ends(c)
    /\ UNCHANGED <<sourceVars, messages>>

Left(c) ==
    {i \in 0..BucketCount - 1 : Bucket(i, Plan(c)) # {} /\ \A a \in check[c].audit : a.batch # i}

(* One bucket is screened, in order, and the audit saved as a whole.       *)
ScreenBucket(c) ==
    /\ check[c].at = "screen"
    /\ \E i \in Left(c) :
         /\ \A j \in Left(c) : i <= j
         /\ \E picked \in SUBSET Bucket(i, Plan(c)) :
              LET audit == check[c].audit \cup {[batch |-> i, asked |-> Bucket(i, Plan(c)), picked |-> picked]} IN
              /\ check' = [check EXCEPT ![c].audit = audit]
              /\ Finish([signal EXCEPT !.screening = audit])
    /\ UNCHANGED <<sourceVars, messages, dayHolder, mishaps>>

Prompt(c) ==
    /\ check[c].at = "screen" /\ Left(c) = {}
    /\ check' = [check EXCEPT ![c].at = IF Picked(check[c].audit) = {} THEN "complete" ELSE "final"]
    /\ Finish([signal EXCEPT !.prompted = Picked(check[c].audit)])
    /\ UNCHANGED <<sourceVars, messages, dayHolder, mishaps>>

(* The final call: its answer is saved, and may still be refused because   *)
(* it cites what no search has confirmed.                                  *)
FinalCall(c) ==
    /\ check[c].at = "final"
    /\ \E chosen \in SUBSET Picked(check[c].audit) :
         \/ /\ Finish([signal EXCEPT !.answer = chosen])
            /\ check' = [check EXCEPT ![c].at = "complete", ![c].decision = chosen]
            /\ UNCHANGED <<dayHolder, mishaps>>
         \/ /\ Mishap("call")
            /\ Finish([signal EXCEPT !.answer = chosen, !.status = "failed"])
            /\ Ends(c)
    /\ UNCHANGED <<sourceVars, messages>>

(* complete: decision, status and message in one transaction.  Without a   *)
(* final call the fields of an answer are cleared.                         *)
Complete(c) ==
    /\ check[c].at = "complete"
    /\ IF signal.status \in Final THEN UNCHANGED <<signal, messages>>
       ELSE /\ signal' = [signal EXCEPT !.status = "completed", !.decision = check[c].decision,
                                        !.answer = IF Picked(check[c].audit) = {} THEN NoAnswer ELSE check[c].decision]
            /\ messages' = Append(messages, check[c].decision)
    /\ Ends(c)
    /\ UNCHANGED <<sourceVars, mishaps>>

(* A killed worker, and a session that ends alone: its lock with it.       *)
CheckKilled(c) ==
    /\ check[c].at # "idle" /\ Ends(c)
    /\ UNCHANGED <<sourceVars, signal, messages, mishaps>>

LosesDay(c) ==
    /\ c \in dayHolder /\ Mishap("lock") /\ dayHolder' = dayHolder \ {c}
    /\ UNCHANGED <<sourceVars, signal, messages, check>>

SignalNext ==
    \/ CutoffPasses
    \/ \E s \in Sources : SourceStarts(s) \/ SourceEnds(s)
    \/ \E c \in Checkers :
         \/ Check(c) \/ CollectCandidates(c) \/ CallFails(c) \/ ScreenBucket(c) \/ Prompt(c) \/ FinalCall(c)
         \/ Complete(c) \/ CheckKilled(c) \/ LosesDay(c)

SignalSpec == SignalInit /\ [][SignalNext]_signalVars

(***************************************************************************)
(* Properties                                                              *)
(***************************************************************************)
(* docs/signal-center.md: every candidate goes through one screening.  The *)
(* completed row shows that each frozen one was asked about once, that the *)
(* final call was given what was picked, and that the decision is its      *)
(* answer: however many checks it took, and whatever the sources did.      *)
Traceable ==
    /\ \A n \in signal.frozen \ {0} : Cardinality({a \in signal.screening : n \in a.asked}) = 1
    /\ \A a \in signal.screening : a.asked \subseteq signal.frozen /\ a.picked \subseteq a.asked
    /\ signal.prompted = Picked(signal.screening) /\ signal.decision \subseteq signal.prompted
    /\ signal.answer = IF signal.prompted = {} THEN NoAnswer ELSE signal.decision

(* One market and day says one thing: a completed row has one message,     *)
(* that of its decision, and no other row has any; even when the lock was  *)
(* lost and two checks ran.                                                *)
SignalIsOne ==
    /\ messages = IF signal.status = "completed" THEN <<signal.decision>> ELSE <<>>
    /\ signal.status = "completed" /\ "lock" \notin mishaps => Traceable
=============================================================================
