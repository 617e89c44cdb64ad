---------------------------- MODULE Confirmation ----------------------------
(***************************************************************************)
(* The intraday confirmation of one candidate on one day.  A run loads the *)
(* day's document, asks the market for minutes on end and writes a         *)
(* document computed from what it loaded.  The advisory lock that keeps    *)
(* runs apart ends with its database session, and the run does not notice; *)
(* the document's revision is what decides.                                *)
(***************************************************************************)
EXTENDS Integers, FiniteSets

CONSTANTS
    Evaluators,        \* processes that run the job
    LastMinuteBar,           \* bound: closed bars of the session
    StableEvaluations, \* STABLE_EVALUATIONS, each of a newer bar
    StableSpan,        \* STABLE_SECONDS, in bars
    ObservationGap,    \* MAX_OBSERVATION_GAP_SECONDS, in bars
    MaxBarAge,         \* MAX_DATA_AGE_SECONDS and MAX_COMPARISON_SKEW_SECONDS, in bars
    ClockSkew,         \* per worker: how far its clock may be ahead, in bars
    MaxRevision,       \* bound: revisions of the document
    MaxEvalFaults      \* bound: killed runs and lost locks

ASSUME ConfirmationAssumption ==
    /\ {LastMinuteBar, StableEvaluations, StableSpan, ObservationGap, MaxRevision} \subseteq Nat \ {0}
    /\ {MaxBarAge, MaxEvalFaults} \subseteq Nat /\ ClockSkew \in [Evaluators -> Nat]

MinuteBars    == 1..LastMinuteBar
Verdicts == {"WAIT", "CONFIRMED", "FAILED"}

VARIABLES
    minuteBar,      \* the last closed bar; 0 before the open, LastBar + 1 after the close
    stored,   \* IntradayConfirmationSnapshot: revision 0 for no row, its item and generated_at
    work,     \* per run: where it is and the document it holds
    dayLock,  \* who holds the market's lock of the day
    replayed, \* the item all saved observations lead to, one after the other
    evalFaults

confirmVars == <<minuteBar, stored, work, dayLock, replayed, evalFaults>>

Fresh == [state |-> "WAIT", pending |-> "none", count |-> 0, since |-> 0, last |-> 0, first |-> 0]

Items ==
    [state : Verdicts, pending : Verdicts \cup {"none"}, count : Nat, since : MinuteBars \cup {0},
     last : MinuteBars \cup {0}, first : Nat]
NoSeen == [minuteBar |-> 0, proposed |-> "WAIT", time |-> 0]

ConfirmTypeOK ==
    /\ minuteBar \in 0..LastMinuteBar + 1
    /\ stored \in [revision : Nat, item : Items, returns : Nat, generated : Nat]
    /\ work \in [Evaluators -> [at : {"idle", "loaded", "evaluated", "returns"}, revision : Nat,
                                item : Items, seen : [minuteBar : MinuteBars \cup {0}, proposed : Verdicts, time : Nat]]]
    /\ dayLock \subseteq Evaluators /\ Cardinality(dayLock) <= 1
    /\ replayed \in Items
    /\ evalFaults \in 0..MaxEvalFaults

Rest == [at |-> "idle", revision |-> 0, item |-> Fresh, seen |-> NoSeen]

ConfirmInit ==
    /\ minuteBar = 0 /\ stored = [revision |-> 0, item |-> Fresh, returns |-> 0, generated |-> 0]
    /\ work = [e \in Evaluators |-> Rest] /\ dayLock = {}
    /\ replayed = Fresh /\ evalFaults = 0

CloseBar ==
    /\ minuteBar <= LastMinuteBar /\ minuteBar' = minuteBar + 1
    /\ UNCHANGED <<stored, work, dayLock, replayed, evalFaults>>

(* The document is done with; the lock goes if it is still held.           *)
Leave(e) ==
    /\ work' = [work EXCEPT ![e] = Rest]
    /\ dayLock' = dayLock \ {e}

(* Before the open the pool is frozen, once.                               *)
Freeze(e) ==
    /\ minuteBar = 0 /\ work[e].at = "idle" /\ dayLock = {}
    /\ stored' = IF stored.revision = 0 THEN [stored EXCEPT !.revision = 1] ELSE stored
    /\ UNCHANGED <<minuteBar, work, dayLock, replayed, evalFaults>>

Load(e) ==
    /\ minuteBar \in MinuteBars /\ work[e].at = "idle" /\ dayLock = {} /\ stored.revision \in 1..MaxRevision - 1
    /\ dayLock' = {e}
    /\ work' = [work EXCEPT ![e] = [Rest EXCEPT !.at = "loaded", !.revision = stored.revision, !.item = stored.item]]
    /\ UNCHANGED <<minuteBar, stored, replayed, evalFaults>>

(***************************************************************************)
(* stabilize: only a newer bar counts, a verdict takes effect after enough *)
(* of them in a row, FAILED is final and the first confirmation stays.     *)
(***************************************************************************)
Counted(item, seen) ==
    LET streak == item.pending = seen.proposed /\ item.last # 0 /\ seen.minuteBar - item.last <= ObservationGap
        count  == IF streak THEN item.count + 1 ELSE 1
        since  == IF streak THEN item.since ELSE seen.minuteBar
    IN IF count >= StableEvaluations /\ seen.minuteBar - since >= StableSpan
       THEN [item EXCEPT !.state = seen.proposed, !.pending = "none", !.count = 0, !.since = 0]
       ELSE [item EXCEPT !.pending = seen.proposed, !.count = count, !.since = since]

Cleared(item) == [item EXCEPT !.pending = "none", !.count = 0, !.since = 0]

Stabilize(item, seen) ==
    LET newer == seen.minuteBar > item.last
        next  == CASE item.state = "FAILED" -> item
                   [] item.state # "FAILED" /\ newer ->
                        IF seen.proposed # "WAIT" /\ seen.proposed # item.state
                        THEN Counted(item, seen) ELSE Cleared(item)
                   [] OTHER -> IF seen.proposed = "WAIT" THEN Cleared(item) ELSE item
    IN [next EXCEPT !.last  = IF newer THEN seen.minuteBar ELSE @,
                    !.first = IF @ = 0 /\ next.state = "CONFIRMED" THEN seen.time ELSE @]

(* collect_data and decision: the last bar closed by the quote's time, if  *)
(* quote and bar are recent enough; without one the proposal is WAIT.  The *)
(* document is dated by the worker's clock.                                *)
ReadyBars == {b \in MinuteBars : minuteBar - MaxBarAge <= b /\ b <= minuteBar}

Observations(e) ==
    {seen \in [minuteBar : ReadyBars \cup {0}, proposed : Verdicts, time : minuteBar..minuteBar + ClockSkew[e]] :
        seen.minuteBar = 0 => seen.proposed = "WAIT"}

Collect(e) ==
    /\ work[e].at = "loaded"
    /\ \E seen \in Observations(e) :
         work' = [work EXCEPT ![e].at = "evaluated", ![e].seen = seen, ![e].item = Stabilize(@, seen)]
    /\ UNCHANGED <<minuteBar, stored, dayLock, replayed, evalFaults>>

CurrentOrNewer(e) == work[e].revision <= stored.revision

(***************************************************************************)
(* ConfirmationStore.save: a document of another revision is refused, and  *)
(* one dated before the stored one; the first confirmation is the stored   *)
(* one.                                                                    *)
(***************************************************************************)
Current(e) == work[e].revision = stored.revision

Accepted(e) == Current(e) /\ work[e].seen.time >= stored.generated

Merge(old, incoming) == [incoming EXCEPT !.first = IF old.first # 0 THEN old.first ELSE @]

Save(e) ==
    /\ work[e].at = "evaluated"
    /\ IF Accepted(e)
       THEN /\ stored' = [stored EXCEPT !.revision = @ + 1, !.item = Merge(@, work[e].item),
                                        !.generated = work[e].seen.time]
            /\ replayed' = Stabilize(replayed, work[e].seen)
       ELSE UNCHANGED <<stored, replayed>>
    /\ Leave(e)
    /\ UNCHANGED <<minuteBar, evalFaults>>

(***************************************************************************)
(* refresh_returns, by a run of a later day and so under another lock: the *)
(* returns belong to the first confirmation they were computed from.       *)
(***************************************************************************)
LoadReturns(e) ==
    /\ minuteBar > LastMinuteBar /\ work[e].at = "idle"
    /\ stored.item.first # 0 /\ stored.returns = 0
    /\ work' = [work EXCEPT ![e] = [Rest EXCEPT !.at = "returns", !.item = stored.item]]
    /\ UNCHANGED <<minuteBar, stored, dayLock, replayed, evalFaults>>

SaveReturns(e) ==
    /\ work[e].at = "returns"
    /\ stored' = [stored EXCEPT !.revision = @ + 1,
                     !.returns = IF @ = 0 /\ work[e].item.first = stored.item.first THEN work[e].item.first ELSE @]
    /\ work' = [work EXCEPT ![e] = Rest]
    /\ UNCHANGED <<minuteBar, dayLock, replayed, evalFaults>>

EvalFault == evalFaults < MaxEvalFaults /\ evalFaults' = evalFaults + 1

Kill(e) ==
    /\ work[e].at # "idle" /\ EvalFault /\ Leave(e)
    /\ UNCHANGED <<minuteBar, stored, replayed>>

LoseDayLock(e) ==
    /\ e \in dayLock /\ EvalFault /\ dayLock' = {}
    /\ UNCHANGED <<minuteBar, stored, work, replayed>>

ConfirmNext ==
    \/ CloseBar
    \/ \E e \in Evaluators :
         \/ Freeze(e) \/ Load(e) \/ Collect(e) \/ Save(e)
         \/ LoadReturns(e) \/ SaveReturns(e) \/ Kill(e) \/ LoseDayLock(e)

ConfirmSpec == ConfirmInit /\ [][ConfirmNext]_confirmVars

(***************************************************************************)
(* Properties                                                              *)
(***************************************************************************)
(* No evaluation is lost or counted twice, although runs overlap: the      *)
(* stored verdict is what the saved observations lead to one after the     *)
(* other, the first confirmation is the first of that history, and returns *)
(* are attached to no other.                                               *)
DocumentIsHistory ==
    /\ stored.item = replayed
    /\ stored.returns \in {0, replayed.first}
=============================================================================
