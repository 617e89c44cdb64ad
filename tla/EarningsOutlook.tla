--------------------------- MODULE EarningsOutlook ---------------------------
(***************************************************************************)
(* The outlook of one earnings release: rounds of research and prediction  *)
(* by the daily scan, the final scan, administrators and deferred          *)
(* messages, the append-only versions they save, and the nightly review,   *)
(* while the calendar moves, completes and reports the event.  A round     *)
(* holds the event's advisory lock, but a lost database session takes the  *)
(* lock away from a round that goes on: two may be at work.                *)
(*                                                                         *)
(* A day has two ticks, the morning's and the one after the close.  An     *)
(* event's slot is the tick at which it is released: even for a release    *)
(* before the open (or of no known session), odd for one after the close.  *)
(***************************************************************************)
EXTENDS Integers, Sequences, FiniteSets, Functions

CONSTANTS
    ReleaseSlots,  \* slots the calendar may give the event
    Quarters,      \* reporting periods it or the research may name
    NearDays,      \* the near window, in days before the release
    LookAhead,     \* CALENDAR_LOOKAHEAD_DAYS
    OutlookRounds, \* processes that run a round or a review of the event
    LastTick,      \* bound of the clock
    MaxExtra,      \* bound: refreshes an administrator asks for, deferred messages, lost locks
    MaxChanges     \* bound: changes of the event

ASSUME OutlookAssumption ==
    /\ ReleaseSlots \subseteq Nat /\ ReleaseSlots # {} /\ "none" \notin Quarters
    /\ {NearDays, LookAhead, LastTick, MaxExtra, MaxChanges} \subseteq Nat

Automatic == <<"initial", "near", "final">>
Stages    == {"initial", "near", "final", "manual"}
Asked     == {"daily", "final", "manual"}
Periods   == Quarters \cup {"none"}
Schedules == [slot : ReleaseSlots, period : Periods]

VARIABLES
    tick,
    event,      \* FinanceEvent: its schedule, and whether actual figures are known
    versions,   \* EarningsPrediction, in the order of their ids
    outlook,    \* EarningsOutlookState: pointer, whether its status is frozen, frozen schedule
    round,      \* per process: where its round is and what it has read
    eventLock,  \* who holds the event's advisory lock
    deferred,   \* messages of rounds that found the event or the slots busy
    strays,     \* history: versions saved, or found again, by a round without the lock
    soonest,    \* history: the earliest slot the event has been given
    extra, changes

outlookVars == <<tick, event, versions, outlook, round, eventLock, deferred, strays, soonest, extra, changes>>
world  == <<tick, event, soonest, changes>>
saved  == <<versions, outlook, strays>>
atWork == <<round, eventLock>>

Today      == tick \div 2
DateOf(s)  == s \div 2
DaysTo(s)  == DateOf(s) - Today

NoSchedule == [slot |-> 0, period |-> "none"]
Idle       == [at |-> "idle", stage |-> "manual", read |-> NoSchedule, period |-> "none",
               reported |-> FALSE, known |-> 0]

OutlookTypeOK ==
    /\ tick \in 0..LastTick
    /\ event \in [schedule : Schedules, actual : BOOLEAN]
    /\ versions \in Seq([stage : Stages, schedule : Schedules, period : Periods])
    /\ outlook.pointer \in 0..Len(versions)
    /\ outlook.frozen \in BOOLEAN /\ outlook.frozenFor \in Schedules \cup {NoSchedule}
    /\ \A r \in OutlookRounds :
         round[r].at \in {"idle", "collect", "research", "prepare", "predict", "save", "review"}
    /\ eventLock \subseteq OutlookRounds /\ Cardinality(eventLock) <= 1
    /\ strays \subseteq DOMAIN versions /\ soonest \in ReleaseSlots
    /\ deferred \subseteq [asked : Asked, expires : ReleaseSlots]
    /\ extra \in 0..MaxExtra /\ changes \in 0..MaxChanges

OutlookInit ==
    /\ tick = 0
    /\ \E s \in Schedules : s.period = "none" /\ event = [schedule |-> s, actual |-> FALSE]
    /\ versions = <<>> /\ strays = {} /\ soonest = event.schedule.slot
    /\ round = [r \in OutlookRounds |-> Idle] /\ eventLock = {} /\ deferred = {}
    /\ outlook = [pointer |-> 0, frozen |-> FALSE, frozenFor |-> NoSchedule]
    /\ extra = 0 /\ changes = 0

(***************************************************************************)
(* What is outside: time and the calendar synchronisation, which never     *)
(* takes a period or a figure back.                                        *)
(***************************************************************************)
Passes ==
    /\ tick < LastTick /\ tick' = tick + 1
    /\ UNCHANGED <<event, soonest, changes, saved, atWork, deferred, extra>>

CalendarUpdates ==
    /\ changes < MaxChanges /\ changes' = changes + 1
    /\ \E s \in ReleaseSlots, q \in Periods, a \in BOOLEAN :
         /\ DateOf(s) >= Today /\ (event.schedule.period # "none" => q # "none") /\ (event.actual => a)
         /\ event' = [schedule |-> [slot |-> s, period |-> q], actual |-> a] /\ event' # event
         /\ soonest' = IF s < soonest THEN s ELSE soonest
    /\ UNCHANGED <<tick, saved, atWork, deferred, extra>>

(***************************************************************************)
(* rules.py                                                                *)
(***************************************************************************)
Released(actual, slot) == actual \/ tick >= slot

(* A period that becomes known is the same schedule, two known ones are    *)
(* not; frozen is the period the version was predicted with.               *)
MatchesSchedule(current, schedule, frozen) ==
    \/ current = schedule
    \/ current.slot = schedule.slot /\ (current.period = "none" \/ frozen = "none" \/ current.period = frozen)

CompletedStages(v) ==
    CASE v.stage = "manual"  -> {}
      [] v.stage = "initial" -> {"initial"}
      [] v.stage = "near"    -> {"initial", "near"}
      [] v.stage = "final"   -> {"initial", "near", "final"}

Completed(schedule) ==
    UNION {CompletedStages(versions[i]) :
             i \in {i \in DOMAIN versions : MatchesSchedule(schedule, versions[i].schedule, versions[i].period)}}

(* At most one round; a later stage subsumes the earlier ones.             *)
StageOf(asked, slot) ==
    CASE asked = "manual" -> "manual"
      [] asked = "final"  -> "final"
      [] OTHER            -> IF DaysTo(slot) \in 1..NearDays THEN "near" ELSE "initial"

(***************************************************************************)
(* Steps of a round.  It begins with the event's advisory lock and gives   *)
(* it back when it ends; in between it never asks whether it still has it. *)
(***************************************************************************)
Goes(r, next) == round' = [round EXCEPT ![r].at = next] /\ UNCHANGED eventLock
RoundEnds(r)  == round' = [round EXCEPT ![r] = Idle] /\ eventLock' = eventLock \ {r}

(* Of the status only "frozen" is ever read.                               *)
Mark(status)         == outlook' = [outlook EXCEPT !.frozen = status = "frozen"]
MarkFrozen(schedule) == outlook' = [outlook EXCEPT !.frozen = TRUE, !.frozenFor = schedule]

OneMore == extra < MaxExtra /\ extra' = extra + 1

(* _run_outlook: a contended round comes again, but not after the release. *)
Defer(asked) ==
    IF Released(event.actual, event.schedule.slot) THEN UNCHANGED <<deferred, extra>>
    ELSE OneMore /\ deferred' = deferred \cup {[asked |-> asked, expires |-> event.schedule.slot]}

DoneAlready(stage) == stage \in Completed(event.schedule)

(***************************************************************************)
(* _refresh, up to the first write: what the index, the event, the state   *)
(* and the versions say of the round that is asked for.                    *)
(***************************************************************************)
DecideRound(r, asked) ==
    LET slot  == event.schedule.slot
        stage == StageOf(asked, slot)
        over  == Released(event.actual, slot) \/ outlook.frozenFor = event.schedule
        idle  == (asked # "manual" /\ DaysTo(slot) > LookAhead) \/ DoneAlready(stage)
    IN
    /\ eventLock = {} /\ round[r] = Idle
    /\ \/ Mark("ineligible") /\ UNCHANGED atWork     \* not a member of the index
       \/ over /\ MarkFrozen(event.schedule) /\ UNCHANGED atWork
       \/ ~over /\ idle /\ UNCHANGED <<outlook, atWork>>
       \/ /\ ~over /\ ~idle /\ Mark("processing") /\ eventLock' = {r}
          /\ round' = [round EXCEPT ![r].at = "collect", ![r].stage = stage, ![r].read = event.schedule]

Decides(asked) == \E r \in OutlookRounds : DecideRound(r, asked)

Contended(asked) == eventLock # {} /\ Defer(asked) /\ UNCHANGED <<outlook, atWork>>

DailyScan ==
    /\ tick % 2 = 0 /\ DaysTo(event.schedule.slot) \in 0..LookAhead
    /\ \/ Decides("daily") /\ UNCHANGED <<deferred, extra>>
       \/ Contended("daily")
    /\ UNCHANGED <<world, versions, strays>>

FinalScan ==
    /\ tick % 2 = 1 /\ DaysTo(event.schedule.slot) = 1
    /\ \/ Decides("final") /\ UNCHANGED <<deferred, extra>>
       \/ Contended("final")
    /\ UNCHANGED <<world, versions, strays>>

ManualRefresh ==
    /\ \/ Decides("manual") /\ OneMore /\ UNCHANGED deferred
       \/ Contended("manual")
    /\ UNCHANGED <<world, versions, strays>>

(* A deferred message runs, unless its release has passed.                 *)
RunsDeferred ==
    \E m \in deferred :
      /\ deferred' = deferred \ {m}
      /\ \/ tick < m.expires /\ Decides(m.asked)
         \/ tick >= m.expires /\ UNCHANGED <<outlook, atWork>>
      /\ UNCHANGED <<world, versions, strays, extra>>

RoundFails(r) == Mark("failed") /\ RoundEnds(r)

(* Prices and consensus are collected; then the data are cut off.          *)
CollectData(r) ==
    /\ round[r].at = "collect"
    /\ \/ /\ Released(event.actual, round[r].read.slot)
          /\ MarkFrozen(round[r].read) /\ RoundEnds(r)
       \/ /\ ~Released(event.actual, round[r].read.slot)
          /\ Goes(r, "research")
          /\ UNCHANGED outlook
       \/ RoundFails(r)
    /\ UNCHANGED <<world, versions, strays, deferred, extra>>

(* ResearchBusy: no slot for a paid call, which other events' rounds hold. *)
AskedFor(stage) == IF stage \in {"manual", "final"} THEN stage ELSE "daily"

SlotsBusy(r) ==
    /\ round[r].at \in {"research", "predict"}
    /\ Mark("pending") /\ RoundEnds(r) /\ Defer(AskedFor(round[r].stage))
    /\ UNCHANGED <<world, versions, strays>>

(* The first paid call, or the answer of an earlier one of the same stage  *)
(* and schedule, which said whatever this one might say.  The period of    *)
(* the frozen input is the calendar's, or else the research's.             *)
Known(schedule) == IF schedule.period = "none" THEN Periods ELSE {schedule.period}

Research(r) ==
    /\ round[r].at = "research"
    /\ \/ \E quarter \in Known(round[r].read), reported \in BOOLEAN :
            /\ reported => quarter # "none"
            /\ round' = [round EXCEPT ![r].at = "prepare", ![r].period = quarter, ![r].reported = reported]
            /\ UNCHANGED <<outlook, eventLock>>
       \/ RoundFails(r)
    /\ UNCHANGED <<world, versions, strays, deferred, extra>>

(* The event as it is now is the one that was read.                        *)
SameEvent(r) == MatchesSchedule(event.schedule, round[r].read, round[r].period)

Input(r)     == [stage |-> round[r].stage, schedule |-> round[r].read, period |-> round[r].period]
SameInput(r) == {i \in DOMAIN versions : versions[i] = Input(r)}

(***************************************************************************)
(* Between the calls: official sources may have reported already, the same *)
(* input may have been answered (the same prices, too), and the event may  *)
(* have changed.  The inputs of the versions it knows are not this one.    *)
(***************************************************************************)
Prepare(r) ==
    /\ round[r].at = "prepare"
    /\ \/ /\ round[r].reported
          /\ MarkFrozen(round[r].read) /\ RoundEnds(r)
       \/ /\ ~round[r].reported /\ SameInput(r) # {}
          /\ Mark("success") /\ RoundEnds(r)
       \/ /\ ~round[r].reported
          /\ IF SameEvent(r) /\ ~Released(event.actual, round[r].read.slot)
             THEN /\ round' = [round EXCEPT ![r].at = "predict", ![r].known = Len(versions)]
                  /\ UNCHANGED <<outlook, eventLock>>
             ELSE /\ Mark(IF Released(event.actual, round[r].read.slot) THEN "frozen" ELSE "superseded")
                  /\ RoundEnds(r)
    /\ UNCHANGED <<world, versions, strays, deferred, extra>>

(* The second paid call; the membership is read again after it.            *)
Predict(r) ==
    /\ round[r].at = "predict"
    /\ \/ Goes(r, "save") /\ UNCHANGED outlook
       \/ Mark("ineligible") /\ RoundEnds(r)
       \/ RoundFails(r)
    /\ UNCHANGED <<world, versions, strays, deferred, extra>>

(* The release time that was read is still to come: not looked at again.   *)
UnreleasedAsRead(r) == tick < round[r].read.slot

(* The event, looked at again, is the one predicted for.                   *)
Unreleased(r) == SameEvent(r) /\ ~event.actual /\ tick < round[r].read.slot

Strays(r, i) == strays' = IF r \in eventLock THEN strays ELSE strays \cup {i}

(***************************************************************************)
(* save_prediction: one transaction that locks the event's row and looks   *)
(* at it once more; version, pointer and summary go together.  Another     *)
(* round may have saved the same input meanwhile.                          *)
(***************************************************************************)
SavePrediction(r) ==
    /\ round[r].at = "save"
    /\ \/ /\ Unreleased(r) /\ versions' = Append(versions, Input(r))
          /\ outlook' = [outlook EXCEPT !.pointer = Len(versions'), !.frozen = FALSE]
          /\ Strays(r, Len(versions'))
       \/ /\ Unreleased(r) /\ UNCHANGED versions
          /\ \E i \in SameInput(r) :
               /\ i > round[r].known /\ Strays(r, i)
               /\ outlook' = [outlook EXCEPT !.pointer = i, !.frozen = FALSE]
       \/ Mark("failed") /\ UNCHANGED <<versions, strays>>  \* the event changed, or an error
    /\ RoundEnds(r)
    /\ UNCHANGED <<world, deferred, extra>>

(***************************************************************************)
(* review, under the same lock: a version that was shown when its release  *)
(* was over is compared with the prices, which are fetched.  The outlook   *)
(* may point to another one by then.                                       *)
(***************************************************************************)
StartReview(r) ==
    /\ eventLock = {} /\ round[r] = Idle
    /\ \E v \in Range(versions) :
         /\ v.schedule.slot <= tick
         /\ IF MatchesSchedule(event.schedule, v.schedule, v.period)
            THEN /\ round' = [round EXCEPT ![r].at = "review"] /\ eventLock' = {r}
                 /\ UNCHANGED outlook
            ELSE Mark("superseded") /\ UNCHANGED atWork
    /\ UNCHANGED <<world, versions, strays, deferred, extra>>

FinishReview(r) ==
    /\ round[r].at = "review" /\ RoundEnds(r)
    /\ (Mark("frozen") \/ UNCHANGED outlook)  \* completed before, or an error
    /\ UNCHANGED <<world, versions, strays, deferred, extra>>

(* A killed worker: its session, and the lock with it, ends.               *)
RoundKilled(r) ==
    /\ round[r] # Idle /\ RoundEnds(r)
    /\ UNCHANGED <<world, saved, deferred, extra>>

(* The lock's session ends, which a round at its paid calls does not see.  *)
LoseEventLock(r) ==
    /\ r \in eventLock /\ eventLock' = {} /\ OneMore
    /\ UNCHANGED <<world, saved, round, deferred>>

RoundMoves(r) ==
    \/ CollectData(r) \/ SlotsBusy(r) \/ Research(r) \/ Prepare(r) \/ Predict(r) \/ SavePrediction(r)
    \/ StartReview(r) \/ FinishReview(r) \/ RoundKilled(r) \/ LoseEventLock(r)

OutlookNext ==
    \/ Passes \/ CalendarUpdates
    \/ DailyScan \/ FinalScan \/ ManualRefresh \/ RunsDeferred
    \/ \E r \in OutlookRounds : RoundMoves(r)

OutlookSpec == OutlookInit /\ [][OutlookNext]_outlookVars

(***************************************************************************)
(* Properties                                                              *)
(***************************************************************************)
Place(stage) == CHOOSE n \in DOMAIN Automatic : Automatic[n] = stage

(* Each automatic stage of a schedule is paid for once, in order, whatever *)
(* fails, is deferred or asked for by hand in between; but for versions of *)
(* rounds that had lost the lock.                                          *)
StagesAdvance ==
    \A i, j \in DOMAIN versions \ strays :
      /\ i < j /\ versions[i].stage # "manual" /\ versions[j].stage # "manual"
      /\ MatchesSchedule(versions[j].schedule, versions[i].schedule, versions[i].period)
      => Place(versions[i].stage) < Place(versions[j].stage)

(* What is saved was predicted before the release of the event as it is    *)
(* then.                                                                   *)
SavesBeforeRelease ==
    [][versions' # versions =>
         LET v == versions'[Len(versions')] IN
         /\ ~Released(event.actual, event.schedule.slot) /\ event.schedule.slot = v.schedule.slot]_outlookVars

(* display_summary.                                                        *)
Current ==
    /\ outlook.pointer # 0 /\ ~outlook.frozen
    /\ LET v == versions[outlook.pointer] IN
       /\ MatchesSchedule(event.schedule, v.schedule, v.period)
       /\ ~Released(event.actual, v.schedule.slot)

(* The newest version is shown while it applies, whatever later rounds did *)
(* or failed to do.  What freezes the outlook is official research of a    *)
(* report and the passing of a release, be it one that the calendar moved  *)
(* away again; a round without the lock may turn back to an older version. *)
NewestIsShown ==
    versions # <<>> =>
      LET v == versions[Len(versions)] IN
      /\ MatchesSchedule(event.schedule, v.schedule, v.period)
      /\ ~Released(event.actual, v.schedule.slot)
      /\ outlook.frozenFor = NoSchedule /\ tick < soonest /\ strays = {}
      => Current

(* Whatever fails, is repeated or changes meanwhile: no stage is paid for  *)
(* twice, nothing is predicted after the fact, the newest version shows.   *)
OutlookIsSound == []StagesAdvance /\ []NewestIsShown /\ SavesBeforeRelease
=============================================================================
