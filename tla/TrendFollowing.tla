--------------------------- MODULE TrendFollowing ---------------------------
(***************************************************************************)
(* The official trend snapshots of one market: a chain per trend period,   *)
(* each day computed from its bars and from the snapshot before it.  A run *)
(* appends the sessions since the last stored day or, asked for an earlier *)
(* date, computes the chain anew from there; when that breaks off, it      *)
(* deletes what it has not reached.  Runs hold no lock: the schedule's and *)
(* an administrator's may overlap.                                         *)
(*                                                                         *)
(* One symbol stands for the universe, whose symbols do not meet.          *)
(***************************************************************************)
EXTENDS Integers, Sequences, FiniteSets

CONSTANTS
    TrendRuns,     \* processes that run the job
    Beat,          \* the one that runs it by schedule; the others by hand
    TrendPeriods,  \* TREND_PERIODS
    LastDate,      \* bound: dates of the calendar
    TradingDates,  \* those of them that are sessions
    AskedDates,    \* bound: dates a run by hand is asked for, 0 for none
    Rows,          \* bound: what the symbol's bars up to a date can say
    MaxRevisions,  \* bound: sessions whose bars change later
    MaxTrendFaults \* bound: exceptions and killed workers

Dates   == 1..LastDate
Chains == {TrendPeriods[i] : i \in DOMAIN TrendPeriods}

(* The symbol traded; structure_broken; weak; is_candidate;                *)
(* trend_candidate; how many sessions back the selected box begins, 0      *)
(* without one; the close breaks out of it, which the day before did not.  *)
RowType == [traded : BOOLEAN, broken : BOOLEAN, weak : BOOLEAN, candidate : BOOLEAN,
            forming : BOOLEAN, box : 0..LastDate, breakout : BOOLEAN]

ASSUME TrendAssumption ==
    /\ {LastDate, MaxRevisions, MaxTrendFaults} \subseteq Nat
    /\ Beat \in TrendRuns /\ TradingDates \subseteq Dates
    /\ AskedDates \subseteq Dates \cup {0}
    /\ TrendPeriods \in Seq(Chains) /\ TrendPeriods # <<>>
    /\ Rows \in [Dates -> SUBSET RowType]
    /\ \A d \in Dates : \A row \in Rows[d] : (row.candidate => row.forming) /\ (row.forming \/ row.weak)

VARIABLES
    completed, \* the last completed session, 0 for none yet
    bars,      \* per date: its row; empty while coverage, history or benchmark are short
    chain,     \* per period: the stored days, each with the symbol's snapshot
    run,       \* per process: where its run is
    revised, trendFaults

trendVars == <<completed, bars, chain, run, revised, trendFaults>>

States      == {"none", "IDLE", "WATCHING", "CANDIDATE", "TRENDING", "WEAKENING", "BROKEN"}
Established == {"CANDIDATE", "TRENDING", "WEAKENING"}
Snapshots   == [date : Dates, row : RowType, state : States, episode : Dates \cup {0}, fresh : BOOLEAN]

NoRun == [at |-> "idle", requested |-> 0, periods |-> <<>>, initial |-> 0, first |-> 0,
          dates |-> {}, entry |-> {}, whole |-> TRUE]

TrendTypeOK ==
    /\ completed \in TradingDates \cup {0}
    /\ bars \in [Dates -> SUBSET RowType] /\ \A d \in Dates : Cardinality(bars[d]) <= 1
    /\ DOMAIN chain = Chains
    /\ \A p \in Chains : /\ chain[p] \subseteq Snapshots
                          /\ \A e, f \in chain[p] : e.date = f.date => e = f
    /\ DOMAIN run = TrendRuns
    /\ \A r \in TrendRuns :
         /\ run[r].at \in {"idle", "plan", "compute", "store", "drop", "finished"}
         /\ run[r].periods \in Seq(Chains) /\ run[r].dates \subseteq Dates
         /\ run[r].entry \subseteq Snapshots /\ Cardinality(run[r].entry) <= 1
         /\ {run[r].requested, run[r].initial} \subseteq Dates \cup {0}
         /\ run[r].first \in 0..(LastDate + 1) /\ run[r].whole \in BOOLEAN
    /\ revised \in 0..MaxRevisions /\ trendFaults \in 0..MaxTrendFaults

TrendInit ==
    /\ completed = 0 /\ bars = [d \in Dates |-> {}]
    /\ chain = [p \in Chains |-> {}] /\ run = [r \in TrendRuns |-> NoRun]
    /\ revised = 0 /\ trendFaults = 0

Earliest(dates) == CHOOSE d \in dates : \A c \in dates : d <= c

-----------------------------------------------------------------------------
(* The calendar and the daily bars.                                        *)
SessionCompletes ==
    /\ \E d \in TradingDates : d > completed
    /\ completed' = Earliest({d \in TradingDates : d > completed})
    /\ UNCHANGED <<bars, chain, run, revised, trendFaults>>

BarsArrive(d) ==
    /\ d \in TradingDates /\ d <= completed /\ bars[d] = {}
    /\ \E row \in Rows[d] : bars' = [bars EXCEPT ![d] = {row}]
    /\ UNCHANGED <<completed, chain, run, revised, trendFaults>>

BarsChange(d) ==
    /\ bars[d] # {} /\ revised < MaxRevisions /\ revised' = revised + 1
    /\ \E row \in Rows[d] : row \notin bars[d] /\ bars' = [bars EXCEPT ![d] = {row}]
    /\ UNCHANGED <<completed, chain, run, trendFaults>>

-----------------------------------------------------------------------------
(* The computation of one day.                                             *)

(* previous_snapshots: the symbol's latest before the date, if any.        *)
Previous(p, d) ==
    {e \in chain[p] : /\ e.date < d /\ e.row.traded
                      /\ \A f \in chain[p] : f.date < d /\ f.row.traded => f.date <= e.date}

(* transition_state: the state before only tells deterioration.            *)
StateAfter(row, before) ==
    LET established == \E s \in before : s.state \in Established
        failing == established \/ \E s \in before : s.state = "BROKEN" IN
    IF row.broken /\ failing THEN "BROKEN"
    ELSE IF established THEN IF row.weak THEN "WEAKENING" ELSE "TRENDING"
    ELSE IF row.candidate THEN "CANDIDATE" ELSE IF row.forming THEN "WATCHING" ELSE "IDLE"

(* The session a box of so many sessions before d begins with.             *)
BoxStart(d, sessions) ==
    LET starts == {c \in TradingDates : Cardinality({t \in TradingDates : c <= t /\ t < d}) = sessions /\ c < d} IN
    IF starts = {} THEN 0 ELSE Earliest(starts)

(* box_episode_breakout_date inherited, given up only for a structure that *)
(* begins after it.                                                        *)
Inherited(d, row, before) ==
    IF \E s \in before : s.episode # 0 /\ ~(row.box # 0 /\ BoxStart(d, row.box) > s.episode)
    THEN (CHOOSE s \in before : TRUE).episode ELSE 0

(* calculate_box_structure and transition_state for the day.               *)
SnapshotOf(d, row, before) ==
    LET episode == Inherited(d, row, before)
        fresh   == row.box # 0 /\ row.breakout /\ episode = 0 IN
    IF row.traded
    THEN [date |-> d, row |-> row, state |-> StateAfter(row, before),
          episode |-> IF fresh THEN d ELSE episode, fresh |-> fresh]
    ELSE [date |-> d, row |-> row, state |-> "none", episode |-> 0, fresh |-> FALSE]

-----------------------------------------------------------------------------
(* The runs.                                                               *)
TrendFault == trendFaults < MaxTrendFaults /\ trendFaults' = trendFaults + 1

Becomes(r, fields) == run' = [run EXCEPT ![r] = fields]

ChainOf(r)  == Head(run[r].periods)
CurrentDate(r) == Earliest(run[r].dates)
AtWork(r)  == run[r].at # "idle"

(* The job, by schedule for every period up to the last completed session, *)
(* by hand for one period or all and for any date.                         *)
StartTrend(r) ==
    /\ ~AtWork(r) /\ completed # 0
    /\ \E requested \in AskedDates \cup {0}, periods \in {TrendPeriods} \cup {<<p>> : p \in Chains} :
         /\ IF r = Beat THEN requested = 0 /\ periods = TrendPeriods ELSE requested \in AskedDates
         /\ run' = [s \in TrendRuns |->
                      IF s = r THEN [NoRun EXCEPT !.at = "plan", !.requested = requested, !.periods = periods]
                      ELSE [run[s] EXCEPT !.whole = ~AtWork(s)]]
    /\ UNCHANGED <<completed, bars, chain, revised, trendFaults>>

LatestStored(p) ==
    IF chain[p] = {} THEN 0 ELSE (CHOOSE e \in chain[p] : \A f \in chain[p] : f.date <= e.date).date

(* A bug: nothing stored leaves nothing to append to.                      *)
RebuildStoredOnly(p, requested) ==
    LET latest == LatestStored(p)
        target == IF requested = 0 THEN completed ELSE requested IN
    IF latest = 0 THEN {} ELSE {d \in TradingDates : (latest < d /\ d <= target) \/ (target <= d /\ d <= latest)}

(* _rebuild_dates.                                                         *)
RebuildDates(p, requested) ==
    LET latest == LatestStored(p)
        target == IF requested = 0 THEN completed ELSE requested IN
    IF latest = 0 \/ latest = target \/ (requested = 0 /\ latest > target) THEN {target}
    ELSE IF latest < target THEN {d \in TradingDates : latest < d /\ d <= target}
    ELSE {target} \cup {d \in TradingDates : target <= d /\ d <= latest}

(* A requested date after the last stored one may leave nothing to do,     *)
(* which raises.                                                           *)
PlanRebuild(r) ==
    /\ run[r].at = "plan"
    /\ LET dates == RebuildDates(ChainOf(r), run[r].requested) IN
       Becomes(r, [run[r] EXCEPT !.at = IF dates = {} THEN "finished" ELSE "compute",
                                 !.initial = LatestStored(ChainOf(r)), !.dates = dates,
                                 !.first = IF dates = {} THEN LastDate + 1 ELSE Earliest(dates),
                                 !.whole = \A s \in TrendRuns \ {r} : ~AtWork(s)])
    /\ UNCHANGED <<completed, bars, chain, revised, trendFaults>>

(* A bug: the last stored day is taken for not reached yet.                *)
BreakOffBefore(r) ==
    Becomes(r, [run[r] EXCEPT !.at = IF run[r].requested # 0 /\ CurrentDate(r) < run[r].initial
                                     THEN "drop" ELSE "finished",
                              !.entry = {}])

(* What of an earlier chain is no longer reached has to go.                *)
BreakOff(r) ==
    Becomes(r, [run[r] EXCEPT !.at = IF /\ run[r].requested # 0 /\ run[r].initial # 0
                                        /\ CurrentDate(r) <= run[r].initial
                                     THEN "drop" ELSE "finished",
                              !.entry = {}])

(* _run_single_date up to replace_day.                                     *)
ComputeDay(r) ==
    /\ run[r].at = "compute"
    /\ \/ /\ \E row \in bars[CurrentDate(r)] :
               Becomes(r, [run[r] EXCEPT !.at = "store",
                             !.entry = {SnapshotOf(CurrentDate(r), row, Previous(ChainOf(r), CurrentDate(r)))}])
          /\ UNCHANGED trendFaults
       \/ bars[CurrentDate(r)] = {} /\ BreakOff(r) /\ UNCHANGED trendFaults
       \/ TrendFault /\ BreakOff(r)
    /\ UNCHANGED <<completed, bars, chain, revised>>

ReplaceDay(r) ==
    chain' = [chain EXCEPT ![ChainOf(r)] = {e \in @ : e.date # CurrentDate(r)} \cup run[r].entry]

(* replace_day; its commit may be made although it raises.                 *)
StoreDay(r) ==
    /\ run[r].at = "store"
    /\ \/ /\ ReplaceDay(r)
          /\ Becomes(r, [run[r] EXCEPT !.at = IF run[r].dates = {CurrentDate(r)} THEN "finished" ELSE "compute",
                                       !.dates = @ \ {CurrentDate(r)}, !.entry = {}])
          /\ UNCHANGED trendFaults
       \/ TrendFault /\ BreakOff(r) /\ (ReplaceDay(r) \/ UNCHANGED chain)
    /\ UNCHANGED <<completed, bars, revised>>

(* invalidate_from.  When it raises too, the tail stays.                   *)
DropTail(r) ==
    /\ run[r].at = "drop"
    /\ \/ /\ chain' = [chain EXCEPT ![ChainOf(r)] = {e \in @ : e.date < CurrentDate(r)}]
          /\ Becomes(r, [run[r] EXCEPT !.at = "finished"])
          /\ UNCHANGED trendFaults
       \/ /\ TrendFault /\ Becomes(r, [run[r] EXCEPT !.at = "finished", !.whole = FALSE])
          /\ UNCHANGED chain
    /\ UNCHANGED <<completed, bars, revised>>

(* _run_periods: the next period whatever became of this one.              *)
NextPeriod(r) ==
    /\ run[r].at = "finished"
    /\ Becomes(r, IF Len(run[r].periods) = 1 THEN NoRun
                  ELSE [NoRun EXCEPT !.at = "plan", !.requested = run[r].requested,
                                     !.periods = Tail(run[r].periods)])
    /\ UNCHANGED <<completed, bars, chain, revised, trendFaults>>

WorkerDies(r) ==
    /\ AtWork(r) /\ TrendFault /\ Becomes(r, NoRun)
    /\ UNCHANGED <<completed, bars, chain, revised>>

RunOn(r) == PlanRebuild(r) \/ ComputeDay(r) \/ StoreDay(r) \/ DropTail(r) \/ NextPeriod(r)

TrendNext ==
    \/ SessionCompletes
    \/ \E d \in Dates : BarsArrive(d) \/ BarsChange(d)
    \/ \E r \in TrendRuns : StartTrend(r) \/ RunOn(r) \/ WorkerDies(r)

TrendSpec == TrendInit /\ [][TrendNext]_trendVars

(* The schedule comes round again, a process goes on, bars arrive.         *)
TrendFairness ==
    /\ WF_trendVars(StartTrend(Beat))
    /\ \A r \in TrendRuns : WF_trendVars(RunOn(r))
    /\ WF_trendVars(\E d \in Dates : BarsArrive(d))

TrendFairSpec == TrendSpec /\ TrendFairness

(***************************************************************************)
(* Properties                                                              *)
(***************************************************************************)
(* The snapshot is the one its bars give after the snapshot before it.     *)
Follows(p, e) == e = SnapshotOf(e.date, e.row, Previous(p, e.date))

(* From a date on, every session up to the last stored one is stored and   *)
(* follows, and a box breaks out once until a structure begins after that. *)
WholeFrom(p, first) ==
    LET tail == {e \in chain[p] : e.date >= first} IN
    /\ \A e \in tail : Follows(p, e)
    /\ \A d \in TradingDates : first <= d /\ d <= LatestStored(p) => \E e \in tail : e.date = d
    /\ \A e, f \in tail : e.fresh /\ f.fresh /\ e.date < f.date =>
         \E g \in tail : e.date < g.date /\ g.date <= f.date /\ BoxStart(g.date, g.row.box) > e.date

(* test_box_episode_daily_runs_and_historical_rebuild_are_identical: from  *)
(* the first date of a run on, the chain is what a rebuild would make of   *)
(* the same rows, however broken it was, wherever the run broke off and    *)
(* although bars changed since.  A run answers for that unless another     *)
(* overlapped, the invalidation failed as well, or it was to compute only  *)
(* the last day again and could not.                                       *)
Answers(r) ==
    /\ run[r].at = "finished" /\ run[r].whole
    /\ run[r].dates = {} \/ run[r].requested # 0 \/ run[r].first > run[r].initial

RebuildsAreWhole == \A r \in TrendRuns : Answers(r) => WholeFrom(ChainOf(r), run[r].first)

(* The last completed session is stored again and again, whatever reruns   *)
(* delete: the schedule's runs catch up.                                   *)
CatchesUp == \A p \in Chains : []<>(completed = 0 \/ \E e \in chain[p] : e.date = completed)
=============================================================================
