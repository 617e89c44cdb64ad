------------------------------ MODULE DailySync ------------------------------
(***************************************************************************)
(* MarketDataSyncService for one US symbol: what the daily synchronisation *)
(* makes of the answers of Alpaca and yfinance.  Stored prices are forward *)
(* adjusted: a split or a dividend gives every past price a new basis, and *)
(* a row only says which basis it was fetched in.  An answer is the set of *)
(* sessions it holds, with or without a request error on the way.          *)
(***************************************************************************)
EXTENDS Integers, FiniteSets

CONSTANTS
    LastSession,   \* bound: sessions of the calendar
    RefreshDays,   \* sessions of an incremental window
    ScaleMinDates, \* ADJUSTMENT_SCALE_MIN_DATES
    MaxBases,      \* bound: bases the prices ever have
    MaxSyncs       \* bound: runs of the job

ASSUME DailySyncAssumption ==
    /\ {LastSession, RefreshDays, ScaleMinDates, MaxBases, MaxSyncs} \subseteq Nat \ {0}
    /\ ScaleMinDates < RefreshDays /\ 3 <= LastSession

Sessions  == 1..LastSession
Providers == {"alpaca", "yfinance"}

VARIABLES
    session, \* the last completed session
    basis,   \* the basis the providers adjust to now
    dailyRows,    \* StockDaily: per session the basis of its row, 0 for none
    pass,    \* where the run is
    mode,    \* sync_mode
    retrying,\* the pass after DELAYED_MISSING_RETRY_SECONDS
    requested,  \* the sessions the run asks for
    horizon, \* full_days: the sessions of a full refresh
    routed,  \* the routed download
    scaleVerdict, \* the status of the symbol's DailyResult
    whole,   \* of a behaviour: answers are whole windows, or any part of one
    syncs

syncVars == <<session, basis, dailyRows, pass, mode, retrying, requested, horizon, routed, scaleVerdict, whole, syncs>>

Stored  == {d \in Sessions : dailyRows[d] # 0}
Least(days) == CHOOSE d \in days : \A e \in days : d <= e
NoDownload == [days |-> {}, sources |-> {}, basis |-> 0, error |-> FALSE, flawed |-> FALSE]

SyncTypeOK ==
    /\ session \in Sessions /\ basis \in 1..MaxBases
    /\ dailyRows \in [Sessions -> 0..MaxBases]
    /\ pass \in {"idle", "fetch", "fetched", "upgrade", "refetched", "checked"}
    /\ mode \in {"incremental", "full"} /\ retrying \in BOOLEAN
    /\ requested \subseteq horizon /\ horizon \subseteq 1..session
    /\ routed.days \subseteq horizon /\ routed.sources \subseteq Providers
    /\ routed.basis \in 0..MaxBases /\ {routed.error, routed.flawed} \subseteq BOOLEAN
    /\ scaleVerdict \in {"none", "success", "partial", "failed"}
    /\ whole \in BOOLEAN /\ syncs \in 0..MaxSyncs

SyncInit ==
    /\ session = 3 /\ basis = 1
    /\ dailyRows \in {[d \in Sessions |-> IF d <= n THEN 1 ELSE 0] : n \in {0, 3}}
    /\ pass = "idle" /\ mode = "incremental" /\ retrying = FALSE
    /\ requested = {} /\ horizon = {} /\ routed = NoDownload /\ scaleVerdict = "none"
    /\ whole \in BOOLEAN /\ syncs = 0

(***************************************************************************)
(* The market: a session completes, prices are adjusted.  The job runs     *)
(* every day: it is never so late that its window misses the stored rows.  *)
(***************************************************************************)
NewSession ==
    /\ pass = "idle" /\ session < LastSession
    /\ Stored = {} \/ Cardinality(Stored \cap (session + 2 - RefreshDays)..session) >= ScaleMinDates
    /\ session' = session + 1
    /\ UNCHANGED <<basis, dailyRows, pass, mode, retrying, requested, horizon, routed, scaleVerdict, whole, syncs>>

Adjust ==
    /\ basis < MaxBases /\ basis' = basis + 1
    /\ UNCHANGED <<session, dailyRows, pass, mode, retrying, requested, horizon, routed, scaleVerdict, whole, syncs>>

(* run: the windows, by the clock at its start.                            *)
StartSync(m) ==
    /\ pass = "idle" /\ syncs < MaxSyncs
    /\ pass' = "fetch" /\ mode' = m /\ retrying' = FALSE /\ scaleVerdict' = "none"
    /\ horizon' = 1..session
    /\ requested' = IF m = "incremental" /\ Stored # {}
                 THEN {d \in 1..session : d > session - RefreshDays} ELSE 1..session
    /\ syncs' = syncs + 1
    /\ UNCHANGED <<session, basis, dailyRows, routed, whole>>

(***************************************************************************)
(* Downloads                                                               *)
(***************************************************************************)
Answered(days) == [days : IF whole THEN {{}, days} ELSE SUBSET days, error : BOOLEAN]

(* AlpacaProvider: bars with a gap after the first of them are a failure.  *)
Alpaca(days, bars) ==
    LET gap == bars.days # {} /\ \E d \in days : d >= Least(bars.days) /\ d \notin bars.days
        bad == bars.error \/ gap
    IN [days |-> IF bad THEN {} ELSE bars.days, error |-> bad]

(* _route_bars with complete_fallback: the second provider is asked for    *)
(* the whole window, and its answer takes back the error of the first only *)
(* when it has none itself.                                                *)
Route(alpaca, yahoo) ==
    LET second == alpaca.days = {}
        final  == IF second THEN yahoo ELSE alpaca
    IN [days    |-> final.days,
        sources |-> IF final.days = {} THEN {} ELSE IF second THEN {"yfinance"} ELSE {"alpaca"},
        basis   |-> basis,
        error   |-> IF final.days # {} /\ ~final.error THEN FALSE
                    ELSE alpaca.error \/ (second /\ yahoo.error),
        flawed  |-> final.error]

(* _recover_us_daily_gaps: sessions seen for other symbols of the batch    *)
(* and missing here after its first one are asked of yfinance.             *)
GapsOf(r, days, observed) ==
    IF r.days = {} THEN {} ELSE {d \in days \cap observed : d >= Least(r.days)} \ r.days

Patched(r, yahoo) ==
    IF yahoo.days = {} /\ ~yahoo.error THEN r
    ELSE [r EXCEPT !.days = @ \cup yahoo.days,
                   !.sources = IF yahoo.days = {} THEN @ ELSE @ \cup {"yfinance"},
                   !.error = @ \/ yahoo.error, !.flawed = @ \/ yahoo.error]

Replacing == mode = "full" /\ ~retrying

Download(days, patching) ==
    \E alpaca \in {Alpaca(days, bars) : bars \in Answered(days)} :
    \E r \in {Route(alpaca, yahoo) : yahoo \in Answered(days)} :
      \/ ~patching /\ routed' = r
      \/ /\ patching
         /\ \E observed \in {r.days, days} :
              LET gaps == GapsOf(r, days, observed) IN
              IF gaps = {} THEN routed' = r
              ELSE \E yahoo \in [days : SUBSET gaps, error : BOOLEAN] : routed' = Patched(r, yahoo)

Fetch ==
    /\ pass = "fetch" /\ pass' = "fetched"
    /\ Download(requested, ~Replacing)
    /\ UNCHANGED <<session, basis, dailyRows, mode, retrying, requested, horizon, scaleVerdict, whole, syncs>>

ScaleChangedMostly ==
    LET overlap == Stored \cap routed.days
    IN Cardinality({d \in overlap : dailyRows[d] # routed.basis}) > ScaleMinDates

(* _has_adjustment_scale_change: enough leading dates of the overlap that  *)
(* agree on a new basis.                                                   *)
ScaleChanged ==
    LET overlap == Stored \cap routed.days
        leading == {d \in overlap : \A e \in overlap : e <= d => dailyRows[e] # routed.basis /\ dailyRows[e] = dailyRows[Least(overlap)]}
    IN Cardinality(routed.days) >= ScaleMinDates /\ Cardinality(leading) >= ScaleMinDates

Upgrades == mode = "incremental" /\ requested # horizon /\ routed.days # {} /\ ScaleChanged

(***************************************************************************)
(* _persist_daily_result                                                   *)
(***************************************************************************)
ReplaceHistory(r) == [d \in Sessions |-> IF d \in r.days THEN r.basis ELSE 0]
UpsertRows(r)  == [d \in Sessions |-> IF d \in r.days THEN r.basis ELSE dailyRows[d]]

Refused(replace) == replace /\ routed.error

Persist(replace, days) ==
    /\ pass' = "checked" /\ routed' = routed
    /\ \/ /\ Refused(replace) \/ routed.days = {}
          /\ scaleVerdict' = IF routed.error THEN "failed" ELSE "success"
          /\ UNCHANGED dailyRows
       \/ /\ ~Refused(replace) /\ routed.days # {}
          /\ dailyRows' = IF replace THEN ReplaceHistory(routed) ELSE UpsertRows(routed)
          /\ scaleVerdict' = IF ~replace /\ days \ routed.days # {} THEN "partial" ELSE "success"

PersistFetched ==
    /\ pass = "fetched" /\ ~Upgrades
    /\ Persist(Replacing, requested)
    /\ UNCHANGED <<session, basis, mode, retrying, requested, horizon, whole, syncs>>

(* The automatic full refresh, a download of its own.                      *)
Upgrade ==
    /\ pass = "fetched" /\ Upgrades /\ pass' = "refetched"
    /\ Download(horizon, FALSE)
    /\ UNCHANGED <<session, basis, dailyRows, mode, retrying, requested, horizon, scaleVerdict, whole, syncs>>

PersistRefresh ==
    /\ pass = "refetched"
    /\ Persist(TRUE, horizon)
    /\ UNCHANGED <<session, basis, mode, retrying, requested, horizon, whole, syncs>>

(* _retry_missing_daily: once, for a symbol without its last session, and  *)
(* then without replacing.                                                 *)
LastMissing == \E d \in horizon : d \notin Stored /\ \A e \in horizon : e <= d

RetryMissing ==
    /\ pass = "checked" /\ LastMissing /\ ~retrying
    /\ pass' = "fetch" /\ retrying' = TRUE
    /\ UNCHANGED <<session, basis, dailyRows, mode, requested, horizon, routed, scaleVerdict, whole, syncs>>

FinishSync ==
    /\ pass = "checked" /\ (retrying \/ ~LastMissing)
    /\ pass' = "idle" /\ routed' = NoDownload /\ requested' = {} /\ horizon' = {} /\ retrying' = FALSE
    /\ scaleVerdict' = IF LastMissing /\ scaleVerdict = "success" THEN "partial" ELSE scaleVerdict
    /\ UNCHANGED <<session, basis, dailyRows, mode, whole, syncs>>

SyncNext ==
    \/ NewSession \/ Adjust
    \/ \E m \in {"incremental", "full"} : StartSync(m)
    \/ Fetch \/ PersistFetched \/ Upgrade \/ PersistRefresh \/ RetryMissing \/ FinishSync

SyncSpec == SyncInit /\ [][SyncNext]_syncVars

(***************************************************************************)
(* Properties                                                              *)
(***************************************************************************)
(* docs/market-data-providers.md: the bars of one symbol never join two    *)
(* providers, whose bases may differ, whatever the gaps of the answers and *)
(* however often they are patched.                                         *)
OneProvider == Cardinality(routed.sources) <= 1

(* models.py: a full-history writer rejects a download with a sticky       *)
(* request failure.  A stored session disappears only by a replacement,    *)
(* and that comes from an answer without an error.                         *)
RowsLeaveCleanly == [][routed.flawed => Stored \subseteq Stored']_syncVars

(* With providers that answer with whole windows or not at all, a run that *)
(* ends well with bars leaves every row on the basis of its download: a    *)
(* change is noticed in the overlap however errors, refused refreshes and  *)
(* delayed retries fall before it.                                         *)
OneBasis ==
    [][ pass = "checked" /\ pass' = "idle" /\ whole /\ scaleVerdict' = "success" /\ routed.days # {}
          => \A d \in Stored : dailyRows[d] = routed.basis ]_syncVars

(* What is stored leaves only by a whole answer and has one basis, and no  *)
(* answer joins two providers.                                             *)
HistoryIsSound == RowsLeaveCleanly /\ OneBasis /\ []OneProvider

(* docs/market-data-providers.md:65: "阻止不完整全量响应覆盖旧库", an incomplete        *)
(* full answer does not overwrite the stored history.  The code refutes    *)
(* it: the delayed retry of a full synchronisation does not replace, so    *)
(* nothing refuses its answer, and nothing compares its basis.             *)
FlawedFullRefused ==
    [][mode = "full" /\ routed.flawed => \A d \in Stored : dailyRows'[d] = dailyRows[d]]_syncVars
=============================================================================
