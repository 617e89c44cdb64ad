--------------------------- MODULE StockStrategies ---------------------------
(***************************************************************************)
(* The simulated ledger of one stock strategy in one market.  Every run    *)
(* settles the sessions its ledger lacks, oldest first, each in one        *)
(* transaction that writes the state, the day and its successful attempt.  *)
(* A run holds an advisory lock, but a lost database session takes the     *)
(* lock away from a run that goes on: two runs may be at work.  The row    *)
(* lock of the state orders what they settle; an attempt that was no       *)
(* success is read and written later, under no lock at all.                *)
(***************************************************************************)
EXTENDS Integers, FiniteSets

CONSTANTS
    StrategyRuns, \* processes that run the job, by the schedule or by hand
    LastDay,      \* bound: sessions of the calendar
    MaxCatchup,   \* MAX_CATCHUP_DAYS
    MaxRunFaults  \* bound: killed runs, lost locks, errors, exhausted budgets

ASSUME StrategyAssumption ==
    {LastDay, MaxCatchup} \subseteq Nat \ {0} /\ MaxRunFaults \in Nat

Days == 1..LastDay

VARIABLES
    day,      \* the session that completed last, 0 for none yet
    ready,    \* sessions whose inputs are complete; 0 stands for the universe
    launched, \* StockStrategyLaunch.launch_date, 0 before there is one
    frozen,   \* the market's universe is kept in it
    state,    \* StockStrategyState: start_date and last_date, 0 for none
    ledger,   \* StockStrategyDay
    attempts, \* StockStrategyRun.status per session
    marketLock,     \* who holds the advisory lock
    at,       \* per run: where it is
    end,      \* the session it settles up to
    todo,     \* the sessions it has left
    previous, \* last_date of the state it read
    report,   \* the attempt it reports, and the status its row had when read
    unguarded,   \* history: sessions that a run without the lock settled or reported
    runFailures

strategyVars == <<day, ready, launched, frozen, state, ledger, attempts, marketLock,
                  at, end, todo, previous, report, unguarded, runFailures>>
runVars      == <<end, todo, previous, report>>
strategyRows == <<launched, frozen, state, ledger, attempts>>
strategyWorld == <<day, ready>>

Statuses == {"none", "waiting", "failed", "success"}
Reports  == [session : Days \cup {0}, status : Statuses \ {"success"}, seen : Statuses]
NoReport == [session |-> 0, status |-> "none", seen |-> "none"]

StrategyTypeOK ==
    /\ day \in Days \cup {0} /\ ready \subseteq Days \cup {0}
    /\ launched \in Days \cup {0} /\ frozen \in BOOLEAN
    /\ state \in [start : Days \cup {0}, last : Days \cup {0}]
    /\ ledger \subseteq Days
    /\ attempts \in [Days -> Statuses]
    /\ marketLock \subseteq StrategyRuns /\ Cardinality(marketLock) <= 1
    /\ at \in [StrategyRuns -> {"idle", "launch", "freeze", "begin", "load", "settle", "reread", "report", "write"}]
    /\ end \in [StrategyRuns -> Days \cup {0}] /\ todo \in [StrategyRuns -> SUBSET Days]
    /\ previous \in [StrategyRuns -> Days \cup {0}]
    /\ report \in [StrategyRuns -> Reports]
    /\ unguarded \subseteq Days /\ runFailures \in 0..MaxRunFaults

StrategyInit ==
    /\ day = 0 /\ ready = {}
    /\ launched = 0 /\ frozen = FALSE /\ state = [start |-> 0, last |-> 0] /\ ledger = {}
    /\ attempts = [d \in Days |-> "none"]
    /\ marketLock = {} /\ at = [r \in StrategyRuns |-> "idle"] /\ end = [r \in StrategyRuns |-> 0]
    /\ todo = [r \in StrategyRuns |-> {}] /\ previous = [r \in StrategyRuns |-> 0]
    /\ report = [r \in StrategyRuns |-> NoReport] /\ unguarded = {} /\ runFailures = 0

NextDay ==
    /\ day < LastDay /\ day' = day + 1
    /\ UNCHANGED <<ready, strategyRows, marketLock, at, runVars, unguarded, runFailures>>

InputsArrive(d) ==
    /\ day # 0 /\ d \in 0..day \ ready /\ ready' = ready \cup {d}
    /\ UNCHANGED <<day, strategyRows, marketLock, at, runVars, unguarded, runFailures>>

Fails == runFailures < MaxRunFaults /\ runFailures' = runFailures + 1

GoesTo(r, next) == at' = [at EXCEPT ![r] = next]

Forgets(r) ==
    /\ todo' = [todo EXCEPT ![r] = {}] /\ previous' = [previous EXCEPT ![r] = 0]
    /\ end' = [end EXCEPT ![r] = 0]

(* The run is over and releases what it holds.                             *)
RunEnds(r) ==
    /\ GoesTo(r, "idle") /\ marketLock' = marketLock \ {r}
    /\ Forgets(r) /\ report' = [report EXCEPT ![r] = NoReport]

(* Of a session that a run works on without the lock.                      *)
Witnessed(r, d) == unguarded' = IF r \in marketLock THEN unguarded ELSE unguarded \cup {d}

StartUnlocked(r) ==
    /\ day # 0 /\ at[r] = "idle"
    /\ marketLock' = marketLock \cup {r} /\ GoesTo(r, "launch") /\ end' = [end EXCEPT ![r] = day]
    /\ UNCHANGED <<strategyWorld, strategyRows, todo, previous, report, unguarded, runFailures>>

(* run: a market whose lock is taken is reported busy and left alone.      *)
StartStrategyRun(r) ==
    /\ day # 0 /\ at[r] = "idle" /\ marketLock = {}
    /\ marketLock' = {r} /\ GoesTo(r, "launch") /\ end' = [end EXCEPT ![r] = day]
    /\ UNCHANGED <<strategyWorld, strategyRows, todo, previous, report, unguarded, runFailures>>

(* launch, first transaction: the first run anchors the launch date.       *)
LaunchStrategies(r) ==
    /\ at[r] = "launch" /\ GoesTo(r, "freeze")
    /\ launched' = IF launched = 0 THEN end[r] ELSE launched
    /\ UNCHANGED <<strategyWorld, frozen, state, ledger, attempts, marketLock, runVars, unguarded, runFailures>>

(***************************************************************************)
(* attempt: in a transaction of its own, and under no lock, the row of the *)
(* attempt is read and then written.  A success is left alone, but only if *)
(* it is there to be read; a write changes the status if it is not the one *)
(* that was read; a row that another run has inserted meanwhile refuses a  *)
(* second one, which is an error.  Either way the strategy's run is over.  *)
(***************************************************************************)
ToReport(r, d, status) ==
    /\ GoesTo(r, "report") /\ UNCHANGED marketLock /\ Forgets(r)
    /\ report' = [report EXCEPT ![r] = [session |-> d, status |-> status, seen |-> "none"]]

ReadToWrite(r) ==
    /\ at[r] = "report"
    /\ GoesTo(r, "write")
    /\ report' = [report EXCEPT ![r].seen = attempts[report[r].session]]
    /\ UNCHANGED <<strategyWorld, strategyRows, marketLock, end, todo, previous, unguarded, runFailures>>

ReadAttempt(r) ==
    \/ at[r] = "report" /\ attempts[report[r].session] # "success" /\ ReadToWrite(r)
    \/ /\ at[r] = "report" /\ attempts[report[r].session] = "success" /\ RunEnds(r)
       /\ UNCHANGED <<strategyWorld, strategyRows, unguarded, runFailures>>

Takes(told) ==
    IF told.seen = "none" THEN attempts[told.session] = "none" ELSE told.seen # told.status

WriteAttempt(r) ==
    LET told == report[r] IN
    /\ at[r] = "write" /\ RunEnds(r)
    /\ attempts' = IF Takes(told) THEN [attempts EXCEPT ![told.session] = told.status] ELSE attempts
    /\ Witnessed(r, told.session)
    /\ UNCHANGED <<strategyWorld, launched, frozen, state, ledger, runFailures>>

Earliest(days) == CHOOSE d \in days : \A e \in days : d <= e
LastOfThem(n, days) == {d \in days : Cardinality({e \in days : e >= d}) <= n}
FirstOf(n, days) == {d \in days : Cardinality({e \in days : e <= d}) <= n}

(* launch, second transaction: the universe is frozen once.                *)
FreezeUniverse(r) ==
    /\ at[r] = "freeze"
    /\ \/ /\ frozen \/ 0 \in ready
          /\ frozen' = TRUE /\ GoesTo(r, "begin")
          /\ UNCHANGED <<marketLock, runVars>>
       \/ ~frozen /\ 0 \notin ready /\ ToReport(r, end[r], "waiting") /\ UNCHANGED frozen
    /\ UNCHANGED <<strategyWorld, launched, state, ledger, attempts, unguarded, runFailures>>

(* initialize, then state: the sessions it lacks, the oldest few.          *)
BeginMarket(r) ==
    LET lacking == {d \in launched..end[r] : d > state.last} IN
    /\ at[r] = "begin"
    /\ IF launched > end[r] \/ state.start # 0 THEN UNCHANGED state ELSE state' = [state EXCEPT !.start = launched]
    /\ IF lacking = {} THEN RunEnds(r)
       ELSE /\ GoesTo(r, "load")
            /\ todo' = [todo EXCEPT ![r] = FirstOf(MaxCatchup, lacking)]
            /\ previous' = [previous EXCEPT ![r] = state.last]
            /\ UNCHANGED <<marketLock, end, report>>
    /\ UNCHANGED <<strategyWorld, launched, frozen, ledger, attempts, unguarded, runFailures>>

(* A session whose inputs are not there, or fail, is reported.             *)
LoadInputs(r) ==
    /\ at[r] = "load"
    /\ \/ /\ Earliest(todo[r]) \in ready
          /\ GoesTo(r, "settle")
          /\ UNCHANGED <<marketLock, runVars, runFailures>>
       \/ Earliest(todo[r]) \notin ready /\ ToReport(r, Earliest(todo[r]), "waiting") /\ UNCHANGED runFailures
       \/ \E status \in {"waiting", "failed"} : ToReport(r, Earliest(todo[r]), status) /\ Fails  \* budget, error
    /\ UNCHANGED <<strategyWorld, strategyRows, unguarded>>

SessionSettled(r, next) ==
    LET rest == todo[r] \ {Earliest(todo[r])} IN
    IF next = "load" /\ rest = {} THEN RunEnds(r)
    ELSE /\ GoesTo(r, next) /\ todo' = [todo EXCEPT ![r] = rest]
         /\ UNCHANGED <<marketLock, end, previous, report>>

(***************************************************************************)
(* settle: the row is locked and read again.  A session another run has    *)
(* settled is left alone; a ledger that is not where this run saw it is an *)
(* error, and so is an attempt that another run has inserted meanwhile.    *)
(***************************************************************************)
Already(r)  == state.last >= Earliest(todo[r])
Unmoved(r)  == state.last = previous[r]

SettleDay(r) ==
    LET d == Earliest(todo[r]) IN
    /\ at[r] = "settle"
    /\ \/ Already(r) /\ SessionSettled(r, "load")
          /\ UNCHANGED <<state, ledger, attempts, unguarded, runFailures>>
       \/ ~Already(r) /\ ~Unmoved(r) /\ ToReport(r, d, "failed")
          /\ UNCHANGED <<state, ledger, attempts, unguarded, runFailures>>
       \/ /\ ~Already(r) /\ Unmoved(r)
          /\ state' = [state EXCEPT !.last = d] /\ ledger' = ledger \cup {d}
          /\ attempts' = [attempts EXCEPT ![d] = "success"] /\ Witnessed(r, d)
          /\ \/ SessionSettled(r, "reread") /\ UNCHANGED runFailures
             \/ ToReport(r, d, "failed") /\ Fails   \* the commit's answer is lost
       \/ /\ \E status \in {"waiting", "failed"} : ToReport(r, d, status) /\ Fails
          /\ UNCHANGED <<state, ledger, attempts, unguarded>>
    /\ UNCHANGED <<strategyWorld, launched, frozen>>

RereadState(r) ==
    /\ at[r] = "reread"
    /\ IF todo[r] = {} THEN RunEnds(r)
       ELSE /\ GoesTo(r, "load") /\ previous' = [previous EXCEPT ![r] = state.last]
            /\ UNCHANGED <<marketLock, end, todo, report>>
    /\ UNCHANGED <<strategyWorld, strategyRows, unguarded, runFailures>>

(* Killed, or its database session ends and with it the lock.              *)
KillRun(r) ==
    /\ at[r] # "idle" /\ RunEnds(r) /\ Fails
    /\ UNCHANGED <<strategyWorld, strategyRows, unguarded>>

LoseLock(r) ==
    /\ r \in marketLock /\ marketLock' = {} /\ Fails
    /\ UNCHANGED <<strategyWorld, strategyRows, at, runVars, unguarded>>

RunStep(r) ==
    \/ LaunchStrategies(r) \/ FreezeUniverse(r) \/ BeginMarket(r)
    \/ LoadInputs(r) \/ SettleDay(r) \/ RereadState(r) \/ ReadAttempt(r) \/ WriteAttempt(r)

StrategyNext ==
    \/ NextDay \/ \E d \in Days \cup {0} : InputsArrive(d)
    \/ \E r \in StrategyRuns : StartStrategyRun(r) \/ RunStep(r) \/ KillRun(r) \/ LoseLock(r)

StrategySpec == StrategyInit /\ [][StrategyNext]_strategyVars

(* A process that runs goes on, the schedule comes round again, and inputs *)
(* are complete in the end.                                                *)
StrategyFairness ==
    /\ \A r \in StrategyRuns : WF_strategyVars(RunStep(r))
    /\ WF_strategyVars(\E r \in StrategyRuns : StartStrategyRun(r))
    /\ WF_strategyVars(\E d \in Days \cup {0} : InputsArrive(d))

StrategyFairSpec == StrategySpec /\ StrategyFairness

(***************************************************************************)
(* Properties                                                              *)
(***************************************************************************)
(* repository.settle, "Never skip a session; state, ledger, metrics and    *)
(* success share one commit": whichever runs overlap and wherever they     *)
(* break, the ledger is every session from the launch to the last one      *)
(* settled.  No other attempt is a success, and theirs are, but for those  *)
(* that a run which had lost the lock settled or reported.                 *)
LedgerIsWhole ==
    /\ ledger = IF state.last = 0 THEN {} ELSE state.start..state.last
    /\ \A d \in Days : attempts[d] = "success" => d \in ledger
    /\ \A d \in ledger \ unguarded : attempts[d] = "success"

(* Again and again every session from the launch on is settled: missed     *)
(* runs, late inputs and errors only delay it.                             *)
EverySessionSettles == []<>(launched # 0 => launched..day \subseteq ledger)
=============================================================================
