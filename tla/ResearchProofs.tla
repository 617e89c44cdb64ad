--------------------------- MODULE ResearchProofs ----------------------------
(***************************************************************************)
(* What the research jobs of a day keep, for any number of processes,      *)
(* sessions, sources, buckets and calendars: the simulated ledger of a     *)
(* stock strategy has no gap, the signal of a market and day is one, the   *)
(* stages of an earnings outlook advance.  For each: what its property     *)
(* rests on, a lemma per step, the theorem.                                *)
(***************************************************************************)
EXTENDS MCResearch, FiniteSetTheorems, TLAPS

-----------------------------------------------------------------------------
(* StockStrategies                                                         *)

RunPlaces == {"idle", "launch", "freeze", "begin", "load", "settle", "reread", "report", "write"}

RunTypes ==
    /\ at \in [StrategyRuns -> RunPlaces] /\ end \in [StrategyRuns -> Days \cup {0}]
    /\ todo \in [StrategyRuns -> SUBSET Days] /\ previous \in [StrategyRuns -> Days \cup {0}]
    /\ report \in [StrategyRuns -> Reports]

(* The first session a run has left.  While the ledger is where the run    *)
(* saw it, that session is the next one of the ledger.                     *)
Owes(r, lo) ==
    /\ launched # 0 /\ launched <= lo /\ state.start = launched
    /\ at[r] \in {"load", "settle"} =>
         /\ previous[r] <= state.last
         /\ previous[r] = state.last => lo <= state.last + 1 \/ lo = launched
    /\ at[r] = "reread" => lo <= state.last + 1

(* An attempt that is written over what was read: a session that is in the *)
(* ledger by then was settled without the lock, if this run has it still.  *)
WritesFairly(r) ==
    /\ at[r] \in {"report", "write"} => report[r].session \in Days /\ report[r].status \in {"waiting", "failed"}
    /\ at[r] = "write" /\ r \in marketLock /\ report[r].session \in ledger => report[r].session \in unguarded

RunSound(r) ==
    /\ at[r] \notin {"idle", "report", "write"} => end[r] # 0
    /\ at[r] \notin {"idle", "launch"} => launched # 0
    /\ at[r] \in {"load", "settle"} => todo[r] # {}
    /\ todo[r] # {} => \E lo, hi \in Days : lo <= hi /\ todo[r] = lo .. hi /\ Owes(r, lo)
    /\ WritesFairly(r)

MarketHeld == marketLock = {} \/ \E r \in StrategyRuns : marketLock = {r}

Anchored ==
    /\ state.start # 0 => state.start = launched
    /\ state.last # 0 => state.start # 0 /\ state.start <= state.last

StrategyInv ==
    /\ StrategyTypeOK /\ MarketHeld /\ Anchored /\ LedgerIsWhole
    /\ \A r \in StrategyRuns : RunSound(r)

(* Nothing of the other runs changes.                                      *)
OthersStay(r) ==
    \A q \in StrategyRuns \ {r} :
      /\ at'[q] = at[q] /\ end'[q] = end[q] /\ todo'[q] = todo[q]
      /\ previous'[q] = previous[q] /\ report'[q] = report[q]

(* A session enters the ledger only by a run that has the lock, or is seen *)
(* to have been settled without it.                                        *)
LocksHonoured(r) ==
    /\ marketLock' \subseteq marketLock \cup {r} /\ unguarded \subseteq unguarded'
    /\ r \notin marketLock => ledger' \subseteq ledger \cup unguarded'

(* Intervals of sessions.                                                  *)

LEMMA EarliestIsFirst ==
    ASSUME NEW lo \in Int, NEW hi \in Int, lo <= hi
    PROVE  Earliest(lo .. hi) = lo
  <1>1. lo \in lo .. hi /\ \A e \in lo .. hi : lo <= e
        OBVIOUS
  <1>2. \A d \in lo .. hi : (\A e \in lo .. hi : d <= e) => d = lo
        BY <1>1
  <1> QED BY <1>1, <1>2 DEF Earliest

LEMMA FirstOfInterval ==
    ASSUME NEW n \in Nat \ {0}, NEW lo \in Nat, NEW hi \in Nat, lo <= hi
    PROVE  \E last \in lo .. hi : FirstOf(n, lo .. hi) = lo .. last
  <1>1. \A d \in lo .. hi : Cardinality({e \in lo .. hi : e <= d}) = d - lo + 1
    <2> TAKE d \in lo .. hi
    <2>1. {e \in lo .. hi : e <= d} = lo .. d
          OBVIOUS
    <2>2. Cardinality(lo .. d) = d - lo + 1
          BY FS_Interval
    <2> QED BY <2>1, <2>2
  <1>2. FirstOf(n, lo .. hi) = {d \in lo .. hi : d - lo + 1 <= n}
        BY <1>1 DEF FirstOf
  <1>3. CASE hi - lo + 1 <= n
    <2>1. \A d \in lo .. hi : d - lo + 1 <= n
          BY <1>3
    <2>2. FirstOf(n, lo .. hi) = lo .. hi
          BY <1>2, <2>1
    <2> QED BY <2>2
  <1>4. CASE ~(hi - lo + 1 <= n)
    <2> DEFINE last == lo + n - 1
    <2>1. last \in lo .. hi /\ \A d \in lo .. hi : d - lo + 1 <= n <=> d <= last
          BY <1>4
    <2> HIDE DEF last
    <2>2. \A d : d \in lo .. last <=> d \in lo .. hi /\ d <= last
          BY <2>1
    <2>3. \A d : d \in FirstOf(n, lo .. hi) <=> d \in lo .. hi /\ d <= last
          BY <1>2, <2>1
    <2>4. FirstOf(n, lo .. hi) = lo .. last
          BY <2>2, <2>3
    <2> QED BY <2>1, <2>4
  <1> QED BY <1>3, <1>4

LEMMA LaterPart ==
    ASSUME NEW from \in Nat, NEW to \in Nat, NEW last \in Nat
    PROVE  LET lo == IF last + 1 > from THEN last + 1 ELSE from IN
           {d \in from .. to : d > last} = lo .. to
  <1>1. CASE last + 1 > from
        BY <1>1
  <1>2. CASE ~(last + 1 > from)
        BY <1>2
  <1> QED BY <1>1, <1>2

---------------------------------------------------------------------------
(* What does not touch a run leaves it sound.                              *)

LEMMA RunUntouched ==
    ASSUME NEW r \in StrategyRuns, StrategyTypeOK, StrategyTypeOK', RunSound(r),
           at'[r] = at[r], end'[r] = end[r], todo'[r] = todo[r], previous'[r] = previous[r],
           report'[r] = report[r],
           launched # 0 => launched' = launched,
           state.start # 0 => state'.start = state.start, state.last <= state'.last,
           unguarded \subseteq unguarded',
           r \in marketLock' => r \in marketLock /\ ledger' \subseteq ledger \cup unguarded'
    PROVE  RunSound(r)'
  <1>1. /\ launched \in Nat /\ launched' \in Nat /\ previous[r] \in Nat /\ Days \subseteq Nat
        /\ state.last \in Nat /\ state'.last \in Nat /\ state.start \in Nat /\ state'.start \in Nat
        BY SMTT(60), StrategyAssumption DEF StrategyTypeOK, Days
  <1>2. ASSUME NEW lo \in Days, Owes(r, lo) PROVE Owes(r, lo)'
    <2>1. lo \in Nat /\ at'[r] = at[r] /\ previous'[r] = previous[r]
          BY <1>1
    <2>2. launched' = launched /\ state'.start = launched /\ launched # 0 /\ launched <= lo
          BY <1>2 DEF Owes
    <2>3. at[r] \in {"load", "settle"} =>
            /\ previous[r] <= state'.last
            /\ previous[r] = state'.last => lo <= state'.last + 1 \/ lo = launched
          BY <1>1, <1>2, <2>1 DEF Owes
    <2>4. at[r] = "reread" => lo <= state'.last + 1
          BY <1>1, <1>2, <2>1 DEF Owes
    <2> QED BY <2>1, <2>2, <2>3, <2>4 DEF Owes
  <1>3. WritesFairly(r)'
        BY DEF RunSound, WritesFairly
  <1> QED BY <1>2, <1>3 DEF RunSound

LEMMA HolderIsTyped ==
    ASSUME NEW S, S = {} \/ \E r \in StrategyRuns : S = {r}
    PROVE  S \subseteq StrategyRuns /\ Cardinality(S) <= 1
  <1>1. Cardinality({}) = 0 /\ \A r \in StrategyRuns : Cardinality({r}) = 1
        BY FS_EmptySet, FS_Singleton
  <1> QED BY <1>1

(* The rest of a step in which r alone moves.                              *)
LEMMA OneRunMoves ==
    ASSUME StrategyInv, NEW r \in StrategyRuns, RunSound(r)', MarketHeld', Anchored', LedgerIsWhole',
           RunTypes', OthersStay(r), LocksHonoured(r),
           day' \in Days \cup {0}, ready' \subseteq Days \cup {0},
           launched' \in Days \cup {0}, launched # 0 => launched' = launched,
           frozen' \in BOOLEAN, state' \in [start : Days \cup {0}, last : Days \cup {0}],
           state.start # 0 => state'.start = state.start, state.last <= state'.last,
           ledger' \subseteq Days, attempts' \in [Days -> Statuses],
           unguarded' \subseteq Days, runFailures' \in 0 .. MaxRunFaults
    PROVE  StrategyInv'
  <1>1. marketLock' \subseteq StrategyRuns /\ Cardinality(marketLock') <= 1
    <2>1. marketLock' = {} \/ \E q \in StrategyRuns : marketLock' = {q}
          BY DEF MarketHeld
    <2> QED BY <2>1, HolderIsTyped
  <1>2. StrategyTypeOK'
        BY <1>1 DEF StrategyTypeOK, RunTypes, RunPlaces
  <1>3. ASSUME NEW q \in StrategyRuns \ {r} PROVE RunSound(q)'
    <2>1. q \in marketLock' => q \in marketLock /\ ledger' \subseteq ledger \cup unguarded'
          BY DEF LocksHonoured, StrategyInv, MarketHeld
    <2>2. StrategyTypeOK /\ RunSound(q) /\ unguarded \subseteq unguarded'
          BY DEF StrategyInv, LocksHonoured
    <2>3. /\ at'[q] = at[q] /\ end'[q] = end[q] /\ todo'[q] = todo[q]
          /\ previous'[q] = previous[q] /\ report'[q] = report[q]
          BY DEF OthersStay
    <2> QED BY <1>2, <2>1, <2>2, <2>3, RunUntouched
  <1> QED BY <1>2, <1>3 DEF StrategyInv

(* A step that changes no row, but for the freezing of the universe.       *)
LEMMA RowsStay ==
    ASSUME StrategyInv, NEW r \in StrategyRuns, RunSound(r)', MarketHeld', RunTypes', OthersStay(r),
           marketLock' \subseteq marketLock \cup {r}, frozen' \in BOOLEAN, runFailures' \in 0 .. MaxRunFaults,
           UNCHANGED <<strategyWorld, launched, state, ledger, attempts, unguarded>>
    PROVE  StrategyInv'
  <1> USE DEF StrategyInv, StrategyTypeOK, strategyWorld
  <1>1. Anchored' /\ LedgerIsWhole' /\ LocksHonoured(r)
        BY DEF Anchored, LedgerIsWhole, LocksHonoured
  <1>2. state.last <= state'.last
        BY StrategyAssumption DEF Days
  <1> QED BY <1>1, <1>2, OneRunMoves

LEMMA NoReportIsTyped == NoReport \in Reports
  BY Zenon DEF NoReport, Reports, Statuses

LEMMA RunOver ==
    ASSUME StrategyInv, NEW r \in StrategyRuns, RunEnds(r)
    PROVE  RunSound(r)' /\ MarketHeld' /\ RunTypes' /\ OthersStay(r) /\ marketLock' \subseteq marketLock
  <1>1. at'[r] = "idle" /\ todo'[r] = {}
        BY DEF RunEnds, Forgets, GoesTo, StrategyInv, StrategyTypeOK
  <1>2. RunSound(r)' /\ MarketHeld'
        BY <1>1 DEF RunEnds, StrategyInv, RunSound, MarketHeld, WritesFairly
  <1>3. /\ at' = [at EXCEPT ![r] = "idle"] /\ end' = [end EXCEPT ![r] = 0]
        /\ todo' = [todo EXCEPT ![r] = {}] /\ previous' = [previous EXCEPT ![r] = 0]
        /\ report' = [report EXCEPT ![r] = NoReport]
        BY DEF RunEnds, Forgets, GoesTo
  <1>4. RunTypes' /\ OthersStay(r)
        BY <1>3, NoReportIsTyped DEF StrategyInv, StrategyTypeOK, RunTypes, RunPlaces, OthersStay
  <1> QED BY <1>2, <1>4 DEF RunEnds

LEMMA ReportIsTyped ==
    ASSUME NEW d \in Days, NEW status \in {"waiting", "failed"}, NEW seen \in Statuses
    PROVE  [session |-> d, status |-> status, seen |-> seen] \in Reports
  <1>1. d \in Days \cup {0} /\ status \in Statuses \ {"success"}
        BY DEF Statuses
  <1> QED BY <1>1, Zenon DEF Reports

(* A run that stops at a session goes on to report it.                     *)
LEMMA StopsToReport ==
    ASSUME StrategyInv, NEW r \in StrategyRuns, launched' = launched, launched # 0,
           NEW d \in Days, NEW status \in {"waiting", "failed"}, ToReport(r, d, status)
    PROVE  /\ RunSound(r)' /\ MarketHeld' /\ RunTypes' /\ OthersStay(r)
           /\ marketLock' \subseteq marketLock
  <1>1. /\ at' = [at EXCEPT ![r] = "report"] /\ end' = [end EXCEPT ![r] = 0]
        /\ todo' = [todo EXCEPT ![r] = {}] /\ previous' = [previous EXCEPT ![r] = 0]
        /\ report' = [report EXCEPT ![r] = [session |-> d, status |-> status, seen |-> "none"]]
        /\ marketLock' = marketLock
        BY DEF ToReport, Forgets, GoesTo
  <1>2. [session |-> d, status |-> status, seen |-> "none"] \in Reports
        BY ReportIsTyped DEF Statuses
  <1>3. RunTypes' /\ OthersStay(r)
        BY <1>1, <1>2 DEF StrategyInv, StrategyTypeOK, RunTypes, RunPlaces, OthersStay
  <1>4. at'[r] = "report" /\ todo'[r] = {} /\ report'[r].session = d /\ report'[r].status = status
        BY <1>1 DEF StrategyInv, StrategyTypeOK
  <1>5. RunSound(r)'
        BY <1>4 DEF RunSound, WritesFairly
  <1> QED BY <1>1, <1>3, <1>5 DEF StrategyInv, MarketHeld

(* A step that only moves r within its run.                                *)
LEMMA MovesOn ==
    ASSUME StrategyInv, NEW r \in StrategyRuns, NEW to \in RunPlaces, at' = [at EXCEPT ![r] = to],
           NEW days \in SUBSET Days, todo' \in {todo, [todo EXCEPT ![r] = days]},
           NEW last \in Days \cup {0}, previous' \in {previous, [previous EXCEPT ![r] = last]},
           UNCHANGED <<end, report>>
    PROVE  RunTypes' /\ OthersStay(r) /\ at'[r] = to
  BY DEF StrategyInv, StrategyTypeOK, RunTypes, RunPlaces, OthersStay

LEMMA StrategyStarts == StrategyInit => StrategyInv
  <1> SUFFICES ASSUME StrategyInit PROVE StrategyInv
      OBVIOUS
  <1> USE StrategyAssumption DEF StrategyInit
  <1>1. marketLock \subseteq StrategyRuns /\ Cardinality(marketLock) <= 1
        BY HolderIsTyped
  <1>2. StrategyTypeOK
    <2>1. state \in [start : Days \cup {0}, last : Days \cup {0}]
          BY DEF Days
    <2>2. attempts \in [Days -> Statuses]
          BY DEF Statuses
    <2>3. day \in Days \cup {0} /\ ready \subseteq Days \cup {0} /\ launched \in Days \cup {0}
          /\ frozen \in BOOLEAN /\ ledger \subseteq Days /\ unguarded \subseteq Days
          OBVIOUS
    <2>4. MaxRunFaults \in Nat /\ runFailures = 0
          OBVIOUS
    <2>5. runFailures \in 0 .. MaxRunFaults
          BY <2>4
    <2>6. RunTypes
          BY NoReportIsTyped DEF RunTypes, RunPlaces
    <2> QED BY <1>1, <2>1, <2>2, <2>3, <2>5, <2>6 DEF StrategyTypeOK, RunTypes, RunPlaces
  <1>3. MarketHeld /\ Anchored /\ LedgerIsWhole
        BY DEF MarketHeld, Anchored, LedgerIsWhole
  <1>4. \A r \in StrategyRuns : RunSound(r)
        BY DEF RunSound, WritesFairly
  <1> QED BY <1>2, <1>3, <1>4 DEF StrategyInv

---------------------------------------------------------------------------
(* One lemma per step of a run.                                            *)

(* What is known of the numbers.                                           *)
LEMMA Numbers ==
    ASSUME StrategyInv
    PROVE  /\ Days \subseteq Nat /\ 0 \notin Days /\ LastDay \in Nat /\ MaxCatchup \in Nat \ {0}
           /\ state.last \in Nat /\ state.start \in Nat /\ day \in Days \cup {0} /\ launched \in Days \cup {0}
           /\ state \in [start : Days \cup {0}, last : Days \cup {0}]
           /\ runFailures \in 0 .. MaxRunFaults /\ (Fails => runFailures' \in 0 .. MaxRunFaults)
  BY StrategyAssumption DEF StrategyInv, StrategyTypeOK, Days, Fails

(* A run that stops or reports: no row but its attempt's is concerned.     *)
LEMMA EndKeeps ==
    ASSUME StrategyInv, NEW r \in StrategyRuns, RunEnds(r), runFailures' \in 0 .. MaxRunFaults,
           UNCHANGED <<strategyWorld, strategyRows, unguarded>>
    PROVE  StrategyInv'
  <1>1. frozen' \in BOOLEAN /\ UNCHANGED <<strategyWorld, launched, state, ledger, attempts, unguarded>>
        BY DEF strategyRows, StrategyInv, StrategyTypeOK
  <1> QED BY <1>1, RunOver, RowsStay

LEMMA StopKeeps ==
    ASSUME StrategyInv, NEW r \in StrategyRuns, at[r] \notin {"idle", "launch"},
           NEW d \in Days, NEW status \in {"waiting", "failed"},
           ToReport(r, d, status), runFailures' \in 0 .. MaxRunFaults, frozen' \in BOOLEAN,
           UNCHANGED <<strategyWorld, launched, state, ledger, attempts, unguarded>>
    PROVE  StrategyInv'
  <1>1. launched # 0
        BY DEF StrategyInv, RunSound
  <1> QED BY <1>1, StopsToReport, RowsStay

LEMMA BeginKeeps ==
    ASSUME StrategyInv, NEW r \in StrategyRuns, BeginMarket(r)
    PROVE  StrategyInv'
  <1> DEFINE lacking == {d \in launched..end[r] : d > state.last}
  <1>0. /\ launched \in Days /\ end[r] \in Days /\ state.last \in Nat /\ state.start \in Nat
        /\ Days \subseteq Nat /\ 0 \notin Days /\ MaxCatchup \in Nat \ {0}
        /\ state \in [start : Days \cup {0}, last : Days \cup {0}]
        BY StrategyAssumption DEF BeginMarket, StrategyInv, StrategyTypeOK, RunSound, Days
  <1>1. /\ state' = IF launched > end[r] \/ state.start # 0 THEN state
                    ELSE [state EXCEPT !.start = launched]
        /\ UNCHANGED <<strategyWorld, launched, frozen, ledger, attempts, unguarded, runFailures>>
        BY DEF BeginMarket
  <1>2. /\ state'.last = state.last /\ (state.start # 0 => state'.start = state.start)
        /\ (launched <= end[r] => state'.start = launched)
        /\ state'.start \in {state.start, launched}
        /\ state' \in [start : Days \cup {0}, last : Days \cup {0}]
        BY <1>0, <1>1 DEF StrategyInv, Anchored
  <1>3. Anchored' /\ LedgerIsWhole'
    <2>1. state.last # 0 => state'.start = state.start
          BY <1>2 DEF StrategyInv, Anchored
    <2> QED BY <1>0, <1>1, <1>2, <2>1 DEF StrategyInv, Anchored, LedgerIsWhole
  <1>4. /\ day' \in Days \cup {0} /\ ready' \subseteq Days \cup {0}
        /\ launched' \in Days \cup {0} /\ (launched # 0 => launched' = launched)
        /\ frozen' \in BOOLEAN /\ ledger' \subseteq Days /\ attempts' \in [Days -> Statuses]
        /\ unguarded' \subseteq Days /\ runFailures' \in 0 .. MaxRunFaults /\ state.last <= state'.last
        BY <1>0, <1>1, <1>2 DEF strategyWorld, StrategyInv, StrategyTypeOK
  (* There is nothing to settle.                                           *)
  <1>5. CASE lacking = {}
    <2>1. RunEnds(r)
          BY <1>5 DEF BeginMarket
    <2>2. LocksHonoured(r)
          BY <1>1, <2>1, RunOver DEF LocksHonoured
    <2> QED BY <1>2, <1>3, <1>4, <2>1, <2>2, RunOver, OneRunMoves
  <1>6. CASE lacking # {}
    <2>0. PICK lo \in Nat : lo = IF state.last + 1 > launched THEN state.last + 1 ELSE launched
          BY <1>0
    <2>1. /\ at' = [at EXCEPT ![r] = "load"] /\ previous' = [previous EXCEPT ![r] = state.last]
          /\ todo' = [todo EXCEPT ![r] = FirstOf(MaxCatchup, lacking)]
          /\ UNCHANGED <<marketLock, end, report>>
          BY <1>6 DEF BeginMarket, GoesTo
    <2>2. lacking = lo .. end[r] /\ lo \in Days /\ lo <= end[r] /\ launched <= end[r]
      <3>1. lacking = lo .. end[r]
            BY <1>0, <2>0, LaterPart
      <3>2. PICK d : d \in lo .. end[r]
            BY <1>6, <3>1
      <3>3. lo <= end[r] /\ launched <= lo
        <4>1. launched \in Nat /\ end[r] \in Nat /\ state.last \in Nat
              BY <1>0
        <4>2. lo >= launched
              BY <2>0, <4>1
        <4> QED BY <3>2, <4>1, <4>2
      <3> QED BY <1>0, <2>0, <3>1, <3>3, StrategyAssumption DEF Days
    <2>3. PICK last \in lo .. end[r] : FirstOf(MaxCatchup, lacking) = lo .. last
      <3>1. lo \in Nat /\ end[r] \in Nat /\ MaxCatchup \in Nat \ {0} /\ lo <= end[r]
            BY <1>0, <2>2
      <3>2. \E last \in lo .. end[r] : FirstOf(MaxCatchup, lo .. end[r]) = lo .. last
            BY <3>1, FirstOfInterval
      <3> QED BY <2>2, <3>2
    <2>4. last \in Days /\ lo .. last \in SUBSET Days /\ lo <= last /\ lo \in lo .. last
      BY <1>0, <2>2, <2>3, StrategyAssumption DEF Days
    <2>5. at'[r] = "load" /\ previous'[r] = state.last /\ todo'[r] = lo .. last
          BY <2>1, <2>3 DEF StrategyInv, StrategyTypeOK
    <2>6. Owes(r, lo)'
          BY <1>0, <1>1, <1>2, <2>0, <2>2, <2>5 DEF Owes
    <2>7. RunSound(r)'
      <3>1. todo'[r] # {} /\ end'[r] # 0 /\ launched' # 0
            BY <1>0, <1>1, <2>1, <2>4, <2>5
      <3>2. lo <= last /\ todo'[r] = lo .. last /\ Owes(r, lo)' /\ WritesFairly(r)'
            BY <2>4, <2>5, <2>6 DEF WritesFairly
      <3> QED BY <2>2, <2>4, <2>5, <3>1, <3>2 DEF RunSound
    <2>8. MarketHeld' /\ LocksHonoured(r)
          BY <1>1, <2>1 DEF StrategyInv, MarketHeld, LocksHonoured
    <2>9. todo' = [todo EXCEPT ![r] = lo .. last] /\ state.last \in Days \cup {0}
          BY <1>0, <2>1, <2>3
    <2>10. RunTypes' /\ OthersStay(r)
           BY ZenonT(60), <2>1, <2>4, <2>9, MovesOn DEF RunPlaces
    <2> QED BY <1>2, <1>3, <1>4, <2>7, <2>8, <2>10, OneRunMoves
  <1> QED BY <1>5, <1>6

LEMMA FirstOwed ==
    ASSUME StrategyInv, NEW r \in StrategyRuns, todo[r] # {}
    PROVE  \E lo, hi \in Days :
             /\ lo <= hi /\ todo[r] = lo .. hi /\ Earliest(todo[r]) = lo /\ Owes(r, lo)
             /\ todo[r] \ {lo} = lo + 1 .. hi
  <1>1. PICK lo \in Days, hi \in Days : lo <= hi /\ todo[r] = lo .. hi /\ Owes(r, lo)
        BY DEF StrategyInv, RunSound
  <1>2. lo \in Int /\ hi \in Int
        BY StrategyAssumption DEF Days
  <1>3. Earliest(todo[r]) = lo
        BY <1>1, <1>2, EarliestIsFirst
  <1>4. todo[r] \ {lo} = lo + 1 .. hi
        BY <1>1, <1>2
  <1> QED BY <1>1, <1>3, <1>4

LEMMA SettleKeeps ==
    ASSUME StrategyInv, NEW r \in StrategyRuns, SettleDay(r)
    PROVE  StrategyInv'
  <1>1. at[r] = "settle" /\ todo[r] # {} /\ UNCHANGED <<strategyWorld, launched, frozen>> /\ launched # 0
        BY DEF SettleDay, StrategyInv, RunSound
  <1>2. PICK lo \in Days, hi \in Days :
          /\ lo <= hi /\ todo[r] = lo .. hi /\ Earliest(todo[r]) = lo /\ Owes(r, lo)
          /\ todo[r] \ {lo} = lo + 1 .. hi
        BY <1>1, FirstOwed
  <1>3. /\ launched \in Days /\ state.start = launched /\ launched <= lo
        /\ previous[r] <= state.last
        /\ previous[r] = state.last => lo <= state.last + 1 \/ lo = launched
        BY <1>1, <1>2 DEF Owes, StrategyInv, StrategyTypeOK
  <1>4. /\ Days \subseteq Nat /\ 0 \notin Days /\ state.last \in Nat /\ state.start \in Nat
        /\ previous[r] \in Nat /\ runFailures \in 0 .. MaxRunFaults
        /\ state \in [start : Days \cup {0}, last : Days \cup {0}]
        BY StrategyAssumption DEF StrategyInv, StrategyTypeOK, Days
  <1>5. /\ day' \in Days \cup {0} /\ ready' \subseteq Days \cup {0} /\ frozen' \in BOOLEAN
        /\ launched' \in Days \cup {0} /\ launched' = launched
        BY <1>1 DEF strategyWorld, StrategyInv, StrategyTypeOK
  <1>6. lo + 1 .. hi \in SUBSET Days
        BY <1>4, StrategyAssumption DEF Days
  (* Another run has settled it.                                           *)
  <1>7. CASE Already(r) /\ SessionSettled(r, "load") /\ UNCHANGED <<state, ledger, attempts, unguarded, runFailures>>
    <2>1. state.last >= lo
          BY <1>2, <1>7 DEF Already
    <2>2. CASE todo[r] \ {lo} = {}
      <3>1. RunEnds(r)
            BY <1>2, <1>7, <2>2 DEF SessionSettled
      <3> QED BY <1>1, <1>4, <1>7, <3>1, EndKeeps DEF strategyRows
    <2>3. CASE todo[r] \ {lo} # {}
      <3>1. /\ at' = [at EXCEPT ![r] = "load"] /\ todo' = [todo EXCEPT ![r] = lo + 1 .. hi]
            /\ UNCHANGED <<marketLock, end, previous, report>>
            BY <1>2, <1>7, <2>3 DEF SessionSettled, GoesTo
      <3>2. lo + 1 \in Days /\ lo + 1 <= hi
        <4>1. PICK d : d \in lo + 1 .. hi
              BY <1>2, <2>3
        <4> QED BY <1>4, <4>1, StrategyAssumption DEF Days
      <3>3. at'[r] = "load" /\ todo'[r] = lo + 1 .. hi
            BY <3>1 DEF StrategyInv, StrategyTypeOK
      <3>4. Owes(r, lo + 1)'
            BY <1>1, <1>3, <1>4, <1>7, <2>1, <3>1, <3>3 DEF Owes
      <3>5. RunSound(r)'
        <4>1. end'[r] # 0 /\ launched' # 0 /\ todo'[r] # {}
              BY <1>1, <1>2, <2>3, <3>1, <3>3 DEF StrategyInv, RunSound
        <4>2. WritesFairly(r)'
              BY <3>3 DEF WritesFairly
        <4> QED BY <1>2, <3>2, <3>3, <3>4, <4>1, <4>2 DEF RunSound
      <3>6. RunTypes' /\ OthersStay(r)
            BY <1>6, <3>1, MovesOn DEF RunPlaces
      <3>7. MarketHeld' /\ marketLock' \subseteq marketLock \cup {r}
            BY <3>1 DEF StrategyInv, MarketHeld
      <3> QED BY <1>1, <1>4, <1>5, <1>7, <3>5, <3>6, <3>7, RowsStay
    <2> QED BY <2>2, <2>3
  (* It stops: the ledger moved, or an error.                              *)
  <1>8. ASSUME NEW status \in {"waiting", "failed"}, ToReport(r, lo, status),
               UNCHANGED <<state, ledger, attempts, unguarded>>, Fails \/ UNCHANGED runFailures
        PROVE  StrategyInv'
        BY <1>1, <1>5, <1>8, Numbers, StopKeeps
  (* It settles the session.                                               *)
  <1>9. ASSUME ~Already(r), Unmoved(r), state' = [state EXCEPT !.last = lo],
               ledger' = ledger \cup {lo}, attempts' = [attempts EXCEPT ![lo] = "success"], Witnessed(r, lo),
               \/ SessionSettled(r, "reread") /\ UNCHANGED runFailures
               \/ ToReport(r, lo, "failed") /\ Fails
        PROVE  StrategyInv'
    <2>1. state.last < lo /\ (lo <= state.last + 1 \/ lo = launched)
          BY <1>2, <1>3, <1>4, <1>9 DEF Already, Unmoved
    <2>2. state'.last = lo /\ state'.start = launched
          /\ state' \in [start : Days \cup {0}, last : Days \cup {0}]
          BY <1>3, <1>4, <1>9
    <2>3. Anchored' /\ state.last <= state'.last
          BY <1>1, <1>3, <1>4, <2>1, <2>2 DEF Anchored
    <2>4. /\ unguarded \subseteq unguarded' /\ unguarded' \subseteq Days
          /\ r \notin marketLock => ledger' \subseteq ledger \cup unguarded'
          BY <1>9 DEF Witnessed, StrategyInv, StrategyTypeOK
    (* The next session, and the first one when there was none.            *)
    <2>5. LedgerIsWhole'
      <3>1. ledger' = launched .. lo
        <4>1. CASE state.last = 0
          <5>1. ledger = {} /\ lo = launched
                BY <1>3, <1>4, <2>1, <4>1 DEF StrategyInv, LedgerIsWhole
          <5> QED BY <1>4, <1>9, <5>1
        <4>2. CASE state.last # 0
          <5>1. ledger = launched .. state.last /\ launched <= state.last
                BY <1>3, <4>2 DEF StrategyInv, LedgerIsWhole, Anchored
          <5>2. lo = state.last + 1
                BY <1>3, <1>4, <2>1, <5>1
          <5>3. launched \in Int /\ state.last \in Int
                BY <1>3, <1>4
          <5>4. launched .. (state.last + 1) = (launched .. state.last) \cup {state.last + 1}
                BY <5>1, <5>3
          <5> QED BY <1>9, <5>1, <5>2, <5>4
        <4> QED BY <4>1, <4>2
      <3>2. /\ \A d \in Days : attempts'[d] = "success" => d \in ledger'
            /\ \A d \in ledger' \ unguarded' : attempts'[d] = "success"
            BY <1>9, <2>4 DEF StrategyInv, StrategyTypeOK, LedgerIsWhole
      <3> QED BY <1>3, <1>4, <2>2, <3>1, <3>2 DEF LedgerIsWhole
    <2>6. ledger' \subseteq Days /\ attempts' \in [Days -> Statuses]
          BY <1>9 DEF StrategyInv, StrategyTypeOK, Statuses
    <2>7. CASE SessionSettled(r, "reread") /\ UNCHANGED runFailures
      <3>1. /\ at' = [at EXCEPT ![r] = "reread"] /\ todo' = [todo EXCEPT ![r] = lo + 1 .. hi]
            /\ UNCHANGED <<marketLock, end, previous, report>>
            BY <1>2, <2>7 DEF SessionSettled, GoesTo
      <3>2. at'[r] = "reread" /\ todo'[r] = lo + 1 .. hi
            BY <3>1 DEF StrategyInv, StrategyTypeOK
      <3>3. Owes(r, lo + 1)'
            BY <1>1, <1>3, <1>4, <2>2, <3>2 DEF Owes
      <3>4. RunSound(r)'
        <4>1. end'[r] # 0 /\ launched' # 0 /\ WritesFairly(r)'
              BY <1>1, <1>4, <1>3, <3>1, <3>2 DEF StrategyInv, RunSound, WritesFairly
        <4>2. lo + 1 .. hi # {} => lo + 1 \in Days /\ lo + 1 <= hi
              BY <1>4, StrategyAssumption DEF Days
        <4> QED BY <3>2, <3>3, <4>1, <4>2 DEF RunSound
      <3>5. MarketHeld' /\ LocksHonoured(r)
            BY <2>4, <3>1 DEF StrategyInv, MarketHeld, LocksHonoured
      <3>6. RunTypes' /\ OthersStay(r)
            BY <1>6, <3>1, MovesOn DEF RunPlaces
      <3>7. runFailures' \in 0 .. MaxRunFaults /\ (state.start # 0 => state'.start = state.start)
            BY <1>3, <1>4, <2>2, <2>7
      <3> QED BY <1>5, <2>2, <2>3, <2>4, <2>5, <2>6, <3>4, <3>5, <3>6, <3>7, OneRunMoves
    (* The answer of the commit is lost.                                   *)
    <2>8. CASE ToReport(r, lo, "failed") /\ Fails
      <3>1. RunSound(r)' /\ MarketHeld' /\ RunTypes' /\ OthersStay(r) /\ marketLock' \subseteq marketLock
            BY <1>1, <1>5, <2>8, StopsToReport
      <3>2. LocksHonoured(r) /\ runFailures' \in 0 .. MaxRunFaults
            BY <2>4, <2>8, <3>1, Numbers DEF LocksHonoured
      <3>3. state.start # 0 => state'.start = state.start
            BY <1>3, <2>2
      <3> QED BY <1>5, <2>2, <2>3, <2>4, <2>5, <2>6, <3>1, <3>2, <3>3, OneRunMoves
    <2> QED BY <1>9, <2>7, <2>8
  <1> QED BY <1>2, <1>7, <1>8, <1>9 DEF SettleDay

LEMMA RereadKeeps ==
    ASSUME StrategyInv, NEW r \in StrategyRuns, RereadState(r)
    PROVE  StrategyInv'
  <1>1. at[r] = "reread" /\ UNCHANGED <<strategyWorld, strategyRows, unguarded, runFailures>>
        BY DEF RereadState
  <1>2. /\ state.last \in Nat /\ launched # 0 /\ end[r] # 0 /\ frozen' \in BOOLEAN
        /\ runFailures' \in 0 .. MaxRunFaults /\ Days \subseteq Nat /\ state.last \in Days \cup {0}
        BY <1>1, StrategyAssumption DEF strategyRows, StrategyInv, StrategyTypeOK, RunSound, Days
  <1>3. CASE todo[r] = {}
    <2>1. RunEnds(r)
          BY <1>3 DEF RereadState
    <2> QED BY <1>1, <1>2, <2>1, EndKeeps
  <1>4. CASE todo[r] # {}
    <2>1. /\ at' = [at EXCEPT ![r] = "load"] /\ previous' = [previous EXCEPT ![r] = state.last]
          /\ UNCHANGED <<marketLock, end, todo, report>>
          BY <1>4 DEF RereadState, GoesTo
    <2>2. PICK lo \in Days, hi \in Days : lo <= hi /\ todo[r] = lo .. hi /\ Owes(r, lo)
          BY <1>4 DEF StrategyInv, RunSound
    <2>3. at'[r] = "load" /\ previous'[r] = state.last
          BY <2>1 DEF StrategyInv, StrategyTypeOK
    <2>4. Owes(r, lo)' /\ WritesFairly(r)'
          BY <1>1, <1>2, <2>2, <2>3 DEF Owes, WritesFairly, strategyRows
    <2>5. RunSound(r)'
          BY <1>1, <1>2, <1>4, <2>1, <2>2, <2>3, <2>4 DEF RunSound, strategyRows
    <2>6. /\ MarketHeld' /\ marketLock' \subseteq marketLock \cup {r}
          /\ UNCHANGED <<launched, state, ledger, attempts>>
          BY <1>1, <2>1 DEF StrategyInv, MarketHeld, strategyRows
    <2>7. RunTypes' /\ OthersStay(r)
          BY <1>2, <2>1, MovesOn DEF RunPlaces
    <2> QED BY <1>1, <1>2, <2>5, <2>6, <2>7, RowsStay
  <1> QED BY <1>3, <1>4

(* The first run writes the launch date; no ledger exists before.          *)
LEMMA LaunchKeeps ==
    ASSUME StrategyInv, NEW r \in StrategyRuns, LaunchStrategies(r)
    PROVE  StrategyInv'
  <1>1. /\ at[r] = "launch" /\ at' = [at EXCEPT ![r] = "freeze"]
        /\ launched' = IF launched = 0 THEN end[r] ELSE launched
        /\ UNCHANGED <<strategyWorld, frozen, state, ledger, attempts, marketLock, end, todo,
                       previous, report, unguarded, runFailures>>
        BY DEF LaunchStrategies, GoesTo, runVars
  <1>2. /\ state.last \in Nat /\ state.start \in Nat /\ end[r] # 0 /\ end[r] \in Days
        /\ Days \subseteq Nat /\ launched \in Nat /\ 0 \notin Days
        BY <1>1, StrategyAssumption DEF StrategyInv, StrategyTypeOK, RunSound, Days
  <1>3. at'[r] = "freeze" /\ launched' # 0 /\ launched' \in Days \cup {0}
        BY <1>1, <1>2 DEF StrategyInv, StrategyTypeOK
  <1>4. \A lo \in Days : Owes(r, lo) => Owes(r, lo)'
        BY <1>1, <1>2, <1>3 DEF Owes
  <1>5. RunSound(r)'
    <2>1. WritesFairly(r)'
          BY <1>3 DEF WritesFairly
    <2> QED BY <1>1, <1>2, <1>3, <1>4, <2>1 DEF StrategyInv, RunSound
  <1>6. Anchored' /\ LedgerIsWhole' /\ MarketHeld' /\ state.last <= state'.last
        BY <1>1, <1>2 DEF StrategyInv, Anchored, LedgerIsWhole, MarketHeld
  <1>7. RunTypes' /\ OthersStay(r) /\ LocksHonoured(r)
    <2>1. todo' = todo /\ {} \in SUBSET Days /\ 0 \in Days \cup {0} /\ previous' = previous
          BY <1>1
    <2> QED BY <1>1, <2>1, MovesOn DEF RunPlaces, LocksHonoured
  <1> QED BY <1>1, <1>3, <1>5, <1>6, <1>7, OneRunMoves DEF strategyWorld, StrategyInv, StrategyTypeOK

(* A session that was no success when its attempt was read, and is in the  *)
(* ledger nonetheless, was settled or reported without the lock.           *)
LEMMA ReadKeeps ==
    ASSUME StrategyInv, NEW r \in StrategyRuns, ReadAttempt(r)
    PROVE  StrategyInv'
  <1>1. /\ at[r] = "report" /\ launched # 0 /\ report[r].session \in Days
        /\ report[r].status \in {"waiting", "failed"} /\ report[r] \in Reports
        BY DEF ReadAttempt, StrategyInv, RunSound, WritesFairly, StrategyTypeOK
  <1>2. CASE RunEnds(r) /\ UNCHANGED <<strategyWorld, strategyRows, unguarded, runFailures>>
        BY <1>2, Numbers, EndKeeps
  <1>3. CASE attempts[report[r].session] # "success" /\ ReadToWrite(r)
    <2>1. PICK d \in Days, status \in {"waiting", "failed"} :
            d = report[r].session /\ status = report[r].status
          BY <1>1
    <2>2. PICK seen \in Statuses : seen = attempts[d]
          BY DEF StrategyInv, StrategyTypeOK
    <2>3. [report[r] EXCEPT !.seen = seen] = [session |-> d, status |-> status, seen |-> seen]
          BY <1>1, <2>1 DEF Reports
    <2>4. /\ at' = [at EXCEPT ![r] = "write"]
          /\ report' = [report EXCEPT ![r] = [session |-> d, status |-> status, seen |-> seen]]
          /\ UNCHANGED <<strategyWorld, strategyRows, marketLock, end, todo, previous, unguarded, runFailures>>
          BY <1>3, <2>1, <2>2, <2>3 DEF ReadToWrite, GoesTo
    <2>5. RunTypes' /\ OthersStay(r)
      <3>1. [session |-> d, status |-> status, seen |-> seen] \in Reports
            BY ReportIsTyped
      <3> QED BY <2>4, <3>1 DEF StrategyInv, StrategyTypeOK, RunTypes, RunPlaces, OthersStay
    <2>6. /\ at'[r] = "write" /\ report'[r] = [session |-> d, status |-> status, seen |-> seen]
          /\ UNCHANGED <<launched, state, ledger, attempts>>
          BY <2>4 DEF StrategyInv, StrategyTypeOK, strategyRows
    <2>7. WritesFairly(r)'
      <3>1. d \in ledger => d \in unguarded
            BY <1>3, <2>1 DEF StrategyInv, LedgerIsWhole
      <3> QED BY <2>4, <2>6, <3>1 DEF WritesFairly
    <2>8. \A lo \in Days : Owes(r, lo) => Owes(r, lo)'
          BY <2>6 DEF Owes
    <2>9. RunSound(r)' /\ MarketHeld' /\ frozen' \in BOOLEAN /\ runFailures' \in 0 .. MaxRunFaults
          BY <1>1, <2>4, <2>6, <2>7, <2>8, Numbers
          DEF StrategyInv, StrategyTypeOK, RunSound, MarketHeld, strategyRows
    <2> QED BY <2>4, <2>5, <2>6, <2>9, RowsStay
  <1> QED BY <1>2, <1>3 DEF ReadAttempt

LEMMA WriteKeeps ==
    ASSUME StrategyInv, NEW r \in StrategyRuns, WriteAttempt(r)
    PROVE  StrategyInv'
  <1>1. /\ at[r] = "write" /\ WritesFairly(r)
        BY DEF WriteAttempt, StrategyInv, RunSound
  <1>2. PICK d \in Days, status \in {"waiting", "failed"} :
          d = report[r].session /\ status = report[r].status
        BY <1>1 DEF WritesFairly
  <1>3. /\ RunEnds(r) /\ attempts' \in {attempts, [attempts EXCEPT ![d] = status]}
        /\ unguarded' = IF r \in marketLock THEN unguarded ELSE unguarded \cup {d}
        /\ UNCHANGED <<strategyWorld, launched, frozen, state, ledger, runFailures>>
        BY <1>2 DEF WriteAttempt, Witnessed
  <1>4. attempts' \in [Days -> Statuses] /\ unguarded \subseteq unguarded' /\ unguarded' \subseteq Days
        BY <1>3 DEF StrategyInv, StrategyTypeOK, Statuses
  <1>5. d \in ledger => d \in unguarded'
        BY <1>1, <1>2, <1>3 DEF WritesFairly
  <1>6. Anchored' /\ LedgerIsWhole'
    <2>1. \A e \in Days : attempts'[e] = "success" => attempts[e] = "success"
          BY <1>3 DEF StrategyInv, StrategyTypeOK
    <2>2. ASSUME NEW e \in ledger \ unguarded' PROVE attempts'[e] = "success"
      <3>1. e \in Days /\ e # d /\ attempts[e] = "success"
            BY <1>4, <1>5 DEF StrategyInv, StrategyTypeOK, LedgerIsWhole
      <3> QED BY <1>3, <3>1 DEF StrategyInv, StrategyTypeOK
    <2> QED BY <1>3, <2>1, <2>2 DEF StrategyInv, Anchored, LedgerIsWhole
  <1>7. LocksHonoured(r)
        BY <1>3, <1>4, RunOver DEF LocksHonoured
  <1>8. /\ day' \in Days \cup {0} /\ ready' \subseteq Days \cup {0} /\ launched' \in Days \cup {0}
        /\ frozen' \in BOOLEAN /\ state' \in [start : Days \cup {0}, last : Days \cup {0}]
        /\ ledger' \subseteq Days /\ runFailures' \in 0 .. MaxRunFaults
        BY <1>3 DEF strategyWorld, StrategyInv, StrategyTypeOK
  <1>9. state.last <= state'.last
        BY <1>3, Numbers
  <1> QED BY <1>3, <1>4, <1>6, <1>7, <1>8, <1>9, RunOver, OneRunMoves

LEMMA StrategyKept == StrategyInv /\ [StrategyNext]_strategyVars => StrategyInv'
  <1> SUFFICES ASSUME StrategyInv, [StrategyNext]_strategyVars PROVE StrategyInv'
      OBVIOUS
  (* Steps that leave every run where it is.                               *)
  <1>1. ASSUME UNCHANGED <<strategyRows, at, runVars, unguarded>>,
               day' \in Days \cup {0}, ready' \subseteq Days \cup {0},
               marketLock' \in {marketLock, {}}, runFailures' \in 0 .. MaxRunFaults
        PROVE  StrategyInv'
    <2>1. MarketHeld' /\ marketLock' \subseteq StrategyRuns /\ Cardinality(marketLock') <= 1
      <3>1. marketLock' = {} \/ \E r \in StrategyRuns : marketLock' = {r}
            BY <1>1 DEF StrategyInv, MarketHeld
      <3> QED BY <3>1, HolderIsTyped DEF MarketHeld
    <2>2. StrategyTypeOK'
          BY <1>1, <2>1 DEF StrategyInv, StrategyTypeOK, strategyRows, runVars
    <2>3. Anchored' /\ LedgerIsWhole'
          BY <1>1 DEF StrategyInv, Anchored, LedgerIsWhole, strategyRows
    <2>4. state.last <= state'.last
          BY <1>1, Numbers DEF strategyRows
    <2>5. ASSUME NEW r \in StrategyRuns PROVE RunSound(r)'
      <3>1. r \in marketLock' => r \in marketLock /\ ledger' \subseteq ledger \cup unguarded'
            BY <1>1 DEF strategyRows
      <3> QED BY <1>1, <2>2, <2>4, <3>1, RunUntouched DEF StrategyInv, strategyRows, runVars
    <2> QED BY <2>1, <2>2, <2>3, <2>5 DEF StrategyInv
  <1>2. CASE NextDay
    <2>1. day' \in Days \cup {0}
          BY <1>2, Numbers DEF NextDay, Days
    <2> QED BY <1>1, <1>2, <2>1, Numbers DEF NextDay, StrategyInv, StrategyTypeOK
  <1>3. ASSUME NEW d \in Days \cup {0}, InputsArrive(d) PROVE StrategyInv'
        BY <1>1, <1>3, Numbers DEF InputsArrive, StrategyInv, StrategyTypeOK
  <1>4. ASSUME NEW r \in StrategyRuns, LoseLock(r) PROVE StrategyInv'
        BY <1>1, <1>4, Numbers DEF LoseLock, strategyWorld, StrategyInv, StrategyTypeOK
  <1>5. CASE UNCHANGED strategyVars
        BY <1>1, <1>5, Numbers DEF strategyVars, strategyRows, runVars, StrategyInv, StrategyTypeOK
  (* Steps of one run.                                                     *)
  <1>6. ASSUME NEW r \in StrategyRuns, StartStrategyRun(r) PROVE StrategyInv'
    <2>1. /\ at' = [at EXCEPT ![r] = "launch"] /\ end' = [end EXCEPT ![r] = day] /\ day \in Days \cup {0}
          /\ day # 0 /\ marketLock' = {r}
          /\ UNCHANGED <<strategyWorld, launched, frozen, state, ledger, attempts, todo, previous, report,
                         unguarded, runFailures>>
          BY <1>6, Numbers DEF StartStrategyRun, GoesTo, strategyRows
    <2>2. at'[r] = "launch" /\ end'[r] # 0
          BY <2>1 DEF StrategyInv, StrategyTypeOK
    <2>3. \A lo \in Days : Owes(r, lo) => Owes(r, lo)'
          BY <2>1, <2>2 DEF Owes
    <2>4. RunSound(r)' /\ MarketHeld'
          BY <2>1, <2>2, <2>3 DEF StrategyInv, RunSound, MarketHeld, WritesFairly
    <2>5. RunTypes' /\ OthersStay(r)
          BY <2>1 DEF StrategyInv, StrategyTypeOK, RunTypes, RunPlaces, OthersStay
    <2>6. frozen' \in BOOLEAN /\ runFailures' \in 0 .. MaxRunFaults /\ marketLock' \subseteq marketLock \cup {r}
          BY <2>1, Numbers DEF StrategyInv, StrategyTypeOK
    <2> QED BY <2>1, <2>4, <2>5, <2>6, RowsStay
  (* A move that keeps what the run knows.                                 *)
  <1>7. ASSUME NEW r \in StrategyRuns, at[r] \in {"freeze", "load"}, NEW to \in {"begin", "settle"},
               at[r] = "load" <=> to = "settle",
               at' = [at EXCEPT ![r] = to], UNCHANGED <<marketLock, runVars>>, frozen' \in BOOLEAN,
               UNCHANGED <<strategyWorld, launched, state, ledger, attempts, unguarded, runFailures>>
        PROVE  StrategyInv'
    <2>1. at'[r] = to /\ RunTypes' /\ OthersStay(r)
          BY <1>7 DEF StrategyInv, StrategyTypeOK, RunTypes, RunPlaces, OthersStay, runVars
    <2>2. \A lo \in Days : Owes(r, lo) => Owes(r, lo)'
          BY <1>7, <2>1 DEF Owes, runVars
    <2>3. RunSound(r)' /\ MarketHeld' /\ marketLock' \subseteq marketLock \cup {r}
          BY <1>7, <2>1, <2>2 DEF StrategyInv, RunSound, MarketHeld, WritesFairly, runVars
    <2> QED BY <1>7, <2>1, <2>3, Numbers, RowsStay
  <1>8. ASSUME NEW r \in StrategyRuns, FreezeUniverse(r) PROVE StrategyInv'
    <2>1. /\ at[r] = "freeze" /\ UNCHANGED <<strategyWorld, launched, state, ledger, attempts, unguarded, runFailures>>
          BY <1>8 DEF FreezeUniverse
    <2>2. CASE frozen' = TRUE /\ GoesTo(r, "begin") /\ UNCHANGED <<marketLock, runVars>>
          BY <1>7, <2>1, <2>2 DEF GoesTo
    <2>3. CASE ToReport(r, end[r], "waiting") /\ UNCHANGED frozen
      <3>1. end[r] \in Days /\ frozen' \in BOOLEAN
            BY <2>1, <2>3 DEF StrategyInv, StrategyTypeOK, RunSound
      <3> QED BY <2>1, <2>3, <3>1, Numbers, StopKeeps
    <2> QED BY <1>8, <2>2, <2>3 DEF FreezeUniverse
  <1>9. ASSUME NEW r \in StrategyRuns, LoadInputs(r) PROVE StrategyInv'
    <2>1. /\ at[r] = "load" /\ UNCHANGED <<strategyWorld, strategyRows, unguarded>>
          /\ frozen' \in BOOLEAN /\ UNCHANGED <<launched, state, ledger, attempts>>
          BY <1>9 DEF LoadInputs, strategyRows, StrategyInv, StrategyTypeOK
    <2>2. CASE GoesTo(r, "settle") /\ UNCHANGED <<marketLock, runVars, runFailures>>
          BY <1>7, <2>1, <2>2 DEF GoesTo
    <2>3. ASSUME NEW status \in {"waiting", "failed"}, ToReport(r, Earliest(todo[r]), status),
                 UNCHANGED runFailures \/ Fails
          PROVE  StrategyInv'
      <3>1. todo[r] # {}
            BY <2>1 DEF StrategyInv, RunSound
      <3>2. Earliest(todo[r]) \in Days
            BY <3>1, FirstOwed
      <3> QED BY <2>1, <2>3, <3>2, Numbers, StopKeeps
    <2> QED BY <1>9, <2>2, <2>3 DEF LoadInputs
  <1>10. ASSUME NEW r \in StrategyRuns, KillRun(r) PROVE StrategyInv'
         BY <1>10, Numbers, EndKeeps DEF KillRun
  <1>11. \A r \in StrategyRuns : RunStep(r) => StrategyInv'
         BY <1>8, <1>9, LaunchKeeps, BeginKeeps, SettleKeeps, RereadKeeps, ReadKeeps, WriteKeeps DEF RunStep
  <1> QED BY <1>2, <1>3, <1>4, <1>5, <1>6, <1>10, <1>11 DEF StrategyNext

(* repository.settle: whichever runs overlap, lose their lock, are killed  *)
(* or lose the answer of a commit, the ledger is every session from the    *)
(* launch to the last one settled, and no other attempt is a success.  The *)
(* attempt of a settled session is one, unless a run without the lock has  *)
(* settled that session or reported on it, between whose read and write    *)
(* another run's commit may fall (repository.attempt).                     *)
THEOREM LedgerHasNoGap == StrategySpec => []LedgerIsWhole
  <1>1. StrategyInv => LedgerIsWhole
        BY DEF StrategyInv
  <1> QED BY <1>1, StrategyStarts, StrategyKept, PTL DEF StrategySpec

-----------------------------------------------------------------------------
(* SignalCenter                                                            *)

Steps   == {"idle", "collect", "screen", "final", "complete"}
Signals == [status : Final \cup {"absent", "pending", "failed"}, frozen : SUBSET Sources,
            screening : SUBSET Audits, prompted : SUBSET Sources, answer : SUBSET Sources,
            decision : SUBSET Nominating]
Holdings == [at : Steps, late : BOOLEAN, busy : SUBSET Sources, frozen : SUBSET Sources,
             audit : SUBSET Audits, decision : SUBSET Nominating]

DayHeld == dayHolder = {} \/ \E c \in Checkers : dayHolder = {c}

SignalTypes ==
    /\ active \subseteq Sources /\ formal \subseteq Sources /\ late \in BOOLEAN
    /\ signal \in Signals /\ check \in [Checkers -> Holdings]
    /\ messages \in Seq(SUBSET Nominating) /\ DayHeld

OneMessage == messages = IF signal.status = "completed" THEN <<signal.decision>> ELSE <<>>

(* The audit asks of each bucket at most once, and of all of it.           *)
Audited(kept, audit) ==
    /\ \A x \in audit : x.asked = Bucket(x.batch, kept) /\ x.picked \subseteq x.asked
    /\ \A x, y \in audit : x.batch = y.batch => x = y

AllAsked(kept, audit) ==
    \A i \in 0..BucketCount - 1 : Bucket(i, kept) # {} => \E x \in audit : x.batch = i

(* As long as no session ended alone, who is at work holds the day and     *)
(* what the row holds.                                                     *)
AloneAtWork(c) ==
    /\ check[c].at # "idle" => dayHolder = {c}
    /\ check[c].at = "collect" => signal.status = "absent" /\ check[c].audit = {}
    /\ check[c].at \in {"screen", "final", "complete"} =>
         /\ signal.status = "pending"
         /\ check[c].frozen = signal.frozen /\ check[c].audit = signal.screening
    /\ check[c].at \in {"final", "complete"} =>
         /\ AllAsked(signal.frozen, signal.screening) /\ signal.prompted = Picked(signal.screening)
    /\ check[c].at # "complete" => check[c].decision = {}
    /\ check[c].at = "complete" =>
         /\ check[c].decision \subseteq signal.prompted
         /\ signal.prompted # {} => signal.answer = check[c].decision

Alone ==
    /\ Audited(signal.frozen, signal.screening)
    /\ signal.status = "absent" => signal.screening = {}
    /\ signal.status = "completed" => Traceable
    /\ \A c \in Checkers : AloneAtWork(c)

SignalInv == SignalTypes /\ OneMessage /\ ("lock" \notin mishaps => Alone)

---------------------------------------------------------------------------

LEMMA OnceAsked ==
    ASSUME NEW kept \in SUBSET Sources, NEW audit \in SUBSET Audits,
           Audited(kept, audit), AllAsked(kept, audit), NEW n \in kept \ {0}
    PROVE  Cardinality({x \in audit : n \in x.asked}) = 1
  <1> DEFINE i == Position(n, kept \ {0}) % BucketCount
  <1>1. Position(n, kept \ {0}) \in Nat
    <2>1. {m \in kept \ {0} : m < n} \subseteq Nominating
          BY DEF Sources
    <2>2. IsFiniteSet({m \in kept \ {0} : m < n})
          BY <2>1, FS_Subset, SignalAssumption
    <2> QED BY <2>2, FS_CardinalityType DEF Position
  <1>2. i \in 0..BucketCount - 1
        BY <1>1, SignalAssumption
  <1>3. n \in Bucket(i, kept)
        BY DEF Bucket
  <1>4. PICK x \in audit : x.batch = i
        BY <1>2, <1>3 DEF AllAsked
  <1>5. \A y \in audit : n \in y.asked <=> y = x
    <2> TAKE y \in audit
    <2>1. n \in y.asked => y.batch = i
          BY ZenonT(60) DEF Audited, Bucket
    <2> QED BY <1>3, <1>4, <2>1 DEF Audited
  <1>6. {y \in audit : n \in y.asked} = {x}
        BY <1>5
  <1> QED BY <1>6, FS_Singleton

LEMMA WhatIsPicked ==
    ASSUME NEW audit \in SUBSET Audits
    PROVE  Picked(audit) \subseteq Nominating
  BY DEF Picked, Audits

LEMMA SignalStarts == SignalInit => SignalInv
  <1> SUFFICES ASSUME SignalInit PROVE SignalInv
      OBVIOUS
  <1> USE DEF SignalInit
  <1>1. /\ signal.status = "absent" /\ signal.frozen = {} /\ signal.screening = {}
        /\ signal \in Signals /\ \A c \in Checkers : check[c] = Rest
        BY DEF Signals, NoAnswer, Sources, Final
  <1>2. Rest \in Holdings /\ Rest.at = "idle" /\ Rest.decision = {}
        BY DEF Rest, Holdings, Steps
  <1>3. check \in [Checkers -> Holdings]
        BY <1>2
  <1>4. Alone
        BY <1>1, <1>2 DEF Alone, Audited, AloneAtWork
  <1>5. messages \in Seq(SUBSET Nominating) /\ DayHeld /\ OneMessage
        BY <1>1 DEF DayHeld, OneMessage
  <1>6. active \subseteq Sources /\ formal \subseteq Sources /\ late \in BOOLEAN
        OBVIOUS
  <1> QED BY <1>1, <1>3, <1>4, <1>5, <1>6 DEF SignalInv, SignalTypes

---------------------------------------------------------------------------
(* The rest of a step of one check that leaves no message behind.          *)
LEMMA CheckMoves ==
    ASSUME SignalInv, NEW c \in Checkers, NEW h \in Holdings,
           check' = [check EXCEPT ![c] = h],
           dayHolder' \in {dayHolder, {c}, dayHolder \ {c}},
           signal' \in Signals, OneMessage', messages' \in Seq(SUBSET Nominating),
           active' = active, formal' = formal, late' = late,
           "lock" \notin mishaps' => "lock" \notin mishaps,
           "lock" \notin mishaps /\ Alone =>
             /\ Audited(signal.frozen, signal.screening)' /\ AloneAtWork(c)'
             /\ signal'.status = "absent" => signal'.screening = {}
             /\ signal'.status = "completed" => Traceable'
             /\ \A o \in Checkers \ {c} : check[o].at = "idle"
    PROVE  SignalInv'
  <1>1. check' \in [Checkers -> Holdings] /\ DayHeld'
        BY DEF SignalInv, SignalTypes, DayHeld
  <1>2. "lock" \notin mishaps' => Alone'
    <2> SUFFICES ASSUME "lock" \notin mishaps' PROVE Alone'
        OBVIOUS
    <2>1. Alone /\ "lock" \notin mishaps
          BY DEF SignalInv
    <2>2. \A o \in Checkers \ {c} : AloneAtWork(o)'
      <3> TAKE o \in Checkers \ {c}
      <3>1. check'[o] = check[o] /\ check[o].at = "idle" /\ check[o].decision = {}
            BY <2>1 DEF SignalInv, SignalTypes, Alone, AloneAtWork
      <3> QED BY <3>1 DEF AloneAtWork
    <2> QED BY <2>1, <2>2 DEF Alone
  <1>3. SignalTypes'
        BY <1>1 DEF SignalInv, SignalTypes
  <1> QED BY <1>2, <1>3 DEF SignalInv

(* Who works alone leaves everybody else idle.                             *)
LEMMA OthersRest ==
    ASSUME NEW c \in Checkers, Alone, check[c].at # "idle" \/ dayHolder = {}
    PROVE  \A o \in Checkers \ {c} : check[o].at = "idle"
  BY DEF Alone, AloneAtWork

LEMMA RestHolds == Rest \in Holdings /\ Rest.at = "idle" /\ Rest.decision = {}
  BY DEF Rest, Holdings, Steps

(* A check ends without a message.                                         *)
LEMMA CheckEnds ==
    ASSUME SignalInv, NEW c \in Checkers, check[c].at # "idle", Ends(c), signal' \in Signals,
           messages' = messages, UNCHANGED sourceVars,
           "lock" \notin mishaps' => "lock" \notin mishaps,
           signal.status \in Final => signal' = signal,
           signal.status \notin Final => signal'.status # "completed",
           "lock" \notin mishaps /\ Alone =>
             /\ Audited(signal.frozen, signal.screening)'
             /\ signal'.status = "absent" => signal'.screening = {}
    PROVE  SignalInv'
  <1>1. check' = [check EXCEPT ![c] = Rest] /\ dayHolder' = dayHolder \ {c}
        BY DEF Ends
  <1>2. check'[c] = Rest
        BY <1>1 DEF SignalInv, SignalTypes
  <1>3. AloneAtWork(c)'
        BY <1>2, RestHolds DEF AloneAtWork
  <1>4. OneMessage' /\ messages' \in Seq(SUBSET Nominating)
        BY DEF SignalInv, SignalTypes, OneMessage, Final
  <1>5. Alone => (signal'.status = "completed" => Traceable')
        BY DEF Alone, Traceable, Final
  <1>6. active' = active /\ formal' = formal /\ late' = late
        BY DEF sourceVars
  <1> QED BY <1>1, <1>3, <1>4, <1>5, <1>6, RestHolds, OthersRest, CheckMoves

---------------------------------------------------------------------------
(* One lemma per step of a check.                                          *)

LEMMA CheckKeeps ==
    ASSUME SignalInv, NEW c \in Checkers, Check(c)
    PROVE  SignalInv'
  <1>1. /\ check[c].at = "idle" /\ dayHolder = {} /\ signal.status \notin Final
        /\ dayHolder' = {c} /\ UNCHANGED <<sourceVars, messages, mishaps>>
        BY DEF Check
  <1>2. /\ signal \in Signals /\ check \in [Checkers -> Holdings] /\ messages' = <<>>
        /\ active \subseteq Sources /\ late \in BOOLEAN
        /\ active' = active /\ formal' = formal /\ late' = late
        BY <1>1 DEF SignalInv, SignalTypes, OneMessage, Final, sourceVars
  <1>3. CASE signal.status = "absent"
    <2> DEFINE h == [Rest EXCEPT !.at = "collect", !.late = late, !.busy = active]
    <2>1. /\ h \in Holdings /\ h.at = "collect" /\ h.decision = {} /\ h.audit = {}
          BY <1>2 DEF Rest, Holdings, Steps
    <2>2. check' = [check EXCEPT ![c] = h] /\ signal' = signal
          BY <1>3 DEF Check
    <2> HIDE DEF h
    <2>3. check'[c].at = "collect" /\ check'[c].decision = {} /\ check'[c].audit = {}
          BY <1>2, <2>1, <2>2
    <2>4. AloneAtWork(c)'
          BY <1>1, <1>3, <2>2, <2>3 DEF AloneAtWork
    <2>5. OneMessage' /\ messages' \in Seq(SUBSET Nominating)
          BY <1>1, <2>2 DEF SignalInv, SignalTypes, OneMessage
    <2> QED BY <1>1, <1>2, <1>3, <2>1, <2>2, <2>4, <2>5, OthersRest, CheckMoves DEF Alone, Audited
  <1>4. CASE signal.status # "absent"
    <2> DEFINE h == [Rest EXCEPT !.at = "screen", !.frozen = signal.frozen, !.audit = signal.screening]
    <2>1. /\ h \in Holdings /\ h.at = "screen" /\ h.decision = {}
          /\ h.frozen = signal.frozen /\ h.audit = signal.screening
          BY <1>2 DEF Rest, Holdings, Steps, Signals
    <2>2. check' = [check EXCEPT ![c] = h] /\ signal' = [signal EXCEPT !.status = "pending"]
          BY <1>4 DEF Check
    <2> HIDE DEF h
    <2>3. /\ signal' \in Signals /\ signal'.status = "pending" /\ signal'.frozen = signal.frozen
          /\ signal'.screening = signal.screening
          BY <1>2, <2>2 DEF Signals
    <2>4. check'[c] = h
          BY <1>2, <2>2
    <2>5. AloneAtWork(c)'
          BY <1>1, <2>1, <2>3, <2>4 DEF AloneAtWork
    <2>6. OneMessage' /\ messages' \in Seq(SUBSET Nominating)
          BY <1>1, <1>2, <2>3 DEF SignalInv, SignalTypes, OneMessage
    <2>7. Alone => Audited(signal.frozen, signal.screening)'
          BY <2>3 DEF Alone, Audited
    <2> QED BY <1>1, <1>2, <2>1, <2>2, <2>3, <2>5, <2>6, <2>7, OthersRest, CheckMoves
  <1> QED BY <1>3, <1>4

LEMMA CollectKeeps ==
    ASSUME SignalInv, NEW c \in Checkers, CollectCandidates(c)
    PROVE  SignalInv'
  <1> DEFINE available == formal \ check[c].busy
             whole     == available = Sources
             enough    == 0 \in available /\ available # {0}
  <1>1. check[c].at = "collect" /\ UNCHANGED <<sourceVars, messages, mishaps>>
        BY DEF CollectCandidates
  <1>2. /\ signal \in Signals /\ check \in [Checkers -> Holdings] /\ available \in SUBSET Sources
        /\ active' = active /\ formal' = formal /\ late' = late
        BY <1>1 DEF SignalInv, SignalTypes, sourceVars
  <1>3. CASE Ends(c) /\ UNCHANGED signal
    <2>1. Alone => Audited(signal.frozen, signal.screening)'
                   /\ (signal'.status = "absent" => signal'.screening = {})
          BY <1>3 DEF Alone, Audited
    <2> QED BY <1>1, <1>2, <1>3, <2>1, CheckEnds DEF Final
  <1>4. ASSUME signal.status = "absent", NEW to \in {"pending", "skipped"},
               signal' = [signal EXCEPT !.status = to, !.frozen = available]
        PROVE  /\ signal' \in Signals /\ signal'.status = to /\ signal'.frozen = available
               /\ signal'.screening = signal.screening
               /\ Alone => Audited(signal.frozen, signal.screening)'
    <2> HIDE DEF available
    <2>1. /\ signal' \in Signals /\ signal'.status = to /\ signal'.frozen = available
          /\ signal'.screening = signal.screening
          BY <1>2, <1>4 DEF Signals, Final
    <2> QED BY <1>4, <2>1 DEF Alone, Audited
  <1>5. CASE /\ signal.status = "absent" /\ Ends(c)
             /\ signal' = [signal EXCEPT !.status = "skipped", !.frozen = available]
    <2>1. /\ signal' \in Signals /\ signal'.status = "skipped"
          /\ Alone => Audited(signal.frozen, signal.screening)'
          BY <1>4, <1>5
    <2> QED BY <1>1, <1>5, <2>1, CheckEnds DEF Final
  <1>6. CASE /\ signal.status = "absent"
             /\ signal' = [signal EXCEPT !.status = "pending", !.frozen = available]
             /\ check' = [check EXCEPT ![c].at = "screen", ![c].frozen = available]
             /\ UNCHANGED dayHolder
    <2> DEFINE h == [check[c] EXCEPT !.at = "screen", !.frozen = available]
    <2>1. /\ signal' \in Signals /\ signal'.status = "pending" /\ signal'.frozen = available
          /\ signal'.screening = signal.screening
          /\ Alone => Audited(signal.frozen, signal.screening)'
          BY <1>4, <1>6
    <2>2. check' = [check EXCEPT ![c] = h]
          BY <1>2, <1>6
    <2> HIDE DEF available
    <2>3. /\ h \in Holdings /\ h.at = "screen" /\ h.decision = check[c].decision
          /\ h.frozen = available /\ h.audit = check[c].audit
          BY <1>2 DEF Holdings, Steps
    <2> HIDE DEF h
    <2>4. check'[c] = h
          BY <1>2, <2>2
    <2>5. OneMessage' /\ messages' \in Seq(SUBSET Nominating)
          BY <1>1, <1>6, <2>1 DEF SignalInv, SignalTypes, OneMessage
    <2>6. Alone => AloneAtWork(c)'
      <3> SUFFICES ASSUME Alone PROVE AloneAtWork(c)'
          OBVIOUS
      <3>1. dayHolder' = {c} /\ check[c].decision = {}
            BY <1>1, <1>6 DEF Alone, AloneAtWork
      <3>2. check[c].audit = {} /\ signal.screening = {}
            BY <1>1, <1>6 DEF Alone, AloneAtWork
      <3> QED BY <2>1, <2>3, <2>4, <3>1, <3>2 DEF AloneAtWork
    <2> QED BY ZenonT(60), <1>1, <1>2, <1>6, <2>1, <2>2, <2>3, <2>5, <2>6, OthersRest, CheckMoves
  <1> QED BY <1>3, <1>5, <1>6 DEF CollectCandidates, Ends

(* A failed call.                                                          *)
LEMMA FailureKeeps ==
    ASSUME SignalInv, NEW c \in Checkers, check[c].at # "idle", Mishap("call"), Ends(c),
           NEW s \in {[signal EXCEPT !.status = "failed"]}
                     \cup {[signal EXCEPT !.answer = chosen, !.status = "failed"] : chosen \in SUBSET Sources},
           Finish(s), UNCHANGED <<sourceVars, messages>>
    PROVE  SignalInv'
  <1>1. signal \in Signals
        BY DEF SignalInv, SignalTypes
  <1>2. /\ s \in Signals /\ s.status = "failed" /\ s.frozen = signal.frozen
        /\ s.screening = signal.screening
        BY <1>1 DEF Signals
  <1>3. /\ signal' \in Signals /\ signal'.frozen = signal.frozen /\ signal'.screening = signal.screening
        /\ signal.status \in Final => signal' = signal
        /\ signal.status \notin Final => signal'.status = "failed"
        BY <1>1, <1>2 DEF Finish
  <1>4. Alone => Audited(signal.frozen, signal.screening)'
                 /\ (signal'.status = "absent" => signal'.screening = {})
        BY <1>3 DEF Alone, Audited
  <1>5. "lock" \notin mishaps' => "lock" \notin mishaps
        BY DEF Mishap
  <1> QED BY <1>3, <1>4, <1>5, CheckEnds

LEMMA ScreenKeeps ==
    ASSUME SignalInv, NEW c \in Checkers, ScreenBucket(c)
    PROVE  SignalInv'
  <1>1. /\ check[c].at = "screen" /\ UNCHANGED <<sourceVars, messages, dayHolder, mishaps>>
        BY DEF ScreenBucket
  <1>2. /\ signal \in Signals /\ check \in [Checkers -> Holdings] /\ check[c] \in Holdings
        /\ active' = active /\ formal' = formal /\ late' = late
        BY <1>1 DEF SignalInv, SignalTypes, sourceVars
  <1>3. PICK i \in Left(c) :
          \E picked \in SUBSET Bucket(i, Plan(c)) :
            LET audit == check[c].audit \cup {[batch |-> i, asked |-> Bucket(i, Plan(c)), picked |-> picked]} IN
            /\ check' = [check EXCEPT ![c].audit = audit]
            /\ Finish([signal EXCEPT !.screening = audit])
        BY DEF ScreenBucket
  <1>4. PICK b : b = Bucket(i, check[c].frozen)
        OBVIOUS
  <1>0. PICK picked \in SUBSET b :
          LET audit == check[c].audit \cup {[batch |-> i, asked |-> b, picked |-> picked]} IN
          /\ check' = [check EXCEPT ![c].audit = audit]
          /\ signal' = IF signal.status \in Final THEN signal ELSE [signal EXCEPT !.screening = audit]
        BY <1>3, <1>4 DEF Finish, Plan
  <1>5. PICK audit : audit = check[c].audit \cup {[batch |-> i, asked |-> b, picked |-> picked]}
        OBVIOUS
  <1>6. /\ check' = [check EXCEPT ![c].audit = audit]
        /\ signal' = IF signal.status \in Final THEN signal ELSE [signal EXCEPT !.screening = audit]
        BY <1>0, <1>5
  <1>7. /\ i \in 0..BucketCount - 1 /\ picked \subseteq b /\ b \subseteq Nominating
        /\ \A x \in check[c].audit : x.batch # i
    <2>1. Bucket(i, check[c].frozen) \subseteq check[c].frozen \ {0}
          BY DEF Bucket
    <2>2. check[c].frozen \subseteq Nominating \cup {0}
          BY <1>2 DEF Holdings, Sources
    <2> QED BY <1>3, <1>4, <2>1, <2>2 DEF Left, Plan
  <1>8. audit \in SUBSET Audits
        BY <1>2, <1>5, <1>7 DEF Audits, Holdings
  <1>15. PICK h : h = [check[c] EXCEPT !.audit = audit]
         OBVIOUS
  <1>9. /\ h \in Holdings /\ h.at = "screen" /\ h.audit = audit
        /\ h.frozen = check[c].frozen /\ h.decision = check[c].decision
        BY <1>1, <1>2, <1>8, <1>15 DEF Holdings
  <1>10. check' = [check EXCEPT ![c] = h] /\ check'[c] = h
        BY <1>2, <1>6, <1>9, <1>15
  <1>11. /\ signal' \in Signals /\ signal'.frozen = signal.frozen /\ signal'.status = signal.status
         /\ signal'.decision = signal.decision /\ signal'.prompted = signal.prompted
         /\ signal.status \notin Final => signal'.screening = audit
        BY <1>2, <1>6, <1>8 DEF Signals
  <1>12. OneMessage' /\ messages' \in Seq(SUBSET Nominating)
        BY <1>1, <1>11 DEF SignalInv, SignalTypes, OneMessage
  <1>13. ASSUME Alone
         PROVE  /\ Audited(signal.frozen, signal.screening)' /\ AloneAtWork(c)'
                /\ signal'.status = "pending"
    <2>1. /\ dayHolder = {c} /\ signal.status = "pending" /\ check[c].frozen = signal.frozen
          /\ check[c].audit = signal.screening /\ check[c].decision = {}
          BY <1>1, <1>13 DEF Alone, AloneAtWork
    <2>2. signal'.screening = audit
          BY <1>11, <2>1 DEF Final
    <2>3. Audited(signal.frozen, audit)
      <3>1. Audited(signal.frozen, check[c].audit)
            BY <1>13, <2>1 DEF Alone
      <3>2. \A x \in audit : x \in check[c].audit \/ (x.batch = i /\ x.asked = b /\ x.picked = picked)
            BY <1>5
      <3>3. \A x \in audit : x.asked = Bucket(x.batch, signal.frozen) /\ x.picked \subseteq x.asked
            BY <1>4, <1>7, <2>1, <3>1, <3>2 DEF Audited
      <3>4. \A x, y \in audit : x.batch = y.batch => x = y
            BY <1>5, <1>7, <3>1 DEF Audited
      <3> QED BY <3>3, <3>4 DEF Audited
    <2> QED BY <1>1, <1>9, <1>10, <1>11, <2>1, <2>2, <2>3 DEF AloneAtWork, Audited
  <1> QED BY <1>1, <1>2, <1>9, <1>10, <1>11, <1>12, <1>13, OthersRest, CheckMoves

LEMMA PromptKeeps ==
    ASSUME SignalInv, NEW c \in Checkers, Prompt(c)
    PROVE  SignalInv'
  <1>1. /\ check[c].at = "screen" /\ UNCHANGED <<sourceVars, messages, dayHolder, mishaps>>
        /\ Left(c) = {}
        BY DEF Prompt
  <1>2. /\ signal \in Signals /\ check \in [Checkers -> Holdings] /\ check[c] \in Holdings
        /\ active' = active /\ formal' = formal /\ late' = late
        BY <1>1 DEF SignalInv, SignalTypes, sourceVars
  <1>3. PICK picked : picked = Picked(check[c].audit)
        OBVIOUS
  <1>4. picked \in SUBSET Sources
        BY <1>2, <1>3, WhatIsPicked DEF Holdings, Sources
  <1>5. PICK to \in {"complete", "final"} : to = IF picked = {} THEN "complete" ELSE "final"
        OBVIOUS
  <1>6. /\ check' = [check EXCEPT ![c].at = to]
        /\ signal' = IF signal.status \in Final THEN signal ELSE [signal EXCEPT !.prompted = picked]
        BY <1>3, <1>5 DEF Prompt, Finish
  <1>12. PICK h : h = [check[c] EXCEPT !.at = to]
         OBVIOUS
  <1>7. /\ h \in Holdings /\ h.at = to /\ h.audit = check[c].audit
        /\ h.frozen = check[c].frozen /\ h.decision = check[c].decision
        BY <1>2, <1>12 DEF Holdings, Steps
  <1>8. check' = [check EXCEPT ![c] = h] /\ check'[c] = h
        BY <1>2, <1>6, <1>7, <1>12
  <1>9. /\ signal' \in Signals /\ signal'.frozen = signal.frozen /\ signal'.status = signal.status
        /\ signal'.decision = signal.decision /\ signal'.screening = signal.screening
        /\ signal.status \notin Final => signal'.prompted = picked
        BY <1>2, <1>4, <1>6 DEF Signals
  <1>10. OneMessage' /\ messages' \in Seq(SUBSET Nominating)
        BY <1>1, <1>9 DEF SignalInv, SignalTypes, OneMessage
  <1>11. ASSUME Alone
         PROVE  /\ Audited(signal.frozen, signal.screening)' /\ AloneAtWork(c)'
                /\ signal'.status = "pending"
    <2>1. /\ dayHolder = {c} /\ signal.status = "pending" /\ check[c].frozen = signal.frozen
          /\ check[c].audit = signal.screening /\ check[c].decision = {}
          BY <1>1, <1>11 DEF Alone, AloneAtWork
    <2>2. signal'.prompted = picked
          BY <1>9, <2>1 DEF Final
    <2>3. AllAsked(signal.frozen, signal.screening)
          BY <1>1, <2>1 DEF Left, Plan, AllAsked
    <2>4. Audited(signal.frozen, signal.screening)' /\ AllAsked(signal.frozen, signal.screening)'
          BY <1>9, <1>11, <2>3 DEF Alone, Audited, AllAsked
    <2>5. signal'.prompted = Picked(signal'.screening) /\ (to = "complete" => signal'.prompted = {})
          BY <1>3, <1>5, <1>9, <2>1, <2>2
    <2>6. h.decision \subseteq signal'.prompted
          BY <1>7, <2>1
    <2> QED BY <1>1, <1>7, <1>8, <1>9, <2>1, <2>4, <2>5, <2>6 DEF AloneAtWork, Picked
  <1> QED BY <1>1, <1>2, <1>7, <1>8, <1>9, <1>10, <1>11, OthersRest, CheckMoves

LEMMA FinalKeeps ==
    ASSUME SignalInv, NEW c \in Checkers, FinalCall(c)
    PROVE  SignalInv'
  <1>1. check[c].at = "final" /\ UNCHANGED <<sourceVars, messages>>
        BY DEF FinalCall
  <1>2. /\ signal \in Signals /\ check \in [Checkers -> Holdings] /\ check[c] \in Holdings
        /\ active' = active /\ formal' = formal /\ late' = late
        BY <1>1 DEF SignalInv, SignalTypes, sourceVars
  <1>3. PICK picked : picked = Picked(check[c].audit)
        OBVIOUS
  <1>4. picked \in SUBSET Nominating
        BY <1>2, <1>3, WhatIsPicked DEF Holdings
  <1>5. PICK chosen \in SUBSET picked :
         \/ /\ Finish([signal EXCEPT !.answer = chosen])
            /\ check' = [check EXCEPT ![c].at = "complete", ![c].decision = chosen]
            /\ UNCHANGED <<dayHolder, mishaps>>
         \/ /\ Mishap("call")
            /\ Finish([signal EXCEPT !.answer = chosen, !.status = "failed"])
            /\ Ends(c)
        BY <1>3 DEF FinalCall
  <1>6. chosen \in SUBSET Nominating /\ chosen \in SUBSET Sources
        BY <1>4 DEF Sources
  <1>7. CASE /\ Mishap("call") /\ Finish([signal EXCEPT !.answer = chosen, !.status = "failed"])
             /\ Ends(c)
    <2>1. PICK s : s = [signal EXCEPT !.answer = chosen, !.status = "failed"]
          OBVIOUS
    <2>2. s \in {[signal EXCEPT !.status = "failed"]}
               \cup {[signal EXCEPT !.answer = x, !.status = "failed"] : x \in SUBSET Sources}
          BY <1>6, <2>1
    <2>3. Finish(s)
          BY <1>7, <2>1
    <2> QED BY <1>1, <1>7, <2>2, <2>3, FailureKeeps
  <1>8. CASE /\ Finish([signal EXCEPT !.answer = chosen])
             /\ check' = [check EXCEPT ![c].at = "complete", ![c].decision = chosen]
             /\ UNCHANGED <<dayHolder, mishaps>>
    <2>1. PICK h : h = [check[c] EXCEPT !.at = "complete", !.decision = chosen]
          OBVIOUS
    <2>2. /\ h \in Holdings /\ h.at = "complete" /\ h.audit = check[c].audit
          /\ h.frozen = check[c].frozen /\ h.decision = chosen
          BY <1>2, <1>6, <2>1 DEF Holdings, Steps
    <2>3. check' = [check EXCEPT ![c] = h] /\ check'[c] = h
          BY <1>2, <1>8, <2>1, <2>2
    <2>4. /\ signal' \in Signals /\ signal'.frozen = signal.frozen /\ signal'.status = signal.status
          /\ signal'.decision = signal.decision /\ signal'.screening = signal.screening
          /\ signal'.prompted = signal.prompted
          /\ signal.status \notin Final => signal'.answer = chosen
          BY <1>2, <1>6, <1>8 DEF Signals, Finish
    <2>5. OneMessage' /\ messages' \in Seq(SUBSET Nominating)
          BY <1>1, <2>4 DEF SignalInv, SignalTypes, OneMessage
    <2>6. ASSUME Alone
          PROVE  /\ Audited(signal.frozen, signal.screening)' /\ AloneAtWork(c)'
                 /\ signal'.status = "pending"
      <3>1. /\ dayHolder = {c} /\ signal.status = "pending" /\ check[c].frozen = signal.frozen
            /\ check[c].audit = signal.screening /\ AllAsked(signal.frozen, signal.screening)
            /\ signal.prompted = Picked(signal.screening)
            BY <1>1, <2>6 DEF Alone, AloneAtWork
      <3>2. signal'.answer = chosen /\ chosen \subseteq signal.prompted
            BY <1>3, <2>4, <3>1 DEF Final
      <3>3. Audited(signal.frozen, signal.screening)' /\ AllAsked(signal.frozen, signal.screening)'
            BY <2>4, <2>6, <3>1 DEF Alone, Audited, AllAsked
      <3>4. signal'.prompted = Picked(signal'.screening)
            BY <2>4, <3>1
      <3> QED BY <1>8, <2>2, <2>3, <2>4, <3>1, <3>2, <3>3, <3>4 DEF AloneAtWork, Picked
    <2> QED BY ZenonT(60), <1>1, <1>2, <1>8, <2>2, <2>3, <2>4, <2>5, <2>6, OthersRest, CheckMoves
  <1> QED BY <1>5, <1>7, <1>8

LEMMA CompleteKeeps ==
    ASSUME SignalInv, NEW c \in Checkers, Complete(c)
    PROVE  SignalInv'
  <1>1. check[c].at = "complete" /\ UNCHANGED <<sourceVars, mishaps>> /\ Ends(c)
        BY DEF Complete
  <1>2. /\ signal \in Signals /\ check \in [Checkers -> Holdings] /\ check[c] \in Holdings
        /\ active' = active /\ formal' = formal /\ late' = late
        BY <1>1 DEF SignalInv, SignalTypes, sourceVars
  <1>3. CASE signal.status \in Final
    <2>1. UNCHANGED <<signal, messages>>
          BY <1>3 DEF Complete
    <2>2. Alone => Audited(signal.frozen, signal.screening)'
                   /\ (signal'.status = "absent" => signal'.screening = {})
          BY <2>1 DEF Alone, Audited
    <2> QED BY <1>1, <1>2, <1>3, <2>1, <2>2, CheckEnds
  <1>4. CASE signal.status \notin Final
    <2>1. PICK picked : picked = Picked(check[c].audit)
          OBVIOUS
    <2>2. PICK answer \in SUBSET Sources : answer = IF picked = {} THEN NoAnswer ELSE check[c].decision
          BY <1>2 DEF Holdings, NoAnswer, Sources
    <2>3. PICK decision \in SUBSET Nominating : decision = check[c].decision
          BY <1>2 DEF Holdings
    <2>4. /\ signal' = [signal EXCEPT !.status = "completed", !.decision = decision, !.answer = answer]
          /\ messages' = Append(messages, decision) /\ messages = <<>>
          BY <1>4, <2>1, <2>2, <2>3 DEF Complete, SignalInv, OneMessage, Final
    <2>5. /\ signal' \in Signals /\ signal'.status = "completed" /\ signal'.decision = decision
          /\ signal'.answer = answer /\ signal'.frozen = signal.frozen
          /\ signal'.screening = signal.screening /\ signal'.prompted = signal.prompted
          BY <1>2, <2>2, <2>3, <2>4 DEF Signals, Final
    <2>6. messages' = <<decision>> /\ messages' \in Seq(SUBSET Nominating)
          BY <2>3, <2>4
    <2>7. OneMessage'
          BY <2>5, <2>6 DEF OneMessage
    <2>8. check' = [check EXCEPT ![c] = Rest] /\ dayHolder' = dayHolder \ {c} /\ check'[c] = Rest
          BY <1>1, <1>2 DEF Ends
    <2>9. ASSUME Alone
          PROVE  Audited(signal.frozen, signal.screening)' /\ Traceable'
      <3>1. /\ check[c].audit = signal.screening /\ AllAsked(signal.frozen, signal.screening)
            /\ signal.prompted = picked /\ decision \subseteq signal.prompted
            /\ Audited(signal.frozen, signal.screening) /\ picked = Picked(signal.screening)
            BY <1>1, <2>1, <2>3, <2>9 DEF Alone, AloneAtWork
      <3>2. PICK kept \in SUBSET Sources, audit \in SUBSET Audits :
              /\ kept = signal.frozen /\ audit = signal.screening
              /\ kept = signal'.frozen /\ audit = signal'.screening
            BY <1>2, <2>5 DEF Signals
      <3>3. \A n \in kept \ {0} : Cardinality({x \in audit : n \in x.asked}) = 1
            BY <3>1, <3>2, OnceAsked
      <3>4. \A x \in audit : x.asked \subseteq kept /\ x.picked \subseteq x.asked
        <4>1. \A i : Bucket(i, kept) \subseteq kept
              BY DEF Bucket
        <4> QED BY <3>1, <3>2, <4>1 DEF Audited
      <3>5. /\ signal'.prompted = picked /\ picked = Picked(audit) /\ signal'.decision \subseteq picked
            /\ signal'.answer = IF picked = {} THEN NoAnswer ELSE signal'.decision
            BY <2>2, <2>3, <2>5, <3>1, <3>2
      <3>6. Traceable'
            BY <3>2, <3>3, <3>4, <3>5 DEF Traceable, Picked, NoAnswer
      <3> QED BY <3>1, <3>2, <3>6 DEF Audited
    <2>10. AloneAtWork(c)'
          BY <2>8, RestHolds DEF AloneAtWork
    <2> QED BY <1>1, <1>2, <2>5, <2>6, <2>7, <2>8, <2>9, <2>10, RestHolds, OthersRest, CheckMoves
  <1> QED BY <1>3, <1>4

LEMMA SignalKept == SignalInv /\ [SignalNext]_signalVars => SignalInv'
  <1> SUFFICES ASSUME SignalInv, [SignalNext]_signalVars PROVE SignalInv'
      OBVIOUS
  (* Steps that leave every check and the row alone.                       *)
  <1>1. ASSUME UNCHANGED <<signal, messages, check>>, dayHolder' = dayHolder \/ "lock" \in mishaps',
               \E c \in Checkers : dayHolder' \in {dayHolder, dayHolder \ {c}},
               active' \subseteq Sources, formal' \subseteq Sources, late' \in BOOLEAN,
               "lock" \notin mishaps' => "lock" \notin mishaps
        PROVE  SignalInv'
    <2>1. DayHeld' /\ OneMessage'
          BY <1>1 DEF SignalInv, SignalTypes, DayHeld, OneMessage
    <2>2. dayHolder' = dayHolder /\ Alone => Alone'
          BY <1>1 DEF Alone, AloneAtWork, Audited, AllAsked, Traceable, Picked
    <2> QED BY <1>1, <2>1, <2>2 DEF SignalInv, SignalTypes
  <1>2. ASSUME UNCHANGED <<signal, messages, check, dayHolder>>,
               active' \subseteq Sources, formal' \subseteq Sources, late' \in BOOLEAN,
               "lock" \notin mishaps' => "lock" \notin mishaps
        PROVE  SignalInv'
    <2>1. DayHeld' /\ OneMessage'
          BY <1>2 DEF SignalInv, SignalTypes, DayHeld, OneMessage
    <2>2. Alone => Alone'
          BY <1>2 DEF Alone, AloneAtWork, Audited, AllAsked, Traceable, Picked
    <2> QED BY <1>2, <2>1, <2>2 DEF SignalInv, SignalTypes
  <1>3. \A kind : Mishap(kind) => ("lock" \notin mishaps' => "lock" \notin mishaps)
        BY DEF Mishap
  <1>4. active \subseteq Sources /\ formal \subseteq Sources /\ late \in BOOLEAN
        BY DEF SignalInv, SignalTypes
  <1>5. CASE CutoffPasses
        BY <1>2, <1>4, <1>5 DEF CutoffPasses
  <1>6. ASSUME NEW s \in Sources, SourceStarts(s) PROVE SignalInv'
        BY <1>2, <1>3, <1>4, <1>6 DEF SourceStarts
  <1>7. ASSUME NEW s \in Sources, SourceEnds(s) PROVE SignalInv'
        BY <1>2, <1>4, <1>7 DEF SourceEnds
  <1>8. ASSUME NEW c \in Checkers, LosesDay(c) PROVE SignalInv'
        BY <1>1, <1>4, <1>8 DEF LosesDay, Mishap, sourceVars
  <1>9. ASSUME NEW c \in Checkers, CallFails(c) PROVE SignalInv'
    <2>1. PICK s : s = [signal EXCEPT !.status = "failed"]
          OBVIOUS
    <2> QED BY <1>9, <2>1, FailureKeeps DEF CallFails
  <1>10. ASSUME NEW c \in Checkers, CheckKilled(c) PROVE SignalInv'
    <2>1. Alone => Audited(signal.frozen, signal.screening)'
                   /\ (signal'.status = "absent" => signal'.screening = {})
          BY <1>10 DEF CheckKilled, Alone, Audited
    <2>2. signal \in Signals
          BY DEF SignalInv, SignalTypes
    <2> QED BY <1>10, <2>1, <2>2, CheckEnds DEF CheckKilled, Final
  <1>11. CASE UNCHANGED signalVars
         BY <1>2, <1>4, <1>11 DEF signalVars
  <1> QED BY <1>5, <1>6, <1>7, <1>8, <1>9, <1>10, <1>11, CheckKeeps, CollectKeeps, ScreenKeeps,
             PromptKeeps, FinalKeeps, CompleteKeeps DEF SignalNext

(* The market and day says one thing: a completed row has one message, its *)
(* decision's, and no other row has any; and as long as no session lost    *)
(* the lock, the completed row accounts for every frozen candidate.        *)
THEOREM OneSignal == SignalSpec => []SignalIsOne
  <1>1. SignalInv => SignalIsOne
        BY DEF SignalInv, OneMessage, SignalIsOne, Alone
  <1> QED BY <1>1, SignalStarts, SignalKept, PTL DEF SignalSpec

-----------------------------------------------------------------------------
(* EarningsOutlook                                                         *)

Outlooks == [pointer : Nat, frozen : BOOLEAN, frozenFor : Schedules \cup {NoSchedule}]
RoundPlaces == {"idle", "collect", "research", "prepare", "predict", "save", "review"}
Rounds   == [at : RoundPlaces, stage : Stages, read : Schedules \cup {NoSchedule}, period : Periods,
             reported : BOOLEAN, known : Nat]
Versions == [stage : Stages, schedule : Schedules, period : Periods]

(* Every version of the schedule comes before the stage, but for those of  *)
(* rounds without the lock.                                                *)
Ahead(stage, schedule) ==
    \A i \in DOMAIN versions \ strays :
      MatchesSchedule(schedule, versions[i].schedule, versions[i].period) /\ versions[i].stage # "manual"
        => Place(versions[i].stage) < Place(stage)

(* The stage that the holder of the event's lock is about to pay for is    *)
(* still ahead of what has been saved, and what has been saved since it    *)
(* last looked was saved without the lock.                                 *)
RoundSound(r) ==
    /\ round[r].at \notin {"idle", "review"} =>
         /\ round[r].read \in Schedules /\ soonest <= round[r].read.slot
         /\ r \in eventLock /\ round[r].stage # "manual" => Ahead(round[r].stage, round[r].read)
    /\ round[r].at \in {"predict", "save"} /\ r \in eventLock =>
         \A i \in DOMAIN versions : i > round[r].known => i \in strays
    /\ round[r].at = "review" => soonest <= tick

EventHeld == eventLock = {} \/ \E r \in OutlookRounds : eventLock = {r}

(* Nothing was ever promised for a slot before the soonest one, and the    *)
(* outlook is frozen only if that has passed, or by a report.              *)
SoonestIsFirst ==
    /\ soonest <= event.schedule.slot
    /\ \A i \in DOMAIN versions : soonest <= versions[i].schedule.slot

FrozenFairly == outlook.frozen /\ outlook.frozenFor = NoSchedule => event.actual \/ soonest <= tick
NewestPointed == strays = {} => outlook.pointer = Len(versions)

OutlookInv ==
    /\ OutlookTypeOK /\ outlook \in Outlooks /\ round \in [OutlookRounds -> Rounds]
    /\ EventHeld /\ SoonestIsFirst /\ FrozenFairly /\ NewestPointed /\ StagesAdvance
    /\ \A r \in OutlookRounds : RoundSound(r)

LEMMA Places == Place("initial") = 1 /\ Place("near") = 2 /\ Place("final") = 3
  <1>1. DOMAIN Automatic = 1..3 /\ Automatic[1] = "initial" /\ Automatic[2] = "near" /\ Automatic[3] = "final"
        BY DEF Automatic
  <1>2. \A n \in 1..3 : n = 1 \/ n = 2 \/ n = 3
        OBVIOUS
  <1>3. ASSUME NEW n \in 1..3, NEW m \in 1..3, Automatic[n] = Automatic[m]
        PROVE  n = m
        BY <1>1, <1>2, <1>3
  <1>4. ASSUME NEW n \in 1..3
        PROVE  Place(Automatic[n]) = n
    <2>1. n \in DOMAIN Automatic /\ \A m \in DOMAIN Automatic : Automatic[m] = Automatic[n] => m = n
          BY <1>1, <1>3
    <2> QED BY <2>1 DEF Place
  <1> QED BY <1>1, <1>4

LEMMA OutlookTypes ==
    ASSUME OutlookInv
    PROVE  /\ outlook \in Outlooks /\ round \in [OutlookRounds -> Rounds]
           /\ event \in [schedule : Schedules, actual : BOOLEAN]
           /\ event.schedule \in Schedules /\ event.schedule.slot \in ReleaseSlots
           /\ tick \in 0..LastTick /\ deferred \subseteq [asked : Asked, expires : ReleaseSlots]
           /\ extra \in 0..MaxExtra /\ changes \in 0..MaxChanges /\ soonest \in ReleaseSlots
           /\ strays \subseteq DOMAIN versions
           /\ versions \in Seq(Versions) /\ \A i \in DOMAIN versions : versions[i] \in Versions
           /\ ReleaseSlots \subseteq Nat /\ tick \in Nat /\ soonest \in Nat /\ event.schedule.slot \in Nat
  <1>1. OutlookTypeOK /\ outlook \in Outlooks /\ round \in [OutlookRounds -> Rounds]
        BY DEF OutlookInv
  <1>2. versions \in Seq(Versions)
        BY <1>1 DEF OutlookTypeOK, Versions
  <1>3. \A i \in DOMAIN versions : versions[i] \in Versions
        BY <1>2
  <1>4. event.schedule \in Schedules /\ event.schedule.slot \in ReleaseSlots
        BY <1>1 DEF OutlookTypeOK, Schedules
  <1>5. ReleaseSlots \subseteq Nat /\ tick \in Nat
        BY <1>1, OutlookAssumption DEF OutlookTypeOK
  <1> QED BY <1>1, <1>2, <1>3, <1>4, <1>5 DEF OutlookTypeOK

LEMMA SlotsAreNat == ASSUME NEW s \in Schedules PROVE s.slot \in Nat /\ s.slot \in ReleaseSlots
  BY OutlookAssumption DEF Schedules

LEMMA NotDoneIsAhead ==
    ASSUME OutlookInv, NEW stage \in Stages \ {"manual"}, ~DoneAlready(stage)
    PROVE  Ahead(stage, event.schedule)
  <1>1. ASSUME NEW i \in DOMAIN versions,
               MatchesSchedule(event.schedule, versions[i].schedule, versions[i].period),
               versions[i].stage # "manual"
        PROVE  Place(versions[i].stage) < Place(stage)
    <2>1. stage \notin CompletedStages(versions[i])
          BY <1>1 DEF DoneAlready, Completed
    <2>2. versions[i].stage \in Stages
      <3>1. versions[i] \in Versions
            BY OutlookTypes
      <3> QED BY <3>1 DEF Versions
    <2> QED BY <1>1, <2>1, <2>2, Places DEF CompletedStages, Stages
  <1> QED BY <1>1 DEF Ahead

(* What a step that saves nothing does not touch stays sound.              *)
LEMMA RoundStays ==
    ASSUME OutlookInv, NEW r \in OutlookRounds, round'[r] = round[r], versions' = versions, strays' = strays,
           soonest' \in Nat, soonest' <= soonest, tick' \in Nat, tick <= tick',
           r \in eventLock' => r \in eventLock
    PROVE  RoundSound(r)'
  <1>1. tick \in Nat /\ soonest \in Nat /\ RoundSound(r)
        BY OutlookTypes DEF OutlookInv
  <1>2. ASSUME round[r].at \notin {"idle", "review"}
        PROVE  /\ round'[r].read \in Schedules /\ soonest' <= round'[r].read.slot
               /\ r \in eventLock' /\ round'[r].stage # "manual" => Ahead(round[r].stage, round[r].read)'
    <2>1. round[r].read \in Schedules /\ soonest <= round[r].read.slot
          BY <1>1, <1>2 DEF RoundSound
    <2>2. soonest' <= round[r].read.slot
          BY <1>1, <2>1, SlotsAreNat
    <2>3. r \in eventLock' /\ round'[r].stage # "manual" => Ahead(round[r].stage, round[r].read)'
          BY <1>1, <1>2 DEF RoundSound, Ahead, MatchesSchedule
    <2> QED BY <2>1, <2>2, <2>3
  <1>3. round[r].at = "review" => soonest' <= tick'
        BY <1>1 DEF RoundSound
  <1> QED BY <1>1, <1>2, <1>3 DEF RoundSound

(* A step that saves nothing.                                              *)
LEMMA NothingSaved ==
    ASSUME OutlookInv, versions' = versions, strays' = strays,
           outlook' \in Outlooks, outlook'.pointer = outlook.pointer, FrozenFairly',
           tick' \in 0..LastTick, event' \in [schedule : Schedules, actual : BOOLEAN],
           soonest' \in ReleaseSlots, soonest' <= soonest, soonest' <= event'.schedule.slot,
           deferred' \subseteq [asked : Asked, expires : ReleaseSlots],
           extra' \in 0..MaxExtra, changes' \in 0..MaxChanges,
           round' \in [OutlookRounds -> Rounds], EventHeld',
           \A r \in OutlookRounds : RoundSound(r)'
    PROVE  OutlookInv'
  <1>0. eventLock' \subseteq OutlookRounds /\ Cardinality(eventLock') <= 1
    <2>1. Cardinality({}) = 0 /\ \A r \in OutlookRounds : Cardinality({r}) = 1
          BY FS_EmptySet, FS_Singleton
    <2>2. CASE eventLock' = {}
          BY <2>1, <2>2
    <2>3. ASSUME NEW r \in OutlookRounds, eventLock' = {r}
          PROVE  eventLock' \subseteq OutlookRounds /\ Cardinality(eventLock') <= 1
          BY <2>1, <2>3
    <2> QED BY <2>2, <2>3 DEF EventHeld
  <1>1. OutlookTypeOK'
    <2>1. \A r \in OutlookRounds : round'[r].at \in RoundPlaces
          BY DEF Rounds
    <2> QED BY <1>0, <2>1 DEF OutlookInv, OutlookTypeOK, Outlooks, RoundPlaces
  <1>2. StagesAdvance' /\ NewestPointed'
        BY DEF OutlookInv, StagesAdvance, NewestPointed, MatchesSchedule
  <1>3. SoonestIsFirst'
    <2>1. ASSUME NEW i \in DOMAIN versions PROVE soonest' <= versions'[i].schedule.slot
      <3>1. versions[i].schedule \in Schedules /\ soonest \in Nat /\ soonest' \in Nat
            BY OutlookTypes DEF Versions
      <3>2. soonest <= versions[i].schedule.slot
            BY DEF OutlookInv, SoonestIsFirst
      <3> QED BY <3>1, <3>2, SlotsAreNat
    <2> QED BY <2>1 DEF SoonestIsFirst
  <1> QED BY <1>1, <1>2, <1>3 DEF OutlookInv

OtherRoundsStay(r) == \A q \in OutlookRounds \ {r} : round'[q] = round[q]

(* A step of r that saves nothing.                                         *)
LEMMA RoundSteps ==
    ASSUME OutlookInv, NEW r \in OutlookRounds,
           round' \in [OutlookRounds -> Rounds], OtherRoundsStay(r), RoundSound(r)', EventHeld',
           eventLock' \subseteq eventLock \cup {r},
           outlook' \in Outlooks, outlook'.pointer = outlook.pointer, FrozenFairly',
           deferred' \subseteq [asked : Asked, expires : ReleaseSlots], extra' \in 0..MaxExtra,
           UNCHANGED <<world, versions, strays>>
    PROVE  OutlookInv'
  <1>1. UNCHANGED <<tick, event, soonest, changes, versions, strays>>
        BY DEF world
  <1>2. \A q \in OutlookRounds : RoundSound(q)'
    <2> TAKE q \in OutlookRounds
    <2>1. CASE q # r
      <3>1. round'[q] = round[q] /\ (q \in eventLock' => q \in eventLock)
            BY <2>1 DEF OtherRoundsStay
      <3>2. soonest' \in Nat /\ soonest' <= soonest /\ tick' \in Nat /\ tick <= tick'
            BY <1>1, OutlookTypes
      <3> QED BY <1>1, <3>1, <3>2, RoundStays
    <2> QED BY <2>1
  <1>3. soonest' <= soonest /\ soonest' <= event'.schedule.slot
        BY <1>1, OutlookTypes DEF OutlookInv, SoonestIsFirst
  <1> QED BY <1>1, <1>2, <1>3, NothingSaved, OutlookTypes

LEMMA MarkIs ==
    ASSUME OutlookInv, NEW status, Mark(status), UNCHANGED world,
           status = "frozen" => event.actual \/ soonest <= tick
    PROVE  outlook' \in Outlooks /\ outlook'.pointer = outlook.pointer /\ FrozenFairly'
  <1>1. PICK b \in BOOLEAN : b <=> status = "frozen"
        OBVIOUS
  <1>2. outlook' = [outlook EXCEPT !.frozen = b]
        BY <1>1 DEF Mark
  <1>3. outlook' \in Outlooks /\ outlook'.pointer = outlook.pointer /\ outlook'.frozen = b
        BY <1>2 DEF OutlookInv, Outlooks
  <1> QED BY <1>1, <1>3 DEF FrozenFairly, world

LEMMA MarkFrozenIs ==
    ASSUME OutlookInv, NEW schedule \in Schedules, soonest <= schedule.slot, MarkFrozen(schedule), UNCHANGED world
    PROVE  outlook' \in Outlooks /\ outlook'.pointer = outlook.pointer /\ FrozenFairly'
  <1>1. outlook' \in Outlooks /\ outlook'.pointer = outlook.pointer /\ outlook'.frozenFor = schedule
        BY DEF MarkFrozen, OutlookInv, Outlooks
  <1>2. schedule = NoSchedule => soonest <= tick
        BY OutlookTypes, SlotsAreNat DEF NoSchedule
  <1> QED BY <1>1, <1>2 DEF FrozenFairly, world

LEMMA StaysIs ==
    ASSUME OutlookInv, UNCHANGED outlook, UNCHANGED world
    PROVE  outlook' \in Outlooks /\ outlook'.pointer = outlook.pointer /\ FrozenFairly'
  BY DEF OutlookInv, FrozenFairly, world

LEMMA IdleIs == Idle \in Rounds /\ Idle.at = "idle"
  BY DEF Idle, Rounds, RoundPlaces, Stages, Periods

LEMMA EndsIs ==
    ASSUME OutlookInv, NEW r \in OutlookRounds, RoundEnds(r)
    PROVE  /\ round' \in [OutlookRounds -> Rounds] /\ OtherRoundsStay(r) /\ RoundSound(r)' /\ EventHeld'
           /\ eventLock' \subseteq eventLock \cup {r}
  <1>1. round' = [round EXCEPT ![r] = Idle] /\ eventLock' = eventLock \ {r}
        BY DEF RoundEnds
  <1>2. PICK idle \in Rounds : idle = Idle /\ idle.at = "idle"
        BY IdleIs
  <1>3. round' \in [OutlookRounds -> Rounds] /\ OtherRoundsStay(r) /\ round'[r].at = "idle"
        BY <1>1, <1>2 DEF OutlookInv, OtherRoundsStay
  <1> QED BY <1>1, <1>3 DEF OutlookInv, RoundSound, EventHeld

(* A round goes on with what it read; it knows what it knew, or has looked *)
(* again.                                                                  *)
LEMMA GoesOn ==
    ASSUME OutlookInv, NEW r \in OutlookRounds, round[r].at \notin {"idle", "review"},
           NEW to \in Rounds, to.at # "review", to.read = round[r].read, to.stage = round[r].stage,
           to.at \in {"predict", "save"} =>
             \/ to.known = Len(versions)
             \/ round[r].at \in {"predict", "save"} /\ to.known = round[r].known,
           round' = [round EXCEPT ![r] = to], UNCHANGED <<eventLock, world, versions, strays>>
    PROVE  /\ round' \in [OutlookRounds -> Rounds] /\ OtherRoundsStay(r) /\ RoundSound(r)' /\ EventHeld'
           /\ eventLock' \subseteq eventLock \cup {r}
  <1>1. round' \in [OutlookRounds -> Rounds] /\ OtherRoundsStay(r) /\ round'[r] = to
        BY DEF OutlookInv, OtherRoundsStay
  <1>2. RoundSound(r) /\ soonest' = soonest
        BY DEF OutlookInv, world
  <1>3. to.read \in Schedules /\ soonest' <= to.read.slot
        /\ (r \in eventLock' /\ to.stage # "manual" => Ahead(to.stage, to.read)')
        BY <1>2 DEF RoundSound, Ahead, MatchesSchedule
  <1>4. ASSUME to.at \in {"predict", "save"}, r \in eventLock', NEW i \in DOMAIN versions, i > to.known
        PROVE  i \in strays
    <2>1. i \in 1..Len(versions) /\ Len(versions) \in Nat
          BY OutlookTypes
    <2> QED BY <1>2, <1>4, <2>1 DEF RoundSound
  <1>5. RoundSound(r)'
    <2>1. to.at \in {"predict", "save"} /\ r \in eventLock' =>
            \A i \in DOMAIN versions' : i > to.known => i \in strays'
          BY <1>4
    <2> QED BY <1>1, <1>3, <2>1 DEF RoundSound
  <1> QED BY <1>1, <1>5 DEF OutlookInv, EventHeld

LEMMA DeferIs ==
    ASSUME OutlookInv, NEW asked \in Asked, Defer(asked)
    PROVE  deferred' \subseteq [asked : Asked, expires : ReleaseSlots] /\ extra' \in 0..MaxExtra
  <1>1. CASE UNCHANGED <<deferred, extra>>
        BY <1>1, OutlookTypes
  <1>2. CASE OneMore /\ deferred' = deferred \cup {[asked |-> asked, expires |-> event.schedule.slot]}
    <2>1. extra' \in 0..MaxExtra
          BY <1>2, OutlookTypes, OutlookAssumption DEF OneMore
    <2>2. [asked |-> asked, expires |-> event.schedule.slot] \in [asked : Asked, expires : ReleaseSlots]
          BY OutlookTypes
    <2> QED BY <1>2, <2>1, <2>2, OutlookTypes
  <1> QED BY <1>1, <1>2 DEF Defer

(* What is so while no round moves, and what a step may do beside.         *)
LEMMA NoRoundMoves ==
    ASSUME OutlookInv, UNCHANGED <<world, versions, strays, round>>, eventLock' \in {eventLock, {}},
           outlook' \in Outlooks, outlook'.pointer = outlook.pointer, FrozenFairly',
           deferred' \subseteq [asked : Asked, expires : ReleaseSlots], extra' \in 0..MaxExtra
    PROVE  OutlookInv'
  <1>1. UNCHANGED <<tick, event, soonest, changes, versions, strays>>
        BY DEF world
  <1>2. EventHeld' /\ soonest' <= soonest /\ soonest' <= event'.schedule.slot
        BY <1>1, OutlookTypes DEF OutlookInv, EventHeld, SoonestIsFirst
  <1>3. \A r \in OutlookRounds : RoundSound(r)'
    <2> TAKE r \in OutlookRounds
    <2>1. round'[r] = round[r] /\ (r \in eventLock' => r \in eventLock)
          OBVIOUS
    <2>2. soonest' \in Nat /\ soonest' <= soonest /\ tick' \in Nat /\ tick <= tick'
          BY <1>1, OutlookTypes
    <2> QED BY <2>1, <2>2, RoundStays
  <1> QED BY <1>1, <1>2, <1>3, NothingSaved, OutlookTypes

(* A round begins with a stage that is not done.                           *)
LEMMA DecideIsSound ==
    ASSUME OutlookInv, NEW r \in OutlookRounds, NEW asked \in Asked, DecideRound(r, asked),
           UNCHANGED <<world, versions, strays>>,
           deferred' \subseteq [asked : Asked, expires : ReleaseSlots], extra' \in 0..MaxExtra
    PROVE  OutlookInv'
  <1>1. PICK stage : stage = StageOf(asked, event.schedule.slot)
        OBVIOUS
  <1>2. stage \in Stages
        BY <1>1 DEF StageOf, Stages
  <1>3. \/ Mark("ineligible") /\ UNCHANGED atWork
        \/ MarkFrozen(event.schedule) /\ UNCHANGED atWork
        \/ UNCHANGED <<outlook, atWork>>
        \/ /\ ~DoneAlready(stage) /\ Mark("processing") /\ eventLock' = {r} /\ round[r] = Idle
           /\ round' = [round EXCEPT ![r].at = "collect", ![r].stage = stage, ![r].read = event.schedule]
        BY <1>1 DEF DecideRound
  <1>4. CASE UNCHANGED atWork
    <2>1. UNCHANGED <<round, eventLock>>
          BY <1>4 DEF atWork
    <2>2. CASE Mark("ineligible") \/ Mark("processing")
      <3>1. outlook' \in Outlooks /\ outlook'.pointer = outlook.pointer /\ FrozenFairly'
            BY <2>2, MarkIs
      <3> QED BY <2>1, <3>1, NoRoundMoves
    <2>3. CASE MarkFrozen(event.schedule)
      <3>1. PICK s \in Schedules : s = event.schedule /\ soonest <= s.slot
            BY OutlookTypes DEF OutlookInv, SoonestIsFirst
      <3>2. outlook' \in Outlooks /\ outlook'.pointer = outlook.pointer /\ FrozenFairly'
            BY <2>3, <3>1, MarkFrozenIs
      <3> QED BY <2>1, <3>2, NoRoundMoves
    <2>4. CASE UNCHANGED outlook
      <3>1. outlook' \in Outlooks /\ outlook'.pointer = outlook.pointer /\ FrozenFairly'
            BY <2>4, StaysIs
      <3> QED BY <2>1, <3>1, NoRoundMoves
    <2> QED BY <1>3, <2>2, <2>3, <2>4
  <1>5. CASE /\ ~DoneAlready(stage) /\ Mark("processing") /\ eventLock' = {r} /\ round[r] = Idle
             /\ round' = [round EXCEPT ![r].at = "collect", ![r].stage = stage, ![r].read = event.schedule]
    <2>1. PICK to : to = [Idle EXCEPT !.at = "collect", !.stage = stage, !.read = event.schedule]
          OBVIOUS
    <2>2. to \in Rounds /\ to.at = "collect" /\ to.stage = stage /\ to.read = event.schedule
      <3>1. event.schedule \in Schedules /\ "none" \in Periods /\ "collect" \in RoundPlaces
            BY OutlookTypes DEF Periods, RoundPlaces
      <3>2. to = [at |-> "collect", stage |-> stage, read |-> event.schedule, period |-> "none",
                  reported |-> FALSE, known |-> 0]
            BY <2>1 DEF Idle
      <3> QED BY <1>2, <3>1, <3>2 DEF Rounds
    <2>3. round' = [round EXCEPT ![r] = to]
          BY <1>5, <2>1
    <2>4. round' \in [OutlookRounds -> Rounds] /\ OtherRoundsStay(r) /\ round'[r] = to
          BY <2>2, <2>3 DEF OutlookInv, OtherRoundsStay
    <2>5. stage # "manual" => Ahead(stage, event.schedule)
          BY <1>2, <1>5, NotDoneIsAhead
    <2>6. RoundSound(r)'
      <3>1. event.schedule \in Schedules /\ soonest' <= event.schedule.slot
            BY OutlookTypes DEF OutlookInv, SoonestIsFirst, world
      <3>2. stage # "manual" => Ahead(to.stage, to.read)'
            BY <2>2, <2>5 DEF Ahead, MatchesSchedule
      <3> QED BY <2>2, <2>4, <3>1, <3>2 DEF RoundSound
    <2>7. EventHeld' /\ eventLock' \subseteq eventLock \cup {r}
          BY <1>5 DEF EventHeld
    <2>8. outlook' \in Outlooks /\ outlook'.pointer = outlook.pointer /\ FrozenFairly'
          BY <1>5, MarkIs
    <2> QED BY <2>4, <2>6, <2>7, <2>8, RoundSteps
  <1> QED BY <1>3, <1>4, <1>5 DEF atWork

(* A round that ends, whatever it marks.                                   *)
LEMMA EndingIsSound ==
    ASSUME OutlookInv, NEW r \in OutlookRounds, RoundEnds(r), UNCHANGED <<world, versions, strays>>,
           outlook' \in Outlooks, outlook'.pointer = outlook.pointer, FrozenFairly',
           deferred' \subseteq [asked : Asked, expires : ReleaseSlots], extra' \in 0..MaxExtra
    PROVE  OutlookInv'
  BY EndsIs, RoundSteps

LEMMA MarkedIsSound ==
    ASSUME OutlookInv, NEW r \in OutlookRounds, RoundEnds(r), UNCHANGED <<world, versions, strays>>,
           NEW status, Mark(status), status = "frozen" => event.actual \/ soonest <= tick,
           deferred' \subseteq [asked : Asked, expires : ReleaseSlots], extra' \in 0..MaxExtra
    PROVE  OutlookInv'
  BY MarkIs, EndingIsSound

LEMMA FrozenIsSound ==
    ASSUME OutlookInv, NEW r \in OutlookRounds, round[r].at \notin {"idle", "review"}, RoundEnds(r),
           MarkFrozen(round[r].read), UNCHANGED <<world, versions, strays, deferred, extra>>
    PROVE  OutlookInv'
  <1>1. PICK s \in Schedules : s = round[r].read /\ soonest <= s.slot
        BY DEF OutlookInv, RoundSound
  <1>2. outlook' \in Outlooks /\ outlook'.pointer = outlook.pointer /\ FrozenFairly'
        BY <1>1, MarkFrozenIs
  <1> QED BY <1>2, EndingIsSound, OutlookTypes

LEMMA RoundIs ==
    ASSUME OutlookInv, NEW r \in OutlookRounds
    PROVE  /\ round[r] \in Rounds
           /\ round[r] = [at |-> round[r].at, stage |-> round[r].stage, read |-> round[r].read,
                          period |-> round[r].period, reported |-> round[r].reported, known |-> round[r].known]
           /\ round[r].stage \in Stages /\ round[r].period \in Periods /\ round[r].known \in Nat
           /\ round[r].reported \in BOOLEAN /\ round[r].read \in Schedules \cup {NoSchedule}
  BY OutlookTypes DEF Rounds

LEMMA PassesOn ==
    ASSUME OutlookInv, NEW r \in OutlookRounds, NEW next \in {"research", "save"}, Goes(r, next),
           round[r].at \notin {"idle", "review"}, next = "save" => round[r].at = "predict",
           UNCHANGED <<outlook, world, versions, strays, deferred, extra>>
    PROVE  OutlookInv'
  <1>1. PICK to : to = [round[r] EXCEPT !.at = next]
        OBVIOUS
  <1>2. /\ to \in Rounds /\ to.at = next /\ to.read = round[r].read /\ to.stage = round[r].stage
        /\ to.known = round[r].known
        BY <1>1, RoundIs DEF Rounds, RoundPlaces
  <1>3. round' = [round EXCEPT ![r] = to] /\ UNCHANGED eventLock
        BY <1>1 DEF Goes
  <1> QED BY <1>2, <1>3, GoesOn, StaysIs, RoundSteps, OutlookTypes

LEMMA CollectIsSound == ASSUME OutlookInv, NEW r \in OutlookRounds, CollectData(r) PROVE OutlookInv'
  <1>1. round[r].at = "collect" /\ UNCHANGED <<world, versions, strays, deferred, extra>>
        BY DEF CollectData
  <1>2. CASE MarkFrozen(round[r].read) /\ RoundEnds(r)
        BY <1>1, <1>2, FrozenIsSound
  <1>3. CASE Goes(r, "research") /\ UNCHANGED outlook
        BY <1>1, <1>3, PassesOn
  <1>4. CASE RoundFails(r)
        BY <1>1, <1>4, MarkedIsSound, OutlookTypes DEF RoundFails
  <1> QED BY <1>2, <1>3, <1>4 DEF CollectData

LEMMA BusyIsSound == ASSUME OutlookInv, NEW r \in OutlookRounds, SlotsBusy(r) PROVE OutlookInv'
  <1>1. PICK asked \in Asked : asked = AskedFor(round[r].stage)
        BY DEF AskedFor, Asked
  <1>2. deferred' \subseteq [asked : Asked, expires : ReleaseSlots] /\ extra' \in 0..MaxExtra
        BY <1>1, DeferIs DEF SlotsBusy
  <1> QED BY <1>2, MarkedIsSound DEF SlotsBusy

LEMMA ResearchIsSound == ASSUME OutlookInv, NEW r \in OutlookRounds, Research(r) PROVE OutlookInv'
  <1>1. round[r].at = "research" /\ UNCHANGED <<world, versions, strays, deferred, extra>>
        BY DEF Research
  <1>2. CASE \E quarter \in Known(round[r].read), said \in BOOLEAN :
               /\ round' = [round EXCEPT ![r].at = "prepare", ![r].period = quarter, ![r].reported = said]
               /\ UNCHANGED <<outlook, eventLock>>
    <2>1. PICK quarter \in Known(round[r].read), said \in BOOLEAN :
            /\ round' = [round EXCEPT ![r].at = "prepare", ![r].period = quarter, ![r].reported = said]
            /\ UNCHANGED <<outlook, eventLock>>
          BY <1>2
    <2>2. quarter \in Periods
      <3>1. round[r].read \in Schedules
            BY <1>1 DEF OutlookInv, RoundSound
      <3> QED BY <3>1 DEF Known, Schedules
    <2>3. PICK to : to = [round[r] EXCEPT !.at = "prepare", !.period = quarter, !.reported = said]
          OBVIOUS
    <2>4. to \in Rounds /\ to.at = "prepare" /\ to.read = round[r].read /\ to.stage = round[r].stage
          BY <2>2, <2>3, RoundIs DEF Rounds, RoundPlaces
    <2>5. round' = [round EXCEPT ![r] = to]
          BY <2>1, <2>3
    <2> QED BY <1>1, <2>1, <2>4, <2>5, GoesOn, StaysIs, RoundSteps, OutlookTypes
  <1>3. CASE RoundFails(r)
        BY <1>1, <1>3, MarkedIsSound, OutlookTypes DEF RoundFails
  <1> QED BY <1>2, <1>3 DEF Research

LEMMA PrepareIsSound == ASSUME OutlookInv, NEW r \in OutlookRounds, Prepare(r) PROVE OutlookInv'
  <1>1. round[r].at = "prepare" /\ UNCHANGED <<world, versions, strays, deferred, extra>>
        BY DEF Prepare
  <1>2. Released(event.actual, round[r].read.slot) => event.actual \/ soonest <= tick
    <2>1. round[r].read \in Schedules /\ soonest <= round[r].read.slot
          BY <1>1 DEF OutlookInv, RoundSound
    <2> QED BY <2>1, SlotsAreNat, OutlookTypes DEF Released
  <1>3. PICK status : status = IF Released(event.actual, round[r].read.slot) THEN "frozen" ELSE "superseded"
        OBVIOUS
  <1>4. status = "frozen" => event.actual \/ soonest <= tick
        BY <1>2, <1>3
  <1>5. \/ MarkFrozen(round[r].read) /\ RoundEnds(r)
        \/ Mark("success") /\ RoundEnds(r)
        \/ /\ round' = [round EXCEPT ![r].at = "predict", ![r].known = Len(versions)]
           /\ UNCHANGED <<outlook, eventLock>>
        \/ Mark(status) /\ RoundEnds(r)
        BY <1>3 DEF Prepare
  <1>6. CASE MarkFrozen(round[r].read) /\ RoundEnds(r)
        BY <1>1, <1>6, FrozenIsSound
  <1>7. CASE Mark("success") /\ RoundEnds(r)
        BY <1>1, <1>7, MarkedIsSound, OutlookTypes
  <1>8. CASE /\ round' = [round EXCEPT ![r].at = "predict", ![r].known = Len(versions)]
             /\ UNCHANGED <<outlook, eventLock>>
    <2>1. PICK n \in Nat : n = Len(versions)
          BY OutlookTypes
    <2>2. PICK to : to = [round[r] EXCEPT !.at = "predict", !.known = n]
          OBVIOUS
    <2>3. /\ to \in Rounds /\ to.at = "predict" /\ to.read = round[r].read /\ to.stage = round[r].stage
          /\ to.known = n
          BY <2>2, RoundIs DEF Rounds, RoundPlaces
    <2>4. round' = [round EXCEPT ![r] = to]
          BY <1>8, <2>1, <2>2
    <2> QED BY <1>1, <1>8, <2>1, <2>3, <2>4, GoesOn, StaysIs, RoundSteps, OutlookTypes
  <1>9. CASE Mark(status) /\ RoundEnds(r)
        BY <1>1, <1>4, <1>9, MarkedIsSound, OutlookTypes
  <1> QED BY <1>5, <1>6, <1>7, <1>8, <1>9

LEMMA PredictIsSound == ASSUME OutlookInv, NEW r \in OutlookRounds, Predict(r) PROVE OutlookInv'
  <1>1. round[r].at = "predict" /\ UNCHANGED <<world, versions, strays, deferred, extra>>
        BY DEF Predict
  <1>2. CASE Goes(r, "save") /\ UNCHANGED outlook
        BY <1>1, <1>2, PassesOn
  <1>3. CASE Mark("ineligible") /\ RoundEnds(r)
        BY <1>1, <1>3, MarkedIsSound, OutlookTypes
  <1>4. CASE RoundFails(r)
        BY <1>1, <1>4, MarkedIsSound, OutlookTypes DEF RoundFails
  <1> QED BY <1>2, <1>3, <1>4 DEF Predict

LEMMA ReviewIsSound ==
    ASSUME OutlookInv, NEW r \in OutlookRounds, StartReview(r) \/ FinishReview(r) PROVE OutlookInv'
  <1>1. CASE StartReview(r)
    <2>1. UNCHANGED <<world, versions, strays, deferred, extra>> /\ round[r] = Idle
          BY <1>1 DEF StartReview
    <2>2. PICK i \in DOMAIN versions :
            /\ versions[i].schedule.slot <= tick
            /\ \/ /\ round' = [round EXCEPT ![r].at = "review"] /\ eventLock' = {r} /\ UNCHANGED outlook
               \/ Mark("superseded") /\ UNCHANGED atWork
          BY <1>1 DEF StartReview, Range
    <2>3. soonest <= tick
      <3>1. versions[i].schedule \in Schedules /\ soonest <= versions[i].schedule.slot
            BY OutlookTypes DEF Versions, OutlookInv, SoonestIsFirst
      <3> QED BY <2>2, <3>1, SlotsAreNat, OutlookTypes
    <2>4. CASE round' = [round EXCEPT ![r].at = "review"] /\ eventLock' = {r} /\ UNCHANGED outlook
      <3>1. PICK to : to = [round[r] EXCEPT !.at = "review"]
            OBVIOUS
      <3>2. to \in Rounds /\ to.at = "review"
            BY <3>1, RoundIs DEF Rounds, RoundPlaces
      <3>3. round' = [round EXCEPT ![r] = to]
            BY <2>4, <3>1
      <3>4. round' \in [OutlookRounds -> Rounds] /\ OtherRoundsStay(r) /\ round'[r] = to
            BY <3>2, <3>3 DEF OutlookInv, OtherRoundsStay
      <3>5. RoundSound(r)'
            BY <2>1, <2>3, <3>2, <3>4 DEF RoundSound, world
      <3>6. EventHeld' /\ eventLock' \subseteq eventLock \cup {r}
            BY <2>4 DEF EventHeld
      <3> QED BY <2>1, <2>4, <3>4, <3>5, <3>6, StaysIs, RoundSteps, OutlookTypes
    <2>5. CASE Mark("superseded") /\ UNCHANGED atWork
      <3>1. outlook' \in Outlooks /\ outlook'.pointer = outlook.pointer /\ FrozenFairly'
            BY <2>1, <2>5, MarkIs
      <3> QED BY <2>1, <2>5, <3>1, NoRoundMoves, OutlookTypes DEF atWork
    <2> QED BY <2>2, <2>4, <2>5
  <1>2. CASE FinishReview(r)
    <2>1. soonest <= tick /\ RoundEnds(r) /\ UNCHANGED <<world, versions, strays, deferred, extra>>
          BY <1>2 DEF FinishReview, OutlookInv, RoundSound
    <2>2. CASE Mark("frozen")
          BY <2>1, <2>2, MarkedIsSound, OutlookTypes
    <2>3. CASE UNCHANGED outlook
          BY <2>1, <2>3, StaysIs, EndingIsSound, OutlookTypes
    <2> QED BY <1>2, <2>2, <2>3 DEF FinishReview
  <1> QED BY <1>1, <1>2

(***************************************************************************)
(* Saving: what another round holds is still ahead, because it is not the  *)
(* holder of the lock or the version is a stray.                           *)
(***************************************************************************)
LEMMA SaveTypes ==
    ASSUME OutlookInv, NEW r \in OutlookRounds, round[r].at = "save", RoundEnds(r),
           UNCHANGED <<world, deferred, extra>>,
           versions' \in Seq(Versions), DOMAIN versions \subseteq DOMAIN versions',
           strays \subseteq strays', strays' \subseteq DOMAIN versions',
           NEW n \in DOMAIN versions',
           outlook' = [outlook EXCEPT !.pointer = n, !.frozen = FALSE]
    PROVE  /\ OutlookTypeOK' /\ outlook' \in Outlooks /\ FrozenFairly' /\ outlook'.pointer = n
           /\ round' \in [OutlookRounds -> Rounds] /\ EventHeld' /\ RoundSound(r)' /\ OtherRoundsStay(r)
  <1>1. /\ round' \in [OutlookRounds -> Rounds] /\ EventHeld' /\ RoundSound(r)' /\ OtherRoundsStay(r)
        BY EndsIs
  <1>2. n \in 1..Len(versions') /\ Len(versions') \in Nat
        OBVIOUS
  <1>3. /\ outlook' \in Outlooks /\ outlook'.pointer = n /\ outlook'.frozen = FALSE
        /\ outlook'.frozenFor = outlook.frozenFor
    <2>1. outlook \in Outlooks /\ n \in Nat
          BY <1>2, OutlookTypes
    <2> QED BY <2>1 DEF Outlooks
  <1>4. OutlookTypeOK'
    <2>1. (versions \in Seq([stage : Stages, schedule : Schedules, period : Periods]))'
          BY DEF Versions
    <2>2. outlook'.pointer \in 0..Len(versions')
          BY <1>2, <1>3
    <2>3. outlook'.frozen \in BOOLEAN /\ outlook'.frozenFor \in Schedules \cup {NoSchedule}
          BY <1>3 DEF Outlooks
    <2>4. \A q \in OutlookRounds : round'[q].at \in RoundPlaces
          BY <1>1 DEF Rounds
    <2>5. eventLock' \subseteq OutlookRounds /\ Cardinality(eventLock') <= 1
      <3>1. Cardinality({}) = 0 /\ \A q \in OutlookRounds : Cardinality({q}) = 1
            BY FS_EmptySet, FS_Singleton
      <3>2. CASE eventLock' = {}
            BY <3>1, <3>2
      <3>3. ASSUME NEW q \in OutlookRounds, eventLock' = {q}
            PROVE  eventLock' \subseteq OutlookRounds /\ Cardinality(eventLock') <= 1
            BY <3>1, <3>3
      <3> QED BY <1>1, <3>2, <3>3 DEF EventHeld
    <2>6. /\ tick' \in 0..LastTick /\ event' \in [schedule : Schedules, actual : BOOLEAN]
          /\ deferred' \subseteq [asked : Asked, expires : ReleaseSlots]
          /\ extra' \in 0..MaxExtra /\ changes' \in 0..MaxChanges /\ soonest' \in ReleaseSlots
          BY OutlookTypes DEF world
    <2> QED BY <2>1, <2>2, <2>3, <2>4, <2>5, <2>6 DEF OutlookTypeOK, RoundPlaces
  <1>5. FrozenFairly'
        BY <1>3 DEF FrozenFairly
  <1> QED BY <1>1, <1>3, <1>4, <1>5

LEMMA OthersAreAhead ==
    ASSUME OutlookInv, NEW r \in OutlookRounds, NEW q \in OutlookRounds \ {r}, OtherRoundsStay(r),
           eventLock' = eventLock \ {r}, UNCHANGED world,
           DOMAIN versions \subseteq DOMAIN versions', strays \subseteq strays',
           \A i \in DOMAIN versions : versions'[i] = versions[i],
           r \notin eventLock => DOMAIN versions' \subseteq DOMAIN versions \cup strays'
    PROVE  RoundSound(q)'
  <1>1. round'[q] = round[q] /\ RoundSound(q) /\ soonest' = soonest /\ tick' = tick
        BY DEF OtherRoundsStay, OutlookInv, world
  <1>2. q \in eventLock' => q \in eventLock /\ DOMAIN versions' \subseteq DOMAIN versions \cup strays'
        BY DEF OutlookInv, EventHeld
  <1>3. ASSUME q \in eventLock', Ahead(round[q].stage, round[q].read)
        PROVE  Ahead(round[q].stage, round[q].read)'
    <2> SUFFICES ASSUME NEW i \in DOMAIN versions' \ strays',
                        MatchesSchedule(round[q].read, versions'[i].schedule, versions'[i].period),
                        versions'[i].stage # "manual"
                 PROVE  Place(versions'[i].stage) < Place(round[q].stage)
        BY <1>1 DEF Ahead, MatchesSchedule
    <2>1. i \in DOMAIN versions \ strays /\ versions'[i] = versions[i]
          BY <1>2, <1>3
    <2> QED BY <1>3, <2>1 DEF Ahead
  <1>4. ASSUME q \in eventLock', round[q].at \in {"predict", "save"}, NEW i \in DOMAIN versions', i > round[q].known
        PROVE  i \in strays'
        BY <1>1, <1>2, <1>4 DEF RoundSound
  <1>5. /\ round[q].at \notin {"idle", "review"} =>
             /\ round[q].read \in Schedules /\ soonest' <= round[q].read.slot
             /\ q \in eventLock' /\ round[q].stage # "manual" => Ahead(round[q].stage, round[q].read)'
        /\ round[q].at = "review" => soonest' <= tick'
        BY <1>1, <1>2, <1>3 DEF RoundSound
  <1> QED BY <1>1, <1>4, <1>5 DEF RoundSound

LEMMA AppendIsSound ==
    ASSUME OutlookInv, NEW r \in OutlookRounds, round[r].at = "save", RoundEnds(r),
           versions' = Append(versions, Input(r)),
           outlook' = [outlook EXCEPT !.pointer = Len(versions'), !.frozen = FALSE],
           Strays(r, Len(versions')), UNCHANGED <<world, deferred, extra>>
    PROVE  OutlookInv'
  <1>1. /\ versions \in Seq(Versions) /\ round[r].read \in Schedules /\ soonest <= round[r].read.slot
        /\ round[r].stage \in Stages /\ round[r].period \in Periods
        BY OutlookTypes, RoundIs DEF OutlookInv, RoundSound
  <1>2. PICK v \in Versions : v = Input(r)
    <2>1. Input(r) \in Versions
          BY <1>1 DEF Input, Versions
    <2> QED BY <2>1
  <1>3. v.stage = round[r].stage /\ v.schedule = round[r].read
        BY <1>2 DEF Input
  <1>4. PICK n \in Nat : n = Len(versions) + 1
        BY <1>1
  <1>5. /\ versions' \in Seq(Versions) /\ Len(versions') = n
        /\ DOMAIN versions' = DOMAIN versions \cup {n} /\ n \notin DOMAIN versions
        /\ versions'[n] = v /\ \A i \in DOMAIN versions : i < n /\ versions'[i] = versions[i]
    <2>1. versions' = Append(versions, v)
          BY <1>2
    <2>2. /\ versions' \in Seq(Versions) /\ Len(versions') = Len(versions) + 1 /\ Len(versions) \in Nat
          /\ DOMAIN versions' = 1..Len(versions) + 1 /\ DOMAIN versions = 1..Len(versions)
          /\ versions'[Len(versions) + 1] = v
          /\ \A i \in 1..Len(versions) : versions'[i] = versions[i]
          BY <1>1, <2>1
    <2> QED BY <1>4, <2>2
  <1>6. /\ strays \subseteq strays' /\ strays' \subseteq DOMAIN versions'
        /\ (r \notin eventLock => n \in strays') /\ (strays' = {} => r \in eventLock)
        /\ \A i \in DOMAIN versions : i \in strays' => i \in strays
        BY <1>5, OutlookTypes DEF Strays
  <1>7. /\ OutlookTypeOK' /\ outlook' \in Outlooks /\ FrozenFairly' /\ outlook'.pointer = n
        /\ round' \in [OutlookRounds -> Rounds] /\ EventHeld' /\ RoundSound(r)' /\ OtherRoundsStay(r)
    <2>1. outlook' = [outlook EXCEPT !.pointer = n, !.frozen = FALSE]
          BY <1>5
    <2> QED BY <1>5, <1>6, <2>1, SaveTypes
  <1>8. \A q \in OutlookRounds : RoundSound(q)'
    <2>1. /\ DOMAIN versions \subseteq DOMAIN versions' /\ eventLock' = eventLock \ {r}
          /\ r \notin eventLock => DOMAIN versions' \subseteq DOMAIN versions \cup strays'
          BY <1>5, <1>6 DEF RoundEnds
    <2> QED BY <1>5, <1>6, <1>7, <2>1, OthersAreAhead
  <1>9. NewestPointed' /\ SoonestIsFirst'
        BY <1>1, <1>3, <1>5, <1>7 DEF NewestPointed, SoonestIsFirst, OutlookInv, world
  <1>10. StagesAdvance'
    <2> SUFFICES ASSUME NEW i \in DOMAIN versions' \ strays', NEW j \in DOMAIN versions' \ strays', i < j,
                        versions'[i].stage # "manual", versions'[j].stage # "manual",
                        MatchesSchedule(versions'[j].schedule, versions'[i].schedule, versions'[i].period)
                 PROVE  Place(versions'[i].stage) < Place(versions'[j].stage)
        BY DEF StagesAdvance, MatchesSchedule
    <2>1. i \in DOMAIN versions \ strays /\ versions'[i] = versions[i]
      <3>1. i # n
        <4>1. \A k \in DOMAIN versions' : k = n \/ k < n
              BY <1>5
        <4>2. i = n => j > n
              OBVIOUS
        <4>3. j \in Nat
              BY <1>5
        <4> QED BY <4>1, <4>2, <4>3
      <3> QED BY <1>5, <1>6, <3>1
    <2>2. CASE j \in DOMAIN versions
      <3>1. j \in DOMAIN versions \ strays /\ versions'[j] = versions[j]
            BY <1>5, <1>6, <2>2
      <3> QED BY <2>1, <3>1 DEF OutlookInv, StagesAdvance
    <2>3. CASE j = n
      <3>1. r \in eventLock /\ versions'[j] = v
            BY <1>5, <1>6, <2>3
      <3>2. Ahead(round[r].stage, round[r].read)
            BY <1>3, <3>1 DEF OutlookInv, RoundSound
      <3> QED BY <1>3, <2>1, <3>1, <3>2 DEF Ahead
    <2> QED BY <1>5, <2>2, <2>3
  <1> QED BY <1>7, <1>8, <1>9, <1>10 DEF OutlookInv

LEMMA FoundIsSound ==
    ASSUME OutlookInv, NEW r \in OutlookRounds, round[r].at = "save", RoundEnds(r), UNCHANGED versions,
           NEW i \in DOMAIN versions, i > round[r].known, Strays(r, i),
           outlook' = [outlook EXCEPT !.pointer = i, !.frozen = FALSE], UNCHANGED <<world, deferred, extra>>
    PROVE  OutlookInv'
  <1>1. strays \subseteq strays' /\ strays' \subseteq DOMAIN versions' /\ versions' \in Seq(Versions)
        BY OutlookTypes DEF Strays
  <1>2. i \in strays'
    <2>1. r \in eventLock => i \in strays
          BY DEF OutlookInv, RoundSound
    <2> QED BY <1>1, <2>1 DEF Strays
  <1>3. /\ OutlookTypeOK' /\ outlook' \in Outlooks /\ FrozenFairly'
        /\ round' \in [OutlookRounds -> Rounds] /\ EventHeld' /\ RoundSound(r)' /\ OtherRoundsStay(r)
        BY <1>1, SaveTypes
  <1>4. \A q \in OutlookRounds : RoundSound(q)'
    <2>1. /\ eventLock' = eventLock \ {r} /\ DOMAIN versions \subseteq DOMAIN versions'
          /\ \A k \in DOMAIN versions : versions'[k] = versions[k]
          BY DEF RoundEnds
    <2> QED BY <1>1, <1>3, <2>1, OthersAreAhead
  <1>5. NewestPointed' /\ SoonestIsFirst' /\ StagesAdvance'
        BY <1>1, <1>2 DEF OutlookInv, NewestPointed, SoonestIsFirst, StagesAdvance, MatchesSchedule, world
  <1> QED BY <1>3, <1>4, <1>5 DEF OutlookInv

LEMMA SaveIsSound == ASSUME OutlookInv, NEW r \in OutlookRounds, SavePrediction(r) PROVE OutlookInv'
  <1>1. round[r].at = "save" /\ RoundEnds(r) /\ UNCHANGED <<world, deferred, extra>>
        BY DEF SavePrediction
  <1>2. CASE /\ versions' = Append(versions, Input(r))
             /\ outlook' = [outlook EXCEPT !.pointer = Len(versions'), !.frozen = FALSE]
             /\ Strays(r, Len(versions'))
        BY <1>1, <1>2, AppendIsSound
  <1>3. CASE /\ UNCHANGED versions
             /\ \E i \in SameInput(r) :
                  /\ i > round[r].known /\ Strays(r, i)
                  /\ outlook' = [outlook EXCEPT !.pointer = i, !.frozen = FALSE]
        BY <1>1, <1>3, FoundIsSound DEF SameInput
  <1>4. CASE Mark("failed") /\ UNCHANGED <<versions, strays>>
        BY <1>1, <1>4, MarkedIsSound, OutlookTypes
  <1> QED BY <1>2, <1>3, <1>4 DEF SavePrediction

(* A scan or a request decides a round or is deferred.                     *)
LEMMA AskIsSound ==
    ASSUME OutlookInv, UNCHANGED <<world, versions, strays>>,
           \/ \E asked \in Asked : Decides(asked)
           \/ UNCHANGED <<atWork, outlook>>,
           deferred' \subseteq [asked : Asked, expires : ReleaseSlots], extra' \in 0..MaxExtra
    PROVE  OutlookInv'
  <1>1. CASE \E asked \in Asked : Decides(asked)
        BY <1>1, DecideIsSound DEF Decides
  <1>2. CASE UNCHANGED <<atWork, outlook>>
        BY <1>2, NoRoundMoves, StaysIs, OutlookTypes DEF atWork
  <1> QED BY <1>1, <1>2

LEMMA ScansAreSound ==
    ASSUME OutlookInv, DailyScan \/ FinalScan \/ ManualRefresh \/ RunsDeferred PROVE OutlookInv'
  <1>1. "daily" \in Asked /\ "final" \in Asked /\ "manual" \in Asked
        BY DEF Asked
  <1>2. CASE DailyScan
        BY <1>1, <1>2, AskIsSound, DeferIs, OutlookTypes DEF DailyScan, Contended
  <1>3. CASE FinalScan
        BY <1>1, <1>3, AskIsSound, DeferIs, OutlookTypes DEF FinalScan, Contended
  <1>4. CASE ManualRefresh
    <2>1. OneMore => extra' \in 0..MaxExtra
          BY OutlookTypes, OutlookAssumption DEF OneMore
    <2> QED BY <1>1, <1>4, <2>1, AskIsSound, DeferIs, OutlookTypes DEF ManualRefresh, Contended
  <1>5. CASE RunsDeferred
    <2>1. PICK m \in deferred :
            /\ deferred' = deferred \ {m}
            /\ Decides(m.asked) \/ UNCHANGED <<outlook, atWork>>
            /\ UNCHANGED <<world, versions, strays, extra>>
          BY <1>5 DEF RunsDeferred
    <2>2. m.asked \in Asked
          BY OutlookTypes
    <2> QED BY <2>1, <2>2, AskIsSound, OutlookTypes
  <1> QED BY <1>2, <1>3, <1>4, <1>5

(* Time, the calendar, and what ends a session.                            *)
LEMMA WorldIsSound ==
    ASSUME OutlookInv, Passes \/ CalendarUpdates
    PROVE  OutlookInv'
  <1>1. UNCHANGED <<versions, strays, outlook, round, eventLock, deferred, extra>>
        BY DEF Passes, CalendarUpdates, saved, atWork
  <1>2. /\ tick' \in 0..LastTick /\ tick <= tick' /\ changes' \in 0..MaxChanges
        /\ event' \in [schedule : Schedules, actual : BOOLEAN] /\ (event.actual => event'.actual)
        /\ soonest' \in ReleaseSlots /\ soonest' <= soonest /\ soonest' <= event'.schedule.slot
    <2>1. CASE Passes
          BY <2>1, OutlookTypes, OutlookAssumption DEF Passes, OutlookInv, SoonestIsFirst
    <2>2. CASE CalendarUpdates
      <3>1. PICK s \in ReleaseSlots, q \in Periods, a \in BOOLEAN :
              /\ event.actual => a
              /\ event' = [schedule |-> [slot |-> s, period |-> q], actual |-> a]
              /\ soonest' = IF s < soonest THEN s ELSE soonest
            BY <2>2 DEF CalendarUpdates
      <3>2. [slot |-> s, period |-> q] \in Schedules
            BY DEF Schedules
      <3>3. /\ event' \in [schedule : Schedules, actual : BOOLEAN]
            /\ event'.actual = a /\ event'.schedule.slot = s
            BY <3>1, <3>2
      <3>4. soonest' \in ReleaseSlots /\ soonest' <= soonest /\ soonest' <= s
            BY <3>1, OutlookTypes
      <3>5. changes' \in 0..MaxChanges /\ tick' = tick
            BY <2>2, OutlookTypes, OutlookAssumption DEF CalendarUpdates
      <3> QED BY <3>1, <3>3, <3>4, <3>5, OutlookTypes
    <2> QED BY <2>1, <2>2
  <1>3. tick' \in Nat /\ soonest' \in Nat
        BY <1>2, OutlookTypes, OutlookAssumption
  <1>4. FrozenFairly'
    <2>1. event.actual \/ soonest <= tick => event'.actual \/ soonest' <= tick'
          BY <1>2, <1>3, OutlookTypes
    <2> QED BY <1>1, <2>1 DEF OutlookInv, FrozenFairly
  <1>5. \A r \in OutlookRounds : RoundSound(r)'
        BY <1>1, <1>2, <1>3, RoundStays
  <1>6. EventHeld' /\ round' \in [OutlookRounds -> Rounds]
        BY <1>1 DEF OutlookInv, EventHeld
  <1> QED BY <1>1, <1>2, <1>4, <1>5, <1>6, NothingSaved, OutlookTypes

LEMMA LossIsSound ==
    ASSUME OutlookInv, NEW r \in OutlookRounds, RoundKilled(r) \/ LoseEventLock(r)
    PROVE  OutlookInv'
  <1>1. CASE RoundKilled(r)
        BY <1>1, StaysIs, EndingIsSound, OutlookTypes DEF RoundKilled, saved
  <1>2. CASE LoseEventLock(r)
    <2>1. extra' \in 0..MaxExtra
          BY <1>2, OutlookTypes, OutlookAssumption DEF LoseEventLock, OneMore
    <2> QED BY <1>2, <2>1, StaysIs, NoRoundMoves, OutlookTypes DEF LoseEventLock, saved
  <1> QED BY <1>1, <1>2

LEMMA OutlookStep == ASSUME OutlookInv, [OutlookNext]_outlookVars PROVE OutlookInv'
  <1>1. ASSUME NEW r \in OutlookRounds, RoundMoves(r) PROVE OutlookInv'
        BY <1>1, CollectIsSound, BusyIsSound, ResearchIsSound, PrepareIsSound, PredictIsSound, SaveIsSound,
           ReviewIsSound, LossIsSound DEF RoundMoves
  <1>2. CASE UNCHANGED outlookVars
        BY <1>2, StaysIs, NoRoundMoves, OutlookTypes DEF outlookVars, world
  <1> QED BY <1>1, <1>2, ScansAreSound, WorldIsSound DEF OutlookNext

LEMMA OutlookStart == ASSUME OutlookInit PROVE OutlookInv
  <1>1. PICK s \in Schedules : event = [schedule |-> s, actual |-> FALSE]
        BY DEF OutlookInit
  <1>2. /\ tick = 0 /\ versions = <<>> /\ deferred = {} /\ extra = 0 /\ changes = 0
        /\ strays = {} /\ eventLock = {} /\ soonest = event.schedule.slot
        /\ outlook = [pointer |-> 0, frozen |-> FALSE, frozenFor |-> NoSchedule]
        BY DEF OutlookInit
  <1>3. /\ outlook \in Outlooks /\ round \in [OutlookRounds -> Rounds]
        /\ \A r \in OutlookRounds : round[r].at = "idle"
    <2>1. round = [r \in OutlookRounds |-> Idle]
          BY DEF OutlookInit
    <2> QED BY <1>2, <2>1, IdleIs DEF Outlooks
  <1>4. Len(versions) = 0 /\ DOMAIN versions = {} /\ versions \in Seq(Versions)
        BY <1>2
  <1>5. /\ event \in [schedule : Schedules, actual : BOOLEAN] /\ 0 \in 0..LastTick /\ 0 \in 0..MaxExtra
        /\ 0 \in 0..MaxChanges /\ event.schedule = s /\ soonest \in ReleaseSlots /\ soonest \in Nat
        BY <1>1, <1>2, SlotsAreNat, OutlookAssumption
  <1>6. OutlookTypeOK
    <2>1. eventLock \subseteq OutlookRounds /\ Cardinality(eventLock) <= 1
          BY <1>2, FS_EmptySet
    <2> QED BY <1>2, <1>3, <1>4, <1>5, <2>1 DEF OutlookTypeOK, Outlooks, Versions
  <1>7. StagesAdvance /\ NewestPointed /\ FrozenFairly /\ EventHeld /\ SoonestIsFirst
        BY <1>2, <1>4, <1>5 DEF StagesAdvance, NewestPointed, FrozenFairly, EventHeld, SoonestIsFirst
  <1>8. \A r \in OutlookRounds : RoundSound(r)
        BY <1>3 DEF RoundSound
  <1> QED BY <1>3, <1>6, <1>7, <1>8 DEF OutlookInv

(* What froze the outlook is known, and it points to the newest version    *)
(* unless a round without the lock has saved one.                          *)
LEMMA ShowsTheNewest == ASSUME OutlookInv PROVE NewestIsShown
  <1> SUFFICES ASSUME NEW n \in DOMAIN versions, n = Len(versions),
                      MatchesSchedule(event.schedule, versions[n].schedule, versions[n].period),
                      ~Released(event.actual, versions[n].schedule.slot),
                      outlook.frozenFor = NoSchedule, tick < soonest, strays = {}
               PROVE  Current
    <2>1. versions # <<>> => Len(versions) \in DOMAIN versions
          BY OutlookTypes
    <2> QED BY <2>1 DEF NewestIsShown
  <1>1. outlook.pointer = n /\ n # 0
    <2>1. n \in 1..Len(versions)
          BY OutlookTypes
    <2> QED BY <2>1 DEF OutlookInv, NewestPointed
  <1>2. ~outlook.frozen
    <2>1. ~(soonest <= tick) /\ ~event.actual
          BY OutlookTypes DEF Released
    <2>2. outlook.frozen \in BOOLEAN
          BY OutlookTypes DEF Outlooks
    <2> QED BY <2>1, <2>2 DEF OutlookInv, FrozenFairly
  <1> QED BY <1>1, <1>2 DEF Current

(***************************************************************************)
(* Each automatic stage of a schedule is paid for once and in order by the *)
(* rounds that have the event's lock; nothing is saved after the release   *)
(* or for another schedule, with or without the lock; and the newest       *)
(* version is the one that is shown, until a slot the event was given has  *)
(* passed: however often the calendar changes, sessions are lost, rounds   *)
(* fail or are asked for (service.py, _refresh and save_prediction).       *)
(***************************************************************************)
THEOREM StagesInOrder == OutlookSpec => OutlookIsSound
  <1>1. OutlookInit => OutlookInv
        BY OutlookStart
  <1>2. OutlookInv /\ [OutlookNext]_outlookVars => OutlookInv'
        BY OutlookStep
  <1>3. OutlookInv => StagesAdvance /\ NewestIsShown
        BY ShowsTheNewest DEF OutlookInv
  <1>4. OutlookInv /\ [OutlookNext]_outlookVars =>
          [versions' # versions =>
             LET v == versions'[Len(versions')] IN
             /\ ~Released(event.actual, event.schedule.slot) /\ event.schedule.slot = v.schedule.slot]_outlookVars
    <2> SUFFICES ASSUME OutlookInv, OutlookNext, versions' # versions
                 PROVE  /\ ~Released(event.actual, event.schedule.slot)
                        /\ event.schedule.slot = versions'[Len(versions')].schedule.slot
        OBVIOUS
    <2>1. PICK r \in OutlookRounds : SavePrediction(r)
          BY DEF OutlookNext, Passes, CalendarUpdates, DailyScan, FinalScan, ManualRefresh, RunsDeferred,
                 RoundMoves, CollectData, SlotsBusy, Research, Prepare, Predict, StartReview, FinishReview,
                 RoundKilled, LoseEventLock, saved
    <2>2. Unreleased(r) /\ versions' = Append(versions, Input(r))
          BY <2>1 DEF SavePrediction
    <2>3. versions'[Len(versions')] = Input(r)
          BY <2>2, OutlookTypes
    <2>4. event.schedule.slot = round[r].read.slot
          BY <2>2 DEF Unreleased, SameEvent, MatchesSchedule
    <2>5. Input(r).schedule = round[r].read
          BY DEF Input
    <2>6. tick \in Nat /\ event.schedule.slot \in Nat
          BY OutlookTypes
    <2>7. tick < event.schedule.slot /\ ~event.actual
          BY <2>2, <2>4 DEF Unreleased
    <2> QED BY <2>3, <2>4, <2>5, <2>6, <2>7 DEF Released
  <1> QED BY <1>1, <1>2, <1>3, <1>4, PTL DEF OutlookSpec, OutlookIsSound, SavesBeforeRelease

-----------------------------------------------------------------------------
(* The research jobs of a day together                                     *)

(* Each component keeps its invariant, whichever of them a behaviour       *)
(* moves.                                                                  *)
ResearchInv == StrategyInv /\ OutlookInv /\ SignalInv

LEMMA SignalIsTyped == ASSUME SignalInv PROVE SignalTypeOK
  <1>1. SignalTypes
        BY DEF SignalInv
  <1>2. /\ signal.status \in Final \cup {"absent", "pending", "failed"}
        /\ signal.frozen \subseteq Sources /\ signal.screening \subseteq Audits
        /\ {signal.prompted, signal.answer, signal.decision} \subseteq SUBSET Sources
        BY <1>1 DEF SignalTypes, Signals, Sources
  <1>3. \A c \in Checkers : check[c].at \in {"idle", "collect", "screen", "final", "complete"}
        BY <1>1 DEF SignalTypes, Holdings, Steps
  <1>4. dayHolder \subseteq Checkers /\ Cardinality(dayHolder) <= 1
    <2>1. CASE dayHolder = {}
          BY <2>1, FS_EmptySet
    <2>2. CASE \E c \in Checkers : dayHolder = {c}
          BY <2>2, FS_Singleton
    <2> QED BY <1>1, <2>1, <2>2 DEF SignalTypes, DayHeld
  <1> QED BY <1>1, <1>2, <1>3, <1>4 DEF SignalTypes, SignalTypeOK

(* What the three components of a research day write is well typed in      *)
(* every behaviour of their composition, for any runs, checkers, sources   *)
(* and calendars.                                                          *)
THEOREM ResearchTyping == ResearchSpec => []ResearchTypeOK
  <1>1. ResearchInit => ResearchInv
        BY StrategyStarts, OutlookStart, SignalStarts DEF ResearchInit, ResearchInv
  <1>2. ResearchInv /\ [ResearchNext]_researchVars => ResearchInv'
    <2> SUFFICES ASSUME ResearchInv, [ResearchNext]_researchVars PROVE ResearchInv'
        OBVIOUS
    <2>1. [StrategyNext]_strategyVars /\ [OutlookNext]_outlookVars /\ [SignalNext]_signalVars
          BY DEF ResearchNext, researchVars
    <2> QED BY <2>1, StrategyKept, OutlookStep, SignalKept DEF ResearchInv
  <1>3. ResearchInv => ResearchTypeOK
        BY SignalIsTyped DEF ResearchInv, StrategyInv, OutlookInv, ResearchTypeOK
  <1> QED BY <1>1, <1>2, <1>3, PTL DEF ResearchSpec
=============================================================================
