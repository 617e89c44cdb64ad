---------------------------- MODULE MCResearch ----------------------------
(* Instances for TLC of what the research jobs of a day write.  The three  *)
(* components share no state and do not meet: a behaviour moves one.       *)
EXTENDS StockStrategies, EarningsOutlook, SignalCenter

CONSTANTS r1, r2, o1, o2, c1, c2,
          MaxMoves \* bound: changes and extras of an outlook together

VARIABLE focus \* the component of this behaviour

Runs   == {r1, r2}
Refreshes == {o1, o2}
Checks == {c1, c2}

researchVars == <<focus, strategyVars, outlookVars, signalVars>>

ResearchInit ==
    /\ StrategyInit /\ OutlookInit /\ SignalInit
    /\ focus \in {"strategies", "outlook", "signal"}
    /\ event.schedule.slot = 4

(* Processes that are alike start in one order, which loses no behaviour   *)
(* but its renamings; and inputs arrive in the order of their sessions: a  *)
(* run asks for those of one only when the ones before it are settled.     *)
InOrder ==
    /\ \A d \in ready' : 0..d \subseteq ready'
    /\ \A r \in StrategyRuns :
         at[r] = "idle" /\ at'[r] # "idle" => r = CHOOSE q \in StrategyRuns : at[q] = "idle"
    /\ \A r \in OutlookRounds :
         round[r] = Idle /\ round'[r] # Idle => r = CHOOSE q \in OutlookRounds : round[q] = Idle

ResearchNext ==
    /\ UNCHANGED focus
    /\ IF focus = "strategies" THEN StrategyNext ELSE UNCHANGED strategyVars
    /\ IF focus = "outlook"    THEN OutlookNext  ELSE UNCHANGED outlookVars
    /\ IF focus = "signal"     THEN SignalNext   ELSE UNCHANGED signalVars
    /\ InOrder /\ extra' + changes' <= MaxMoves

(* A component that does not move has nothing enabled to be fair to.       *)
ResearchSpec == ResearchInit /\ [][ResearchNext]_researchVars /\ StrategyFairness

ResearchTypeOK == StrategyTypeOK /\ OutlookTypeOK /\ SignalTypeOK
=============================================================================
