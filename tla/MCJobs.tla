------------------------------- MODULE MCJobs -------------------------------
(* Instances for TLC of two chains of jobs that Celery keeps going, and of *)
(* the cache in front of what one of them stores.  They share no variable  *)
(* and do not meet: a behaviour moves one of them.                         *)
EXTENDS QuantTraining, TrendFollowing, RankingCache

CONSTANTS cs, ts, beat, byHand, n1

VARIABLE focus \* the chain of this behaviour

Pair     == {cs, ts}
Workers  == {beat, byHand}
OneChain == <<10>>

Rising  == [traded |-> TRUE, broken |-> FALSE, weak |-> FALSE, candidate |-> TRUE,
            forming |-> TRUE, box |-> 1, breakout |-> TRUE]
Falling == [traded |-> TRUE, broken |-> TRUE, weak |-> TRUE, candidate |-> FALSE,
            forming |-> FALSE, box |-> 0, breakout |-> FALSE]

(* What the first day says, and what it says when corrected, reaches every *)
(* later day through the chain: episode, state and breakout.               *)
FirstDayTells == [d \in Dates |-> IF d = 1 THEN {Rising, Falling} ELSE {Rising}]

jobsVars == <<focus, trainVars, trendVars, cacheVars>>

JobsInit == TrainInit /\ TrendInit /\ CacheInit /\ focus \in {"training", "trend", "cache"}

JobsNext ==
    /\ UNCHANGED focus
    /\ IF focus = "training" THEN TrainNext ELSE UNCHANGED trainVars
    /\ IF focus = "trend"    THEN TrendNext ELSE UNCHANGED trendVars
    /\ IF focus = "cache"    THEN CacheNext ELSE UNCHANGED cacheVars

(* Where training moves, less than TrainFairness: somebody goes on.        *)
(* Trends that do not move have nothing enabled to be fair to.             *)
TrainFairnessInFocus ==
    WF_trainVars(/\ focus = "training"
                 /\ Requester \/ \E r \in Runs, c \in Copies : Training(r, c) \/ TrainWorker(r, c))

JobsSpec == JobsInit /\ [][JobsNext]_jobsVars /\ TrainFairnessInFocus /\ TrendFairness
=============================================================================
