----------------------------- MODULE Leadership -----------------------------
(***************************************************************************)
(* Stream processes and the leader lock in Redis.  A process writes from   *)
(* the moment it has the lock until it has stopped everything, renews it   *)
(* every third of its life, and stops once a renewal finds it lost or      *)
(* raises.  A busy event loop may renew later than it should.              *)
(***************************************************************************)
EXTENDS Integers

CONSTANTS
    Streamers, \* processes
    Ttl,       \* leader_lock_ttl_seconds
    LastTick   \* bound on the clock

ASSUME LeadershipAssumption == Ttl \in Nat \ {0} /\ LastTick \in Nat

VARIABLES
    clock,
    leaderKey,    \* the key: its token, a process, and when it expires
    phase,   \* per process: off, leading, or stopping and still writing
    held,    \* LeaderLock.acquired
    renewed  \* when its last SET or EXPIRE was made

leaderVars == <<clock, leaderKey, phase, held, renewed>>

NoLock   == [token |-> {}, until |-> 0]
Interval == IF Ttl \div 3 = 0 THEN 1 ELSE Ttl \div 3

LeaderTypeOK ==
    /\ clock \in 0..LastTick
    /\ leaderKey \in [token : SUBSET Streamers, until : Nat]
    /\ phase \in [Streamers -> {"off", "leading", "stopping"}]
    /\ held \in [Streamers -> BOOLEAN]
    /\ renewed \in [Streamers -> 0..LastTick]

LeaderInit ==
    /\ clock = 0 /\ leaderKey = NoLock
    /\ phase = [p \in Streamers |-> "off"]
    /\ held = [p \in Streamers |-> FALSE]
    /\ renewed = [p \in Streamers |-> 0]

LockLive    == leaderKey.until > clock
MineWhoever(p) == LockLive

Mine(p) == LockLive /\ p \in leaderKey.token

(* SET NX EX *)
Acquire(p) ==
    /\ phase[p] = "off" /\ ~LockLive
    /\ leaderKey' = [token |-> {p}, until |-> clock + Ttl]
    /\ phase' = [phase EXCEPT ![p] = "leading"]
    /\ held' = [held EXCEPT ![p] = TRUE]
    /\ renewed' = [renewed EXCEPT ![p] = clock]
    /\ UNCHANGED clock

(* The renewal script compares the token before it extends the key.        *)
Renew(p) ==
    /\ phase[p] = "leading" /\ clock >= renewed[p] + Interval
    /\ IF Mine(p)
       THEN /\ leaderKey' = [leaderKey EXCEPT !.until = clock + Ttl]
            /\ renewed' = [renewed EXCEPT ![p] = clock]
            /\ UNCHANGED <<phase, held>>
       ELSE /\ phase' = [phase EXCEPT ![p] = "stopping"]
            /\ held' = [held EXCEPT ![p] = FALSE]
            /\ UNCHANGED <<leaderKey, renewed>>
    /\ UNCHANGED clock

(* A signal, or a renewal that raised.                                     *)
StopLeading(p) ==
    /\ phase[p] = "leading"
    /\ phase' = [phase EXCEPT ![p] = "stopping"]
    /\ UNCHANGED <<clock, leaderKey, held, renewed>>

(* Everything has stopped: the release script compares the token as well,  *)
(* and may raise.                                                          *)
ReleaseLock(p) ==
    /\ phase[p] = "stopping"
    /\ phase' = [phase EXCEPT ![p] = "off"]
    /\ held' = [held EXCEPT ![p] = FALSE]
    /\ leaderKey' = IF held[p] /\ Mine(p) THEN NoLock ELSE leaderKey
    /\ UNCHANGED <<clock, renewed>>

Dies(p) ==
    /\ phase[p] # "off"
    /\ phase' = [phase EXCEPT ![p] = "off"]
    /\ held' = [held EXCEPT ![p] = FALSE]
    /\ UNCHANGED <<clock, leaderKey, renewed>>

ClockTicks ==
    /\ clock < LastTick
    /\ clock' = clock + 1
    /\ UNCHANGED <<leaderKey, phase, held, renewed>>

LeaderNext ==
    \/ ClockTicks
    \/ \E p \in Streamers : Acquire(p) \/ Renew(p) \/ StopLeading(p) \/ ReleaseLock(p) \/ Dies(p)

LeaderSpec == LeaderInit /\ [][LeaderNext]_leaderVars

(* Two processes write at the same time only while one of them has not     *)
(* renewed for the lock's whole life: no renewal or release of a process   *)
(* that lost the lock shortens its successor's.                            *)
OverlapIsOverdue ==
    \A p, q \in Streamers :
      p # q /\ phase[p] # "off" /\ phase[q] # "off" =>
        clock >= renewed[p] + Ttl \/ clock >= renewed[q] + Ttl
=============================================================================
