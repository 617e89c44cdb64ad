------------------------------ MODULE MCStream ------------------------------
(* Instances for TLC of the stream's parts of which safety is checked: the *)
(* pool of subscriptions, the minute candles of a symbol, and the election *)
(* of the process.  They share no state; a behaviour moves one of them.    *)
EXTENDS SubscriptionManager, CandleStore, Leadership

CONSTANTS here, there \* two stream processes

VARIABLE focus \* the part of this behaviour

Two   == {1, 2}
First == {1}
None  == {}

streamVars == <<focus, vars, storeVars, leaderVars>>

StreamInit ==
    /\ Init /\ StoreInit /\ LeaderInit
    /\ focus \in {"pool", "candles", "leader"}
    /\ focus # "pool" => watch = {}

StreamNext ==
    /\ UNCHANGED focus
    /\ IF focus = "pool"    THEN Next       ELSE UNCHANGED vars
    /\ IF focus = "candles" THEN StoreNext  ELSE UNCHANGED storeVars
    /\ IF focus = "leader"  THEN LeaderNext ELSE UNCHANGED leaderVars

StreamSpec == StreamInit /\ [][StreamNext]_streamVars

(* The state is well formed, and what the pool reports active is           *)
(* subscribed.                                                             *)
StreamIsSound == PoolIsSound /\ StoreTypeOK /\ LeaderTypeOK
=============================================================================
