------------------------ MODULE SubscriptionManager ------------------------
(***************************************************************************)
(* The Longbridge half of the market stream: one worker owns the streaming *)
(* client and takes commands from a queue (connect, reconcile, a finished  *)
(* warm-up, new bars, health, stop); warm-up loads run beside it and answer *)
(* through the same queue; the service polls the watch list, checks the    *)
(* connection and handles the candles the client delivers.                 *)
(*                                                                         *)
(* Symbol and connection generations are only ever compared for equality,  *)
(* so a new one is the least number that nothing mentions any more: the    *)
(* counters need no bound.  A symbol's market follows from its suffix and  *)
(* never changes, so a target is its symbol.  Left out: refresh_quotes,    *)
(* which changes nothing here, the reconnect command, which nothing sends, *)
(* and the new trading day, which empties a symbol's bars.                 *)
(***************************************************************************)
EXTENDS Naturals, Sequences, FiniteSets

CONSTANTS
    Symbols,   \* numbers, in the order `sorted` puts the symbols
    Doubtful,  \* the ones whose candle subscription may be refused for good
    Trading,   \* the ones that get candles
    MaxLoads,  \* bound: finished warm-ups waiting in the queue
    MaxTrouble \* bound: failures of calls and changes of the watch list

ASSUME SymbolsAssumption == Symbols \subseteq Nat /\ IsFiniteSet(Symbols)
ASSUME SubsetsAssumption == Doubtful \subseteq Symbols /\ Trading \subseteq Symbols
ASSUME BoundsAssumption == MaxLoads \in Nat \ {0} /\ MaxTrouble \in Nat

VARIABLES
    watch,     \* the union of watch lists and holdings, in the database
    refused,   \* the ones of Doubtful that are: no subscription ever succeeds
    trouble,   \* failures and changes of the watch list still to come
    desired,   \* desired_targets
    active,    \* active_symbols
    warming,   \* warming_symbols
    status,    \* SymbolRuntimeState.status, "none" while there is no state
    gen,       \* SymbolRuntimeState.generation
    conn,      \* connection_generation
    link,      \* the client: "none", "good", or "broken" and not yet noticed
    subs,      \* what this client accepted; quote_subscribed of their states
    enough,    \* symbols whose served bars reach minimum_history_bars
    loads,     \* _warmup_tasks still loading
    queue,     \* commands
    at,        \* what the worker does next
    cmd,       \* the command in whose service it does so
    joins,     \* _connect's targets still to add
    removals,  \* _reconcile's symbols still to remove
    adds,      \* _reconcile's symbols still to add
    handling,  \* the symbol, if any, whose candle is being handled after it
               \* was found to have enough bars
    stopping   \* stop_event, then _stopping

service == <<watch, refused, handling, stopping>>
symbols == <<desired, active, warming, status, gen, subs, enough>>
client  == <<conn, link, loads>>
plan    == <<cmd, joins, removals, adds>>
vars    == <<service, trouble, symbols, client, queue, at, plan>>

Statuses == {"none", "pending", "warming", "active", "insufficient",
             "inactive", "error"}
Load     == [s : Symbols, gen : Nat, conn : Nat]
Command  ==
    [act : {"connect", "health", "stop"}]
    \cup [act : {"reconcile"}, targets : SUBSET Symbols]
    \cup [act : {"bars"}, s : Symbols, gen : Nat]
    \cup [act : {"warmup"}, s : Symbols, gen : Nat, conn : Nat, failed : BOOLEAN]

TypeOK ==
    /\ refused \subseteq Doubtful
    /\ watch \subseteq Symbols /\ desired \subseteq Symbols
    /\ active \subseteq Symbols /\ warming \subseteq Symbols \ active
    /\ trouble \in 0 .. MaxTrouble /\ stopping \in BOOLEAN
    /\ status \in [Symbols -> Statuses] /\ gen \in [Symbols -> Nat]
    /\ conn \in Nat /\ link \in {"none", "good", "broken"}
    /\ subs \subseteq Symbols /\ enough \subseteq Symbols
    /\ loads \subseteq Load /\ \A i \in DOMAIN queue : queue[i] \in Command
    /\ at \in {"idle", "reset", "open", "prepare", "join",
               "remove", "ready", "add", "stopped"}
    /\ cmd \in {"none", "connect", "health", "reconcile"}
    /\ joins \subseteq Symbols /\ removals \subseteq Symbols
    /\ adds \subseteq Symbols /\ handling \subseteq Symbols

Init ==
    /\ refused \in SUBSET Doubtful
    /\ watch \in SUBSET Symbols /\ desired = watch
    /\ trouble = MaxTrouble /\ stopping = FALSE /\ handling = {}
    /\ active = {} /\ warming = {} /\ subs = {} /\ enough = {} /\ loads = {}
    /\ status = [s \in Symbols |-> "none"] /\ gen = [s \in Symbols |-> 0]
    /\ conn = 0 /\ link = "none"
    /\ queue = <<[act |-> "connect"]>>
    /\ at = "idle" /\ cmd = "none"
    /\ joins = {} /\ removals = {} /\ adds = {}

---------------------------------------------------------------------------
(* Generations and the queue.                                              *)

Least(S) == CHOOSE n \in S : \A m \in S : n <= m
Fresh(used) == Least((0 .. Cardinality(used)) \ used)

Queued(act) == {queue[i] : i \in {j \in DOMAIN queue : queue[j].act = act}}
Answers     == loads \cup Queued("warmup")

NewConn == Fresh({conn} \cup {l.conn : l \in Answers})

(* state.generation += 1 for the symbols of S.                             *)
About(s)   == {c \in Answers \cup Queued("bars") : c.s = s}
Renewed(S) == [s \in Symbols |->
    IF s \in S THEN Fresh({gen[s]} \cup {c.gen : c \in About(s)}) ELSE gen[s]]

Known == {s \in Symbols : status[s] # "none"}
Mark(S, value) == [s \in Symbols |-> IF s \in S THEN value ELSE status[s]]

(* A call of the client fails on a broken link, and sometimes on a good    *)
(* one.                                                                    *)
Trouble == trouble > 0 /\ trouble' = trouble - 1
Works   == link = "good" /\ UNCHANGED trouble
Fails   == IF link = "broken" THEN UNCHANGED trouble ELSE Trouble
Refuses(s) == Fails \/ (s \in refused /\ UNCHANGED trouble)

Send(c) == queue' = Append(queue, c)

(* Mutant of Uncancelled: the symbol's load goes on.                       *)
UncancelledAll(s) == loads

(* The loads that outlive _cancel_warmup_tasks(symbol=s).                  *)
Uncancelled(s) == {l \in loads : l.s # s}

(* Mutant of TakeDown: the symbols of the old connection stay active.      *)
TakeDownKeepingActive ==
    /\ warming' = {} /\ subs' = {}
    /\ UNCHANGED active

(* What _connect clears before it starts and after each failed attempt.    *)
TakeDown == active' = {} /\ warming' = {} /\ subs' = {}

(* The worker takes a command off the queue.                               *)
Take(act) ==
    /\ at = "idle" /\ queue # <<>> /\ Head(queue).act = act
    /\ queue' = Tail(queue)

Finish == at' = "idle" /\ cmd' = "none"

---------------------------------------------------------------------------
(* _connect.                                                               *)

Connect ==
    /\ Take("connect")
    /\ at' = "reset" /\ cmd' = "connect"
    /\ UNCHANGED <<service, trouble, symbols, client, joins, removals, adds>>

(* _connect reads the watch list again unless it is the first; the old     *)
(* targets stay when the read fails.                                       *)
Reload(targets) ==
    IF cmd # "connect" /\ targets = watch THEN UNCHANGED trouble
    ELSE /\ targets = desired
         /\ IF cmd = "connect" THEN UNCHANGED trouble ELSE Trouble

(* The old connection's loads, client and subscriptions go; every symbol   *)
(* gets a new generation.  The bars kept for a symbol that stays are       *)
(* replaced by its next warm-up before anything reads their number.  One   *)
(* step: what its awaits expose, nobody but the worker acts on.            *)
Reset ==
    /\ at = "reset"
    /\ \E targets \in {desired, watch} :
         /\ Reload(targets) /\ desired' = targets
         /\ status' = [s \in Symbols |->
              CASE s \notin Known -> "none"
                [] s \in Known \cap targets -> "pending"
                [] s \in Known \cap (desired \ targets) -> "inactive"
                [] OTHER -> status[s]]
    /\ gen' = Renewed(Known)
    /\ conn' = NewConn /\ link' = "none" /\ loads' = {}
    /\ TakeDown /\ enough' = {}
    /\ at' = "open"
    /\ UNCHANGED <<service, queue, plan>>

(* The way out of _connect: READY, or given up because of _stopping.       *)
Connected ==
    IF cmd = "reconcile" THEN at' = "remove" /\ UNCHANGED cmd ELSE Finish

(* Mutant of KeepsTrying: the loop does not look at _stopping.             *)
KeepsTryingAlways == at = "open"

KeepsTrying == at = "open" /\ ~stopping

Open ==
    /\ KeepsTrying
    /\ conn' = NewConn /\ link' = "good"
    /\ at' = "prepare"
    /\ UNCHANGED <<service, trouble, symbols, loads, queue, plan>>

GiveUp ==
    /\ at = "open" /\ ~KeepsTrying
    /\ Connected
    /\ UNCHANGED <<service, trouble, symbols, client, queue, joins, removals, adds>>

(* The except branch of the loop: everything the failed connection had is  *)
(* taken down, the targets with a state are pending again, and the loop    *)
(* goes on with the same desired_targets.                                  *)
Backoff(targets) ==
    /\ conn' = NewConn /\ link' = "none"
    /\ loads' = {l \in loads : l.conn # conn}
    /\ TakeDown
    /\ gen' = Renewed(targets)
    /\ status' = Mark(targets, "pending")
    /\ at' = "open" /\ joins' = {}
    /\ UNCHANGED <<service, desired, enough, queue, cmd, removals, adds>>

OpenFails == KeepsTrying /\ Trouble /\ Backoff(Known \cap desired)

Prepare ==
    /\ at = "prepare" /\ (Works \/ (desired = {} /\ UNCHANGED trouble))
    /\ status' = Mark(desired, "warming")
    /\ joins' = desired
    /\ at' = "join"
    /\ UNCHANGED <<service, desired, active, warming, gen, subs, enough,
                   client, queue, cmd, removals, adds>>

PrepareFails == at = "prepare" /\ desired # {} /\ Fails /\ Backoff(desired)

(* _add_target, when the client accepts: the warm-up starts.               *)
AddTarget(s) ==
    /\ Works /\ s \notin refused
    /\ gen' = Renewed({s})
    /\ status' = Mark({s}, "warming")
    /\ warming' = warming \cup {s} /\ subs' = subs \cup {s}
    /\ loads' = loads \cup {[s |-> s, gen |-> gen'[s], conn |-> conn]}
    /\ UNCHANGED <<desired, active, enough, conn, link>>

Join ==
    /\ at = "join" /\ joins # {}
    /\ AddTarget(Least(joins))
    /\ joins' = joins \ {Least(joins)}
    /\ UNCHANGED <<service, queue, at, cmd, removals, adds>>

JoinFails ==
    /\ at = "join" /\ joins # {}
    /\ Refuses(Least(joins))
    /\ Backoff(desired)

Joined ==
    /\ at = "join" /\ joins = {}
    /\ Connected
    /\ UNCHANGED <<service, trouble, symbols, client, queue, joins, removals, adds>>

---------------------------------------------------------------------------
(* _reconcile.                                                             *)

Reconcile ==
    /\ Take("reconcile")
    /\ LET targets == Head(queue).targets IN
       /\ desired' = targets
       /\ removals' = (active \cup warming) \ targets
       /\ adds' = targets \ (active \cup warming)
    /\ at' = "remove" /\ cmd' = "reconcile"
    /\ UNCHANGED <<service, trouble, active, warming, status, gen, subs, enough,
                   client, joins>>

(* _remove_symbol; a failing unsubscribe is followed by a reconnection in  *)
(* the middle of the reconciliation.                                       *)
Remove ==
    /\ at = "remove" /\ removals # {}
    /\ LET s == Least(removals) IN
       /\ removals' = removals \ {s}
       /\ \/ /\ status[s] \in {"inactive", "none"}
             /\ UNCHANGED <<trouble, active, warming, status, gen, subs, enough,
                            loads, at>>
          \/ /\ status[s] \notin {"inactive", "none"}
             /\ loads' = Uncancelled(s)
             /\ gen' = Renewed({s}) /\ status' = Mark({s}, "inactive")
             /\ active' = active \ {s} /\ warming' = warming \ {s}
             /\ subs' = subs \ {s} /\ enough' = enough \ {s}
             /\ \/ s \in subs /\ Works /\ UNCHANGED at
                \/ s \notin subs /\ UNCHANGED <<at, trouble>>
                \/ s \in subs /\ Fails /\ at' = "reset"
    /\ UNCHANGED <<service, desired, conn, link, queue, cmd, joins, adds>>

Removed ==
    /\ at = "remove" /\ removals = {}
    /\ at' = "ready"
    /\ UNCHANGED <<service, trouble, symbols, client, queue, plan>>

(* _prepare_quotes of what is to be added, when there is a client.         *)
Ready ==
    /\ at = "ready"
    /\ \/ (adds = {} \/ link = "none") /\ UNCHANGED trouble
       \/ adds # {} /\ adds \subseteq desired /\ Works
    /\ status' = IF link = "none" THEN status ELSE Mark(adds, "warming")
    /\ at' = "add"
    /\ UNCHANGED <<service, desired, active, warming, gen, subs, enough,
                   client, queue, plan>>

(* It raises when the SDK does, and, some states already marked, with a    *)
(* KeyError when a nested reconnection has loaded targets without one.     *)
ReadyFails ==
    /\ at = "ready" /\ adds # {} /\ link # "none"
    /\ \/ adds \subseteq desired /\ Fails /\ status' = Mark(adds, "warming")
       \/ /\ ~(adds \subseteq desired) /\ UNCHANGED trouble
          /\ \E some \in SUBSET (adds \cap desired) :
               status' = Mark(some, "warming")
    /\ adds' = {} /\ Finish
    /\ UNCHANGED <<service, desired, active, warming, gen, subs, enough,
                   client, queue, joins, removals>>

(* A symbol that a nested reconnection has added already is passed over.   *)
Add ==
    /\ at = "add" /\ adds # {}
    /\ LET s == Least(adds) IN
       /\ s \in desired
       /\ adds' = adds \ {s}
       /\ \/ s \in active \cup warming /\ UNCHANGED <<symbols, client, trouble>>
          \/ s \notin active \cup warming /\ AddTarget(s)
    /\ UNCHANGED <<service, queue, at, cmd, joins, removals>>

(* Mutant of AfterError: the symbol that failed stays in warming_symbols.  *)
AfterErrorWarming(s) == status' = Mark({s}, "error") /\ warming' = warming \cup {s}

(* The except branch of _add_target.                                       *)
AfterError(s) == status' = Mark({s}, "error") /\ UNCHANGED warming

(* The first failure ends the command: the symbols after it stay for the   *)
(* next reconciliation.                                                    *)
AddFails ==
    /\ at = "add" /\ adds # {}
    /\ LET s == Least(adds) IN
       \/ /\ s \notin desired \/ (s \notin active \cup warming /\ link = "none")
          /\ UNCHANGED <<gen, status, warming, trouble>>
       \/ /\ s \in desired \ (active \cup warming) /\ link # "none"
          /\ Refuses(s)
          /\ gen' = Renewed({s}) /\ AfterError(s)
    /\ adds' = {} /\ Finish
    /\ UNCHANGED <<service, desired, active, subs, enough,
                   client, queue, joins, removals>>

Added ==
    /\ at = "add" /\ adds = {}
    /\ Finish
    /\ UNCHANGED <<service, trouble, symbols, client, queue, joins, removals, adds>>

---------------------------------------------------------------------------
(* The other commands.                                                     *)

Finalize(s, failed, full) ==
    /\ active' = active \cup {s} /\ warming' = warming \ {s}
    /\ enough' = IF full THEN enough \cup {s} ELSE enough \ {s}
    /\ status' = Mark({s}, IF failed THEN "error"
                           ELSE IF full THEN "active" ELSE "insufficient")

(* _complete_warmup and the service's _apply_warmup, whose changes up to   *)
(* finalize happen without an await in between.                            *)
Complete ==
    /\ Take("warmup")
    /\ LET c == Head(queue)  s == c.s IN
       IF c.conn = conn /\ c.gen = gen[s] /\ s \in desired /\ status[s] = "warming"
       THEN \E full \in BOOLEAN : Finalize(s, c.failed, full)
       ELSE UNCHANGED <<warming, active, enough, status>>
    /\ UNCHANGED <<service, trouble, desired, gen, subs, client, at, plan>>

(* _bars_updated, for which the candle's handler waits.                    *)
BarsUpdated ==
    /\ Take("bars")
    /\ LET c == Head(queue)  s == c.s IN
       IF c.gen = gen[s] /\ status[s] \in {"insufficient", "error"}
       THEN status' = Mark({s}, "active") /\ active' = active \cup {s}
       ELSE UNCHANGED <<status, active>>
    /\ handling' = {}
    /\ UNCHANGED <<watch, refused, trouble, stopping, desired, warming, gen,
                   subs, enough, client, at, plan>>

Health ==
    /\ Take("health")
    /\ \/ Works /\ UNCHANGED <<at, cmd>>
       \/ /\ Fails \/ (link = "none" /\ UNCHANGED trouble)
          /\ at' = "reset" /\ cmd' = "health"
    /\ UNCHANGED <<service, symbols, client, joins, removals, adds>>

(* _shutdown.                                                              *)
Stop ==
    /\ Take("stop")
    /\ conn' = NewConn /\ loads' = {} /\ link' = "none" /\ subs' = {}
    /\ at' = "stopped"
    /\ UNCHANGED <<service, trouble, desired, active, warming, status, gen,
                   enough, plan>>

---------------------------------------------------------------------------
(* What runs beside the worker.                                            *)

(* _run_warmup: the load ends and its answer joins the queue.              *)
WarmedUp ==
    /\ Cardinality(Queued("warmup")) < MaxLoads
    /\ \E l \in loads, failed \in BOOLEAN :
         /\ loads' = loads \ {l}
         /\ Send([act |-> "warmup", s |-> l.s, gen |-> l.gen, conn |-> l.conn,
                  failed |-> failed])
    /\ UNCHANGED <<service, trouble, symbols, conn, link, at, plan>>

(* _poll_watchlist: one reconciliation at a time is under way.             *)
Poll ==
    /\ ~stopping /\ Queued("reconcile") = {} /\ cmd # "reconcile"
    /\ Send([act |-> "reconcile", targets |-> watch])
    /\ UNCHANGED <<service, trouble, symbols, client, at, plan>>

(* _check_connection, while connection_status is READY.                    *)
CheckHealth ==
    /\ ~stopping /\ Queued("health") = {}
    /\ link # "none" /\ at \in {"idle", "remove", "ready", "add"}
    /\ Send([act |-> "health"])
    /\ UNCHANGED <<service, trouble, symbols, client, at, plan>>

(* _handle_candle up to its first await: the candle of a served symbol     *)
(* makes the bars enough.  (One that leaves too few changes nothing.)      *)
Candle(s) ==
    /\ ~stopping /\ handling = {} /\ link = "good"
    /\ s \in subs \cap desired /\ status[s] \in {"active", "insufficient", "error"}
    /\ enough' = enough \cup {s}
    /\ handling' = {s}
    /\ UNCHANGED <<watch, refused, trouble, stopping, desired, active, warming,
                   status, gen, subs, client, queue, at, plan>>

(* _handle_candle after its awaits: it reads the status and the generation *)
(* as they are now, and asks for the promotion with the old count.         *)
CandleHandled ==
    /\ Queued("bars") = {}
    /\ \E s \in handling :
         IF status[s] \in {"insufficient", "error"}
         THEN Send([act |-> "bars", s |-> s, gen |-> gen[s]]) /\ UNCHANGED handling
         ELSE handling' = {} /\ UNCHANGED queue
    /\ UNCHANGED <<watch, refused, trouble, stopping, symbols, client, at, plan>>

(* run's finally: no more polls, then manager.stop().                      *)
RequestStop ==
    /\ ~stopping
    /\ stopping' = TRUE
    /\ Send([act |-> "stop"])
    /\ UNCHANGED <<watch, refused, trouble, handling, symbols, client, at, plan>>

(* Users and the holdings change the watch list; the connection drops.     *)
Watch ==
    /\ Trouble
    /\ watch' \in SUBSET Symbols \ {watch}
    /\ UNCHANGED <<refused, handling, stopping, symbols, client, queue, at, plan>>

Drop ==
    /\ Trouble
    /\ link = "good" /\ link' = "broken"
    /\ UNCHANGED <<service, symbols, conn, loads, queue, at, plan>>

---------------------------------------------------------------------------

Connecting ==
    \/ Connect \/ Reset \/ Open \/ OpenFails \/ GiveUp
    \/ Prepare \/ PrepareFails \/ Join \/ JoinFails \/ Joined
Reconciling ==
    \/ Reconcile \/ Remove \/ Removed \/ Ready \/ ReadyFails
    \/ Add \/ AddFails \/ Added

(* _run, one step.                                                         *)
Worker ==
    Connecting \/ Reconciling \/ Complete \/ BarsUpdated \/ Health \/ Stop

Next ==
    \/ Worker \/ WarmedUp \/ Poll \/ CheckHealth
    \/ \E s \in Trading : Candle(s)
    \/ CandleHandled \/ RequestStop \/ Watch \/ Drop

Spec == Init /\ [][Next]_vars

(* Tasks of one event loop: each that can go on does.                      *)
FairSpec ==
    /\ Spec
    /\ WF_vars(Worker) /\ WF_vars(WarmedUp)
    /\ WF_vars(Poll) /\ WF_vars(CheckHealth) /\ WF_vars(CandleHandled)

---------------------------------------------------------------------------

(* While the stream runs, a symbol is warming exactly when the answer that *)
(* will take it out of warming_symbols is still to come: one load of its   *)
(* generation on this connection, or its answer in the queue.  No load of  *)
(* an earlier generation or connection is left running.                    *)
(* (_add_target, _cancel_warmup_tasks, _complete_warmup)                   *)
Awaited(s) == {c \in Answers : c.s = s /\ c.gen = gen[s] /\ c.conn = conn}
WarmupMatches ==
    at # "stopped" =>
        /\ \A s \in Symbols :
             Cardinality(Awaited(s)) = IF s \in warming THEN 1 ELSE 0
        /\ loads \subseteq UNION {Awaited(s) : s \in Symbols}

(* A symbol in active_symbols, which reconciliations leave alone, has its  *)
(* subscription on the connection of now.  Left out are the symbols that   *)
(* ActiveHasBars is about.  (_reconcile, _remove_symbol, _connect)         *)
Genuine == {s \in active : status[s] = "active" => s \in enough}
ActiveIsSubscribed == at # "stopped" => Genuine \subseteq subs

(* The pool is well formed, and what it reports active is subscribed.      *)
PoolIsSound == TypeOK /\ ActiveIsSubscribed

(* A symbol is ACTIVE only with the bars its own warm-up and its own       *)
(* candles gave it.  (_handle_candle, _bars_updated)                       *)
ActiveHasBars == \A s \in Symbols : status[s] = "active" => s \in enough

(* Once nothing fails any more and the watch list stays, the stream ends   *)
(* up serving exactly the watch list, whatever went wrong before, unless a *)
(* symbol Longbridge refuses is in the pool.                               *)
(* (_poll_watchlist, _reconcile, _check_connection, _connect)              *)
Served ==
    /\ desired = watch /\ active = watch /\ warming = {}
    /\ subs \subseteq watch /\ link = "good"
Settles == <>[](Served \/ stopping \/ refused \cap (watch \cup desired) # {})

(* The same of the targets alone: what leaves the watch list leaves the    *)
(* pool.  (_connect, _reload_desired_targets, _reconcile)                  *)
PoolFollowsWatchList == <>[](desired = watch \/ stopping)

(* A requested stop is carried out, also when a refused symbol makes every *)
(* connection attempt fail.                                                *)
(* (stop, _connect, _shutdown)                                             *)
StopConcludes == stopping ~> (at = "stopped")
=============================================================================
