------------------------------- MODULE CnFeed -------------------------------
(***************************************************************************)
(* CnQuoteFeed: the minute windows of the Chinese symbols.  One task polls *)
(* the providers and replaces whole windows, another reconciles the pool   *)
(* with the watch lists; they share the symbol locks of the streamer.  A   *)
(* window is known here by its newest closed minute, 0 when it has none.   *)
(* A step runs from one await to the next.                                 *)
(***************************************************************************)
EXTENDS Integers, FiniteSets

CONSTANTS
    Symbols,
    LastBar,       \* the last closed minute of the session
    BatchSize,     \* cn_minute_batch_size
    MaxReconciles, \* bound on the changes of the pool
    MaxCnFaults    \* bound on the writes to Redis that fail

ASSUME CnAssumption == LastBar \in Nat \ {0} /\ MaxReconciles \in Nat /\ MaxCnFaults \in Nat

VARIABLES
    closed,    \* the closed minutes so far: in session until LastBar
    targets,   \* CnQuoteFeed.targets
    owner,     \* its states: the number of the state object, 0 when absent
    created,   \* state objects so far
    settled,   \* _settled, 0 when absent
    window,    \* bars_1m of the streamer
    cache,     \* the window in Redis
    poll,      \* tick_minutes: what it saw, and what it has still to treat
    pool,      \* reconcile: the pool it was given, and its step
    reconciles, cnFaults

cnVars == <<closed, targets, owner, created, settled, window, cache, poll, pool, reconciles, cnFaults>>

Bars     == 0..LastBar
NoPoll   == [step |-> "idle", owners |-> [s \in Symbols |-> 0], active |-> TRUE, expected |-> 0,
             at |-> {}, got |-> 0, saved |-> FALSE]
NoChange == [step |-> "idle", wanted |-> {}, at |-> {}, cached |-> 0]

CnTypeOK ==
    /\ closed \in Bars
    /\ targets \subseteq Symbols
    /\ created \in Nat
    /\ owner \in [Symbols -> 0..created]
    /\ settled \in [Symbols -> Bars] /\ window \in [Symbols -> Bars] /\ cache \in [Symbols -> Bars]
    /\ poll \in [step : {"idle", "treat", "publish", "finish"}, owners : [Symbols -> 0..created],
                 active : BOOLEAN, expected : Bars, at : SUBSET Symbols, got : Bars, saved : BOOLEAN]
    /\ pool \in [step : {"idle", "remove", "forget", "add", "read"}, wanted : SUBSET Symbols,
                 at : SUBSET Symbols, cached : Bars]
    /\ reconciles \in 0..MaxReconciles /\ cnFaults \in 0..MaxCnFaults

CnInit ==
    /\ closed = 1 /\ targets = {} /\ created = 0
    /\ owner = [s \in Symbols |-> 0]
    /\ settled = [s \in Symbols |-> 0]
    /\ window = [s \in Symbols |-> 0]
    /\ cache = [s \in Symbols |-> 0]
    /\ poll = NoPoll /\ pool = NoChange
    /\ reconciles = 0 /\ cnFaults = 0

Tracked == {s \in Symbols : owner[s] # 0}

(* The symbol lock is held by the poll from the replacement of the window  *)
(* to the last of its writes.                                              *)
Mastered(s) == poll.step \in {"publish", "finish"} /\ s \in poll.at

BarCloses ==
    /\ closed < LastBar
    /\ closed' = closed + 1
    /\ UNCHANGED <<targets, owner, created, settled, window, cache, poll, pool, reconciles, cnFaults>>

(***************************************************************************)
(* tick_minutes                                                            *)
(***************************************************************************)
Due == {s \in targets : closed < LastBar \/ settled[s] # LastBar}

(* The request takes a batch of the symbols that are due, with the state   *)
(* object each of them has now.                                            *)
StartPoll ==
    /\ poll.step = "idle"
    /\ \E batch \in SUBSET Due :
         /\ Cardinality(batch) \in 1..BatchSize
         /\ poll' = [NoPoll EXCEPT !.step = "treat", !.active = closed < LastBar, !.expected = closed,
                        !.owners = [s \in Symbols |-> IF s \in batch THEN owner[s] ELSE 0]]
    /\ UNCHANGED <<closed, targets, owner, created, settled, window, cache, pool, reconciles, cnFaults>>

Left == {s \in Symbols : poll.owners[s] # 0}

(* The next symbol: its state may be another one by now, or its answer be  *)
(* empty.                                                                  *)
SkipSymbol(s) ==
    /\ poll.step = "treat" /\ s \in Left
    /\ poll' = [poll EXCEPT !.owners[s] = 0]
    /\ UNCHANGED <<closed, targets, owner, created, settled, window, cache, pool, reconciles, cnFaults>>

ReplaceAnyWindow(s, got) ==
    /\ poll.step = "treat" /\ s \in Left
    /\ got <= poll.expected
    /\ window' = [window EXCEPT ![s] = got]
    /\ poll' = [poll EXCEPT !.step = "publish", !.at = {s}, !.got = got, !.saved = FALSE]
    /\ UNCHANGED <<closed, targets, owner, created, settled, cache, pool, reconciles, cnFaults>>

(* Under the lock its window becomes the provider's, up to got.            *)
ReplaceWindow(s, got) ==
    /\ poll.step = "treat" /\ s \in Left
    /\ owner[s] = poll.owners[s]
    /\ got <= poll.expected
    /\ window' = [window EXCEPT ![s] = got]
    /\ poll' = [poll EXCEPT !.step = "publish", !.at = {s}, !.got = got, !.saved = FALSE]
    /\ UNCHANGED <<closed, targets, owner, created, settled, cache, pool, reconciles, cnFaults>>

(* replace_intraday_bars is one transaction; its failure is only noted.    *)
PublishWindow ==
    /\ poll.step = "publish"
    /\ \E saved \in BOOLEAN :
         /\ IF saved THEN UNCHANGED cnFaults
            ELSE cnFaults < MaxCnFaults /\ cnFaults' = cnFaults + 1
         /\ poll' = [poll EXCEPT !.step = "finish", !.saved = saved]
         /\ \E s \in poll.at : cache' = IF saved THEN [cache EXCEPT ![s] = poll.got] ELSE cache
    /\ UNCHANGED <<closed, targets, owner, created, settled, window, pool, reconciles>>

(* After the session the symbol is settled once its final bar is stored.   *)
Final == poll.saved /\ ~poll.active /\ poll.got = poll.expected

FinishSymbol ==
    /\ poll.step = "finish"
    /\ \E s \in poll.at :
         /\ poll' = [poll EXCEPT !.step = "treat", !.owners[s] = 0, !.at = {}]
         /\ settled' = IF Final THEN [settled EXCEPT ![s] = poll.expected] ELSE settled
    /\ UNCHANGED <<closed, targets, owner, created, window, cache, pool, reconciles, cnFaults>>

EndPoll ==
    /\ poll.step = "treat" /\ Left = {}
    /\ poll' = NoPoll
    /\ UNCHANGED <<closed, targets, owner, created, settled, window, cache, pool, reconciles, cnFaults>>

(***************************************************************************)
(* reconcile                                                               *)
(***************************************************************************)
StartReconcile(wanted) ==
    /\ pool.step = "idle" /\ reconciles < MaxReconciles
    /\ reconciles' = reconciles + 1
    /\ pool' = [NoChange EXCEPT !.step = "remove", !.wanted = wanted]
    /\ UNCHANGED <<closed, targets, owner, created, settled, window, cache, poll, cnFaults>>

(* A symbol that left the pool: its state goes first ...                   *)
DropState(s) ==
    /\ pool.step = "remove" /\ s \in Tracked \ pool.wanted
    /\ owner' = [owner EXCEPT ![s] = 0]
    /\ settled' = [settled EXCEPT ![s] = 0]
    /\ pool' = [pool EXCEPT !.step = "forget", !.at = {s}]
    /\ UNCHANGED <<closed, targets, created, window, cache, poll, reconciles, cnFaults>>

(* ... then, under its lock, its window.                                   *)
ForgetWindow(s) ==
    /\ pool.step = "forget" /\ s \in pool.at /\ ~Mastered(s)
    /\ window' = [window EXCEPT ![s] = 0]
    /\ pool' = [pool EXCEPT !.step = "remove", !.at = {}]
    /\ UNCHANGED <<closed, targets, owner, created, settled, cache, poll, reconciles, cnFaults>>

SetTargets ==
    /\ pool.step = "remove" /\ Tracked \subseteq pool.wanted
    /\ targets' = pool.wanted
    /\ pool' = [pool EXCEPT !.step = "add"]
    /\ UNCHANGED <<closed, owner, created, settled, window, cache, poll, reconciles, cnFaults>>

ReadCache(s) ==
    /\ pool.step = "add" /\ s \in targets \ Tracked
    /\ pool' = [pool EXCEPT !.step = "read", !.at = {s}, !.cached = cache[s]]
    /\ UNCHANGED <<closed, targets, owner, created, settled, window, cache, poll, reconciles, cnFaults>>

AddState(s) ==
    /\ pool.step = "read" /\ s \in pool.at
    /\ created' = created + 1
    /\ owner' = [owner EXCEPT ![s] = created']
    /\ window' = IF pool.cached # 0 THEN [window EXCEPT ![s] = pool.cached] ELSE window
    /\ pool' = [pool EXCEPT !.step = "add", !.at = {}, !.cached = 0]
    /\ UNCHANGED <<closed, targets, settled, cache, poll, reconciles, cnFaults>>

(* Nothing is left to add, or a read of Redis raises and the next poll of  *)
(* the watch lists takes up the rest.                                      *)
EndReconcile ==
    /\ pool.step = "add"
    /\ \/ targets \subseteq Tracked /\ UNCHANGED cnFaults
       \/ cnFaults < MaxCnFaults /\ cnFaults' = cnFaults + 1
    /\ pool' = NoChange
    /\ UNCHANGED <<closed, targets, owner, created, settled, window, cache, poll, reconciles>>

(* Two hours after its removal a symbol's keys are gone.                   *)
KeysExpire(s) ==
    /\ s \notin Tracked \cup pool.at /\ cache[s] # 0
    /\ cache' = [cache EXCEPT ![s] = 0]
    /\ UNCHANGED <<closed, targets, owner, created, settled, window, poll, pool, reconciles, cnFaults>>

CnNext ==
    \/ BarCloses \/ StartPoll \/ PublishWindow \/ FinishSymbol \/ EndPoll \/ SetTargets \/ EndReconcile
    \/ \E wanted \in SUBSET Symbols : StartReconcile(wanted)
    \/ \E s \in Symbols :
         \/ SkipSymbol(s) \/ DropState(s) \/ ForgetWindow(s) \/ ReadCache(s) \/ AddState(s) \/ KeysExpire(s)
         \/ \E got \in 0..LastBar : ReplaceWindow(s, got)

CnSpec == CnInit /\ [][CnNext]_cnVars

(***************************************************************************)
(* Properties                                                              *)
(***************************************************************************)
(* A window exists only for a tracked symbol, or for one whose removal     *)
(* waits for its lock: the answer to a request that was under way when the *)
(* symbol was removed, or removed and added again, leaves none behind.     *)
WindowsAreTracked ==
    \A s \in Symbols : window[s] # 0 => s \in Tracked \/ (pool.step = "forget" /\ s \in pool.at)

(* The writes of one poll are all made for the state object it started     *)
(* with, unless the symbol's removal is waiting for that very poll.        *)
PublishedForOwner ==
    \A s \in poll.at : Mastered(s) =>
        owner[s] = poll.owners[s] \/ (pool.step = "forget" /\ s \in pool.at)

WindowsAreOwned == WindowsAreTracked /\ PublishedForOwner

(* cn_feed.py:147: "At lunch/close, retry until the final closed bar is    *)
(* actually received."  A tracked symbol that is not retried has it.  The  *)
(* code refutes it: the poll of a removed state settles the symbol after   *)
(* its removal cleared the mark, and its next state is never asked for.    *)
SettledHasFinalBar ==
    \A s \in Tracked : settled[s] = LastBar => window[s] = LastBar
=============================================================================
