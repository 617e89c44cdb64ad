----------------------------- MODULE CandleStore -----------------------------
(***************************************************************************)
(* The minute candles of one symbol in the market stream, from the SDK's   *)
(* callback to Redis.  Three tasks of one event loop share them: the       *)
(* consumer of the event queue ("live"), the flush of pending writes       *)
(* ("flush") and the subscription manager's worker ("worker"), which       *)
(* applies warm-ups and also reconnects and removes the symbol.  A step    *)
(* runs from one await to the next.                                        *)
(***************************************************************************)
EXTENDS Integers, FiniteSets, Sequences, FiniteSetsExt

CONSTANTS
    LastMinute, DayLength,  \* minutes of the exchange, and how many make a day
    BarLimit,               \* MarketStreamConfig.bar_limit
    QueueSize,              \* event_queue_size
    CacheGap,               \* cache_gap_tolerance
    MaxPushes,              \* bound on the pushes
    MaxUpsets               \* bound on reconnects, removals and failures of reads and writes

ASSUME StoreAssumption ==
    /\ LastMinute \in Nat \ {0} /\ DayLength \in Nat \ {0} /\ BarLimit \in Nat \ {0}
    /\ QueueSize \in Nat \ {0} /\ CacheGap \in Nat
    /\ MaxPushes \in Nat /\ MaxUpsets \in Nat

VARIABLES
    minute,    \* the exchange's unfinished minute
    pushed,    \* pushes so far, the clock that stamps received_at
    connection,\* connection_generation
    changes,   \* reconnects and removals so far
    life,    \* SymbolRuntimeState.status
    day,       \* its trading_date, 0 for None
    load,      \* the warm-up task's step and what it has loaded
    waiting,   \* pending_unconfirmed_candle_events
    events,    \* event_queue
    buffer,    \* warming_buffers of this generation
    bars,      \* bars_1m
    pendBars,  \* pending_bars
    pendCur,   \* pending_candles
    op,        \* per task, the Redis write it awaits
    redisBars, redisCur,
    lasting,   \* the Redis keys whose TTL reaches the next session
    heard,     \* history: closed minutes put into the queue in this generation
    storeFaults

storeVars == <<minute, pushed, connection, changes, life, day, load, waiting, events, buffer, bars,
               pendBars, pendCur, op, redisBars, redisCur, lasting, heard, storeFaults>>

Minutes  == 1..LastMinute
DayOf(m) == 1 + ((m - 1) \div DayLength)
Writers  == {"live", "flush", "worker"}
Candles  == [m : Minutes, confirmed : BOOLEAN, at : 0..MaxPushes]
Events   == [candle : Candles, gen : Nat]
Idle     == [step |-> "idle", bars |-> {}, cur |-> {}, obsolete |-> {}, day |-> 0]

StoreTypeOK ==
    /\ minute \in Minutes /\ pushed \in 0..MaxPushes /\ connection \in Nat /\ changes \in 0..MaxUpsets
    /\ life \in {"pending", "warming", "live", "removing", "forgotten", "removed"}
    /\ day \in 0..DayOf(LastMinute)
    /\ load \in [step : {"none", "cache", "fetch", "ready"}, bars : SUBSET Candles]
    /\ waiting \subseteq Events /\ Cardinality(waiting) <= 1
    /\ events \in Seq(Events) /\ Len(events) <= QueueSize
    /\ \A s \in {buffer, bars, pendBars, pendCur, redisBars, redisCur} :
          s \subseteq Candles /\ \A b, c \in s : b.m = c.m => b = c
    /\ Cardinality(bars) <= BarLimit /\ Cardinality(redisBars) <= BarLimit
    /\ op \in [Writers -> [step : {"idle", "read", "put", "current"}, bars : SUBSET Candles,
                           cur : SUBSET Candles, obsolete : SUBSET Minutes,
                           day : 0..DayOf(LastMinute)]]
    /\ lasting \subseteq {"bars", "current"}
    /\ heard \subseteq Minutes
    /\ storeFaults \in 0..MaxUpsets

StoreInit ==
    /\ minute = 1 /\ pushed = 0 /\ connection = 1 /\ changes = 0
    /\ life = "pending" /\ day = 0
    /\ load = [step |-> "none", bars |-> {}]
    /\ waiting = {} /\ events = <<>> /\ buffer = {} /\ bars = {}
    /\ pendBars = {} /\ pendCur = {}
    /\ op = [w \in Writers |-> Idle]
    /\ redisBars = {} /\ redisCur = {} /\ lasting = {}
    /\ heard = {} /\ storeFaults = 0

MoreUpsets == changes + storeFaults < MaxUpsets
StoreFault == MoreUpsets /\ storeFaults' = storeFaults + 1
NoFault    == UNCHANGED storeFaults

(***************************************************************************)
(* Sets of candles with at most one per minute                             *)
(***************************************************************************)
Put(set, c)   == {b \in set : b.m # c.m} \cup {c}
At(set, m)    == {b \in set : b.m = m}
Ms(set)       == {b.m : b \in set}
ClosedBars(set)   == {b \in set : b.confirmed}
Newest(set)   == {b \in set : \A c \in set : c.m <= b.m}
Trim(set)     == {b \in set : Cardinality({m \in Ms(set) : m > b.m}) < BarLimit}

(* (confirmed, received_at), compared lexicographically.                   *)
Older(b, c)   == (~b.confirmed /\ c.confirmed) \/ (b.confirmed = c.confirmed /\ b.at < c.at)

(* _queue_pending_bars *)
PendingBars(pending, new) ==
    LET kept == {c \in ClosedBars(new) : \A b \in At(pending, c.m) : ~Older(c, b)} IN
    Trim({b \in pending : b.m \notin Ms(kept)} \cup kept)

(***************************************************************************)
(* The SDK's callback                                                      *)
(***************************************************************************)
Subscribed == life \in {"warming", "live"}

MinuteEnds ==
    /\ minute < LastMinute
    /\ minute' = minute + 1
    /\ UNCHANGED <<pushed, connection, changes, life, day, load, waiting, events, buffer, bars, pendBars,
                   pendCur, op, redisBars, redisCur, lasting, heard, storeFaults>>

(* _put_event_nowait drops the event when the queue is full.               *)
PutNowait(e) == IF Len(events) < QueueSize THEN Append(events, e) ELSE events

(* _enqueue_event: an unconfirmed candle waits to be merged with the next  *)
(* one, a confirmed one goes to the queue and takes the place of the       *)
(* unconfirmed candle of its own or an earlier minute.                     *)
Push(m, confirmed) ==
    /\ Subscribed /\ pushed < MaxPushes
    /\ IF confirmed THEN m < minute ELSE m = minute
    /\ pushed' = pushed + 1
    /\ LET e == [candle |-> [m |-> m, confirmed |-> confirmed, at |-> pushed'], gen |-> connection] IN
       IF confirmed
       THEN /\ waiting' = {w \in waiting : w.candle.m > m}
            /\ events' = PutNowait(e)
            /\ heard' = IF Len(events) < QueueSize THEN heard \cup {m} ELSE heard
       ELSE /\ waiting' = {e}
            /\ UNCHANGED <<events, heard>>
    /\ UNCHANGED <<minute, connection, changes, life, day, load, buffer, bars, pendBars, pendCur, op,
                   redisBars, redisCur, lasting, storeFaults>>

(* _flush_unconfirmed_candle_events_once *)
FlushUnconfirmed ==
    /\ waiting # {}
    /\ waiting' = {}
    /\ \E e \in waiting : events' = PutNowait(e)
    /\ UNCHANGED <<minute, pushed, connection, changes, life, day, load, buffer, bars, pendBars, pendCur,
                   op, redisBars, redisCur, lasting, heard, storeFaults>>

(***************************************************************************)
(* The consumer                                                            *)
(***************************************************************************)
TakeEvent(e) == op["live"] = Idle /\ events # <<>> /\ e = Head(events) /\ events' = Tail(events)

Ignored(e) == e.gen # connection \/ ~Subscribed

IgnoreEvent ==
    /\ \E e \in Range(events) : TakeEvent(e) /\ Ignored(e)
    /\ UNCHANGED <<minute, pushed, connection, changes, life, day, load, waiting, buffer, bars, pendBars,
                   pendCur, op, redisBars, redisCur, lasting, heard, storeFaults>>

BufferEvent ==
    /\ life = "warming"
    /\ \E e \in Range(events) :
         /\ TakeEvent(e) /\ ~Ignored(e)
         /\ buffer' = IF \A b \in At(buffer, e.candle.m) : e.candle.at >= b.at
                      THEN Put(buffer, e.candle) ELSE buffer
    /\ UNCHANGED <<minute, pushed, connection, changes, life, day, load, waiting, bars, pendBars, pendCur,
                   op, redisBars, redisCur, lasting, heard, storeFaults>>

(* _update_live_candle_memory: a candle of a later day empties the window, *)
(* one of an earlier day or an older one of its minute is refused.         *)
HandleCandle ==
    /\ life = "live"
    /\ \E e \in Range(events) :
         LET c      == e.candle
             window == IF day # 0 /\ DayOf(c.m) > day THEN {} ELSE bars
         IN
         /\ TakeEvent(e) /\ ~Ignored(e)
         /\ IF DayOf(c.m) < day \/ \E b \in At(window, c.m) : Older(c, b)
            THEN UNCHANGED <<day, bars, pendCur, op>>
            ELSE /\ day' = DayOf(c.m)
                 /\ bars' = Trim(Put(window, c))
                 /\ pendCur' = Newest(bars')
                 /\ op' = IF c.confirmed THEN [op EXCEPT !["live"] = [Idle EXCEPT !.step = "read", !.bars = {c}]]
                          ELSE op
    /\ UNCHANGED <<minute, pushed, connection, changes, life, load, waiting, buffer, pendBars, redisBars,
                   redisCur, lasting, heard, storeFaults>>

(***************************************************************************)
(* The flush                                                               *)
(***************************************************************************)
StartFlush ==
    /\ op["flush"] = Idle
    /\ pendBars \cup pendCur # {}
    /\ op' = [op EXCEPT !["flush"] = [Idle EXCEPT !.step = "current", !.bars = pendBars, !.cur = pendCur]]
    /\ pendBars' = {} /\ pendCur' = {}
    /\ UNCHANGED <<minute, pushed, connection, changes, life, day, load, waiting, events, buffer, bars,
                   redisBars, redisCur, lasting, heard, storeFaults>>

(***************************************************************************)
(* The writes: write_batch and upsert_bars_batch for the flush,            *)
(* upsert_bars for the consumer, upsert_bars and write_current_candle for  *)
(* the worker                                                              *)
(***************************************************************************)
memory == <<minute, pushed, connection, changes, life, day, load, waiting, events, buffer, bars, heard>>

After(w, step) == IF step = "current" THEN (IF w = "flush" THEN "read" ELSE "idle")
                  ELSE (IF w = "worker" /\ op[w].cur # {} THEN "current" ELSE "idle")

AdvanceDroppingAll(w, step) ==
    LET next == IF After(w, step) = "read" /\ op[w].bars = {} THEN "idle" ELSE After(w, step) IN
    /\ op' = [op EXCEPT ![w] = IF next = "idle" THEN Idle ELSE [@ EXCEPT !.step = next]]
    /\ pendBars' = IF next = "idle" THEN {} ELSE pendBars

(* Once all is written the pending writes of the same minutes are dropped. *)
Advance(w, step) ==
    LET next == IF After(w, step) = "read" /\ op[w].bars = {} THEN "idle" ELSE After(w, step) IN
    /\ op' = [op EXCEPT ![w] = IF next = "idle" THEN Idle ELSE [@ EXCEPT !.step = next]]
    /\ pendBars' = IF next = "idle" /\ w # "flush"
                   THEN {b \in pendBars : b.m \notin Ms(op[w].bars)} ELSE pendBars

WriteCurrent(w) ==
    /\ op[w].step = "current"
    /\ IF op[w].cur = {} THEN UNCHANGED <<redisCur, lasting>>
       ELSE redisCur' = op[w].cur /\ lasting' = lasting \cup {"current"}
    /\ Advance(w, "current")
    /\ UNCHANGED <<memory, pendCur, redisBars>> /\ NoFault

(* upsert_bars_batch reads the newest bar and the bars of earlier days ... *)
ReadRedis(w) ==
    /\ op[w].step = "read"
    /\ LET newest == DayOf(Max(Ms(redisBars \cup op[w].bars))) IN
       op' = [op EXCEPT ![w].step = "put", ![w].day = newest,
                        ![w].obsolete = {m \in Ms(redisBars) : DayOf(m) < newest}]
    /\ UNCHANGED <<memory, pendBars, pendCur, redisBars, redisCur, lasting>> /\ NoFault

(* ... and then, without a transaction, deletes these and writes its own.  *)
Upserted(w) ==
    LET new == {b \in op[w].bars : DayOf(b.m) = op[w].day} IN
    Trim({b \in redisBars : b.m \notin Ms(new) \cup op[w].obsolete} \cup new)

WriteBars(w) ==
    /\ op[w].step = "put"
    /\ redisBars' = Upserted(w) /\ lasting' = lasting \cup {"bars"}
    /\ Advance(w, "put")
    /\ UNCHANGED <<memory, pendCur, redisCur>> /\ NoFault

(* A write raises, made or not: everything goes back to the pending ones.  *)
WriteRaises(w) ==
    /\ op[w].step # "idle" /\ StoreFault
    /\ \/ UNCHANGED <<redisBars, redisCur, lasting>>
       \/ /\ op[w].step = "put"
          /\ redisBars' = Upserted(w) /\ lasting' = lasting \cup {"bars"} /\ UNCHANGED redisCur
       \/ /\ op[w].step = "current" /\ op[w].cur # {}
          /\ redisCur' = op[w].cur /\ lasting' = lasting \cup {"current"} /\ UNCHANGED redisBars
    /\ op' = [op EXCEPT ![w] = Idle]
    /\ pendBars' = PendingBars(pendBars, op[w].bars)
    /\ pendCur' = IF w = "flush" /\ pendCur = {} THEN op[w].cur ELSE pendCur
    /\ UNCHANGED memory

(***************************************************************************)
(* The worker                                                              *)
(***************************************************************************)
WorkerFree == op["worker"] = Idle

Subscribe ==
    /\ WorkerFree /\ life \in {"pending", "removed"}
    /\ life' = "warming" /\ load' = [step |-> "cache", bars |-> {}]
    /\ UNCHANGED <<minute, pushed, connection, changes, day, waiting, events, buffer, bars, pendBars, pendCur,
                   op, redisBars, redisCur, lasting, heard, storeFaults>>

(* _load_warmup: the cached bars, and the history unless they reach the    *)
(* current session.  Either read may fail.                                 *)
CacheIsCurrent(cached) ==
    \E b \in cached : DayOf(b.m) = DayOf(minute) /\ b.m < minute /\ minute - 1 - b.m <= CacheGap

LoadCache ==
    /\ load.step = "cache"
    /\ \/ load' = [step |-> IF CacheIsCurrent(redisBars) THEN "ready" ELSE "fetch", bars |-> redisBars] /\ NoFault
       \/ load' = [step |-> "fetch", bars |-> {}] /\ StoreFault
    /\ UNCHANGED <<minute, pushed, connection, changes, life, day, waiting, events, buffer, bars, pendBars,
                   pendCur, op, redisBars, redisCur, lasting, heard>>

(* The history holds the closed minutes of the last day and may hold the   *)
(* unfinished one.  An error discards the cached bars with it.             *)
LoadHistory ==
    /\ load.step = "fetch"
    /\ \/ LET done == {[m |-> m, confirmed |-> TRUE, at |-> pushed] :
                          m \in {n \in Minutes : n < minute /\ DayOf(n) = DayOf(minute)}}
              open == {[m |-> minute, confirmed |-> FALSE, at |-> pushed]}
          IN \E history \in {done, done \cup open} :
               load' = [step |-> "ready",
                        bars |-> history \cup {b \in load.bars : b.m \notin Ms(history)}] /\ NoFault
       \/ load' = [step |-> "ready", bars |-> {}] /\ StoreFault
    /\ UNCHANGED <<minute, pushed, connection, changes, life, day, waiting, events, buffer, bars, pendBars,
                   pendCur, op, redisBars, redisCur, lasting, heard>>

(* merge_warmup_bars: the newest minute is the live one when there is one, *)
(* any other the best of both.                                             *)
Merged(history, live) ==
    LET all == Ms(history \cup live) IN
    {CHOOSE b \in At(history \cup live, m) :
        IF m = Max(all) /\ At(live, m) # {} THEN b \in live
        ELSE \A c \in At(history \cup live, m) : ~Older(b, c) : m \in all}

ApplyWarmup ==
    /\ WorkerFree /\ life = "warming" /\ load.step = "ready"
    /\ LET merged == Trim(Merged(load.bars, buffer))
           last   == IF merged = {} THEN DayOf(minute) ELSE DayOf(Max(Ms(merged)))
       IN
       /\ day' = last
       /\ bars' = {b \in merged : DayOf(b.m) = last}
       /\ pendCur' = Newest(bars')
       /\ op' = [op EXCEPT !["worker"] =
                   IF bars' = {} THEN Idle
                   ELSE [Idle EXCEPT !.step = IF ClosedBars(bars') = {} THEN "current" ELSE "read",
                                     !.bars = ClosedBars(bars'), !.cur = Newest(bars')]]
    /\ life' = "live" /\ load' = [step |-> "none", bars |-> {}] /\ buffer' = {}
    /\ UNCHANGED <<minute, pushed, connection, changes, waiting, events, pendBars, redisBars, redisCur,
                   lasting, heard, storeFaults>>

(* A reconnection: _cleanup_connection_buffers keeps the confirmed bars.   *)
Reconnect ==
    /\ WorkerFree /\ MoreUpsets /\ Subscribed
    /\ connection' = connection + 1 /\ changes' = changes + 1
    /\ life' = "pending" /\ day' = 0 /\ load' = [step |-> "none", bars |-> {}]
    /\ waiting' = {} /\ buffer' = {} /\ bars' = ClosedBars(bars) /\ pendCur' = {} /\ heard' = {}
    /\ UNCHANGED <<minute, pushed, events, pendBars, op, redisBars, redisCur, lasting, storeFaults>>

(* _remove_symbol, _remove_symbol_state and expire_symbol_cache.           *)
StartRemoval ==
    /\ WorkerFree /\ MoreUpsets /\ Subscribed
    /\ changes' = changes + 1
    /\ life' = "removing" /\ load' = [step |-> "none", bars |-> {}] /\ heard' = {}
    /\ UNCHANGED <<minute, pushed, connection, day, waiting, events, buffer, bars, pendBars, pendCur, op,
                   redisBars, redisCur, lasting, storeFaults>>

Forget ==
    /\ life = "removing"
    /\ life' = "forgotten"
    /\ waiting' = {} /\ buffer' = {} /\ bars' = {} /\ pendBars' = {} /\ pendCur' = {}
    /\ UNCHANGED <<minute, pushed, connection, changes, day, load, events, op, redisBars, redisCur, lasting,
                   heard, storeFaults>>

ExpireCache ==
    /\ life = "forgotten"
    /\ life' = "removed"
    /\ \/ lasting' = {} /\ NoFault
       \/ UNCHANGED lasting /\ StoreFault
    /\ UNCHANGED <<minute, pushed, connection, changes, day, load, waiting, events, buffer, bars, pendBars,
                   pendCur, op, redisBars, redisCur, heard>>

(* A key with the short TTL, which is hours, is gone before the symbol     *)
(* comes back, or not; no write of Redis lasts as long.                    *)
CacheExpires ==
    /\ life = "removed" /\ lasting = {} /\ redisBars \cup redisCur # {}
    /\ \A w \in Writers : op[w] = Idle
    /\ redisBars' = {} /\ redisCur' = {}
    /\ UNCHANGED <<memory, pendBars, pendCur, op, lasting, storeFaults>>

StoreNext ==
    \/ MinuteEnds \/ FlushUnconfirmed \/ IgnoreEvent \/ BufferEvent \/ HandleCandle \/ StartFlush
    \/ \E m \in Minutes, confirmed \in BOOLEAN : Push(m, confirmed)
    \/ \E w \in Writers : WriteCurrent(w) \/ ReadRedis(w) \/ WriteBars(w) \/ WriteRaises(w)
    \/ Subscribe \/ LoadCache \/ LoadHistory \/ ApplyWarmup \/ Reconnect
    \/ StartRemoval \/ Forget \/ ExpireCache \/ CacheExpires

StoreSpec == StoreInit /\ [][StoreNext]_storeVars

(***************************************************************************)
(* Properties                                                              *)
(***************************************************************************)
(* Whatever write fails and whichever task overtakes another, a closed     *)
(* bar of the window is in Redis, or waits or is on its way there, unless  *)
(* later ones crowd it out or Redis has come to a later day.               *)
Storing == redisBars \cup pendBars \cup UNION {op[w].bars : w \in Writers}
ClosedBarsAreSaved ==
    life = "live" =>
      \A b \in ClosedBars(bars) :
        \/ b.m \in Ms(Storing)
        \/ Cardinality({m \in Ms(Storing) : m > b.m}) >= BarLimit
        \/ \E m \in Ms(redisBars) : DayOf(m) > DayOf(b.m)

(* A closed minute that got into the queue survives the merge with the     *)
(* unfinished ones, the warm-up buffer and the warm-up itself: it is on    *)
(* its way or in the window as a closed bar, until later ones crowd it out.*)
ClosedMinutesAreKept ==
    \A m \in heard :
      \/ \E e \in Range(events) : e.gen = connection /\ e.candle.m = m /\ e.candle.confirmed
      \/ m \in Ms(ClosedBars(IF life = "warming" THEN buffer ELSE bars))
      \/ life = "live" /\ (DayOf(m) < day \/ Cardinality({n \in Ms(bars) : n > m}) >= BarLimit)

ClosedCandlesAreKept == ClosedBarsAreSaved /\ ClosedMinutesAreKept
=============================================================================
