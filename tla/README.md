# finance_analysis: a verification project in TLA+

finance_analysis is a Python backend (FastAPI, Celery, PostgreSQL, Redis) that
collects market data, runs scheduled analyses of the US and A-share markets,
trains and applies Qlib models in a separate worker, and streams live quotes.
This directory holds TLA+ models of the parts of it whose correctness depends
on the order in which processes act, the TLC configurations that check them and
the TLAPS proofs about them. Paths below are relative to
`src/finance_analysis/` of the repository, unless they start with `docs/` or
`qlib_worker/`.

## 1. Inventory

| Component | State it keeps | Operations | Hard behaviour | Correct when |
|---|---|---|---|---|
| Task records (`database/repositories/task_record.py`) | one `task` row per Celery task id | ensure_record, update_status | four kinds of writer, any order | a status never moves back; the columns agree |
| Task lifecycle (`tasks/lifecycle.py`) | the row, the attempt, context variables | track_task, mark_* | automatic retries, swallowed writes, deferred completion, killed workers | the row ends telling what happened |
| Manual runs (`tasks/service.py`) | the row | run_scheduled_task_now | ambiguous submission | a refused run is cancelled, an accepted one tells its verdict |
| Advisory locks (`tasks/advisory_lock.py`) | a PostgreSQL session | acquire, release | a lost session, a release that raises | jobs of one lock do not overlap; a lock is given back |
| Schedule and beat (`tasks/celery/app.py`, `schedule/`) | crontab, Redis heartbeat | publish signal | expiry, queues | one row per publication |
| Daily Qlib prediction (`tasks/celery/jobs/quant_daily`, `quant/pipeline`) | `quant_execution`, the parent's row | prepare, dispatch, finalize, fail | link/link_error callbacks, retries, late results | one live execution per date; published exactly when the parent says so |
| Prediction inputs (`quant/datasets/transient.py`, `cleanup.py`) | a directory and its `.lease` | build, remove, cleanup_inputs | the reader is another process | never removed under a reader, removed in the end |
| Qlib worker (`qlib_worker/`) | the lease, artifacts | predict_daily, train_model | killed processes, redelivery | reads only a whole input |
| Quant training (`tasks/celery/jobs/quant_training`) | model runs, a dataset, task rows | request, prepare, claim, submit, finalize, fail | ambiguous sends and commits, late callbacks | a conclusion stays; every run reaches one |
| Quant models (`database/repositories/quant.py`, `quant/`) | model runs, releases, files | publish, roll back, delete, read | publication against deletion and execution | the release names two production models that exist |
| Market stream (`market_stream/subscription_manager.py`, `service.py`) | targets, active and warming symbols, generations, command and event queues | connect, reconcile, warm up, health, bars, stop | callbacks of dead connections, a reconnection inside a reconciliation | active symbols are subscribed and end up being the desired ones |
| Stream leadership (`market_stream/leader_lock.py`) | a Redis key with a lifetime | acquire, renew, release | a renewal later than the expiry | one stream at a time |
| CN feed (`market_stream/cn_feed.py`) | states, minute windows, settled symbols | reconcile, poll | a removal during a poll | a window belongs to a tracked symbol |
| Realtime state (`integrations/market_data/realtime_state`) | bars in memory, candles in Redis | merge, flush, trim | late and unfinished bars, failing writes | a closed bar reaches Redis and stays closed |
| Daily bars (`tasks/celery/jobs/market_data_sync`) | `stock_daily` rows and their basis | incremental and full sync, delayed retry | partial answers, splits | one basis, no lost session |
| Market data router (`integrations/market_data`) | none per request | route by capability, fall back | partial batches | one provider per symbol's history |
| Notification (`notification/`) | noise control in memory, messages | reserve, send, record, release | a send longer than a reservation | nothing is suppressed unless a report went out |
| LLM access (`llm/`) | audit log | complete with retry and fallback | timeouts | ordered providers, at most the configured attempts |
| Portfolio (`database/repositories/portfolio.py`, `portfolio/`) | accounts, positions, lots, trades, receipts | buy, sell, set cash | repeated and concurrent requests, READ COMMITTED | one effect per operation id, no lost update |
| Stock strategies (`stock_strategies/`) | ledger of sessions, attempts | run, settle, report an attempt | a lock lost in the middle, an attempt read and written under no lock | no session skipped or settled twice |
| Intraday confirmation (`intraday_confirmation/`) | one document per day with a revision | evaluate, save, attach returns | overlapping runs | the verdict follows from the observations |
| Research previews (`database/repositories/research_preview.py`) | batch header and rows | publish, merge, read | a late publication, a read between two selects | readers see one publication |
| Earnings outlook (`earnings_outlook/`) | schedule rows, versions, review | scan, final scan, refresh, defer, review | the calendar moves the event in between, the lock's session ends | a stage is paid for once, saved before release, shown while it applies |
| Signal centre (`signal_center/`) | the day's row, frozen candidates, message | check, screen, decide, complete | killed checks, partial screening | one decision and one message per day |
| Trend following (`trend_following/`) | chains of daily snapshots | append, rerun, invalidate | no lock, revised bars, break-offs | a chain equals its rebuild |
| Ranking cache (`core/snapshot_cache.py`) | revision and bodies in Redis | read, build, save, invalidate | a slow build across a write | no stale body is put back |
| ETF rotation, reviews, stocks, calendar, API, MCP, core, web, migrations | tables and views | batch jobs and CRUD | their tasks' lives only | (data assembly and arithmetic) |

**How they interact.** The API or beat publishes a Celery message;
`before_task_publish` writes the pending row from the publisher's process; a
worker runs `track_task`, which writes the row around the job and holds the
job's advisory lock. A Qlib parent sends its work to the worker's queue with
`link` and `link_error` callbacks, writes 50% progress and returns; a callback
on the main application later writes the parent's final status. `cleanup_inputs`
runs at the start of every dispatch and every six hours and acts on the
executions, the inputs and the parents of others. The research jobs of a day
each write tables of their own, and read what the jobs before them wrote; the
signal centre waits for all of them. The stream is one process elected through
Redis, whose tasks share memory and symbol locks. All processes share only
PostgreSQL, Redis and the artifact directory.

The hazards of this code, each with the line where it bites and the properties
that cover it, are listed under `hazards` in `PROJECT.json`.

## 2. Modules

A step of a module is what the program does without another actor being able to
come in between: a transaction, a Redis script, a message, a file operation, or
the code from one `await` to the next. Where PostgreSQL lets statements of one
transaction see different states, a step is a statement.

### Tasks: TaskRecord, TaskLifecycle

`TaskRecord` holds the row and the writes to it as functions from the old row
to the new one: every write runs in one transaction under `FOR UPDATE`. The
columns `started_at`, `finished_at` and `error` hold the number of the attempt
that wrote them. `Applied` is `_can_apply_status`: a terminal status yields
only to another terminal status; the metadata is written in any case.

`TaskLifecycle` has one state machine per task: the publisher (`pub`), the
message (`msg`), the step of the worker (`wrk`), the attempt's verdict and
exception, its advisory lock, and the Qlib child. Each write is a step of its
own, so that the writers interleave as their transactions do. A write through
`_safe_write` either takes effect or is lost. Faults are actions: a publisher
that dies, an ambiguous submission, an expired message, a killed worker, a lost
session, a release that raises in the `finally` block, a lost child.

Correspondence: `SubmitManual`/`Announce`/`Send`/`SendFails`/`Cancel` are
`run_scheduled_task_now` and the publish signal; `Start` to `Release` are the
statements of `track_task.wrapper` in order; `Reannounce` and `Resend` are
Celery's automatic retry, whose message goes through the same signal;
`ChildFinal` stands for the callbacks that `QuantDaily` models in detail.

### Quant: QuantDaily, QuantTraining, QuantReleases

`QuantDaily` has the executions of one market and date, each with its parent
task: the parent's `_dispatch` (`disp`), the Qlib worker (`qlib`, and `again`
for a second delivery), the two callbacks (`call`), the input and the lease on
it, and maintenance (`fenced` holds the executions a maintenance run has failed
and not yet reported). `old` and `beat` abstract the 24-hour comparisons of
`created_at` and of the lease's modification time. The parent's row uses
`Applied` of `TaskRecord`. `TaskLifecycle` takes any verdict of a child,
`QuantDaily` takes a parent that is processing: the same boundary from its two
sides.

`QuantTraining` follows an experiment of two model runs from the API's drafts
through the preparation, each run's claim and submission, the worker and the
callbacks. A send may raise although the broker took it, a commit although the
database made it, a message may come twice (`Copies`), and a process may die
anywhere; each costs one of `MaxTrainFaults`. `runLost` names the runs one of
whose messages, processes or writes disappeared.

`QuantReleases` takes the trained models of one market: pairs are published as
releases, an older release is taken back, runs and their files are deleted, and
executions read the active pair. The repository's methods are transactions; the
checks and file removals that the API makes around them are steps of their own.

### Market stream: SubscriptionManager, CandleStore, CnFeed, Leadership

`SubscriptionManager` is the Longbridge half. One worker takes commands from a
FIFO `queue` and is the only writer of the manager's sets; `at` is its next step
and `cmd` the command it serves, so that a failing unsubscription in the middle
of `_reconcile` runs `_connect` (`Reset`, `Open`, `Prepare`, `Join`) and then
goes on with the `removals` and `adds` computed before. Beside it run the
warm-up loads (`WarmedUp`), the service's poll and health check, the candle
handler in two steps around its awaits (`Candle`, `CandleHandled`), and the stop
request. A symbol is a number (its place in `sorted`), and a target is its
symbol, because the suffix of a symbol decides its market. Generations are
compared only for equality: a new one is the least number that nothing in flight
mentions, which keeps them finite without a bound. `enough` abstracts the number
of bars to whether it reaches `minimum_history_bars`. `link` is what the client
is like (`broken` until a call notices), `refused` the symbols Longbridge never
subscribes, `trouble` the failures and watch-list changes still to come.

`CandleStore` follows the minute candles of one symbol from the SDK's callback
through the bounded event queue, the warm-up buffer and the window to Redis,
with the three tasks that share them: the consumer, the flush of pending writes
and the subscription worker. `CnFeed` is the polled feed of the Chinese symbols:
`tick_minutes` and `reconcile`, which share the symbols' locks and the states a
poll compares by identity. `Leadership` has the stream processes and the leader
key under a clock: a process renews every third of the key's life, may be late,
and stops after a renewal that failed.

### Data and services: DailySync, NoiseControl, LLMClient, RankingCache, Portfolio, Ledger

`DailySync` is the synchronisation of one US symbol: the windows it asks Alpaca
and yfinance for, the repair of gaps, the comparison of the overlap that notices
a new adjustment basis, the replacement of a whole history and the delayed
retry. A row is known by the provider and the basis it was fetched in.
`NoiseControl` is `NotificationService.send` in several threads: reserve under
the lock, try the channels without it, record or release, with deduplication,
cooldown and quiet hours. `LLMClient` is one request over ordered providers.
`RankingCache` has the entries of one date for the ranking and table pages:
writers commit, `INCR` and delete in three steps, requests read revision and
body in one script, build in several selects and save in another script.

`Portfolio` runs the transactions of one account and symbol statement by
statement under READ COMMITTED: row locks, the waiting of an insert on the
unique index of receipts, a position read before it is locked, deadlock aborts,
and effects that appear at the commit. `Ledger` is what the service promises:
requests booked one after the other, each as a whole and an operation once.
`Portfolio` instantiates it (`Serial`, with the committed receipts, quantity and
cash as its variables), and `SerialLedger` says that it implements it.

### Research of a day: StockStrategies, TrendFollowing, SignalCenter, EarningsOutlook, Confirmation, Previews

`StockStrategies`: the runs of one strategy in one market settle the sessions
their ledger lacks; a lost database session lets two of them work at once. The
row lock of the state orders what they settle. An attempt that is no success is
read (`ReadAttempt`) and written (`WriteAttempt`) under no lock.
`TrendFollowing`: the chains of snapshots of one market, one symbol standing for
the universe. Of a day's indicators a row keeps the verdicts that decide the
state, the episode and the freshness of a snapshot, so that a chain computed from
the wrong predecessor differs from its rebuild. Runs append, rerun from an
earlier date, break off and invalidate, without a lock.
`SignalCenter`: checks wait for the formal results, freeze the candidates,
screen them in buckets, let a final call decide and complete the row with its
message; a retry goes on from the frozen row. `EarningsOutlook`: the rounds of
one release by the daily scan, the final scan, administrators and deferred
messages, with their versions and the review, on a calendar that moves. A round
is a process of its own, from the lock it begins with to its end: the lock's
session may end while it goes on (`LoseEventLock`), and another one begins. A day
has two ticks, the morning's and the one after the close. `Confirmation`: the
evaluations of one candidate's document, which is written only over the revision
that was read and not with an older date (`Accepted`); the bar observed may be
older than the newest (`ReadyBars`), and the workers' clocks may differ.
`Previews`: publication, merging and reading of the options
preview under the batch lock.

### MC modules

`MCTasks`, `MCJobs`, `MCResearch`, `MCStream` and `MCServices` compose components
that share no state, each under its own `focus`: a behaviour chooses one of them
and moves only that, so that a run checks the sum of their state spaces and not
the product. `MCQuantDaily` and `MCSubscriptionManager` name the instances of the
other runs. `MCTasks` checks under one specification the two sides of the
parent's row.

### Proof modules

`TaskLifecycleProofs`, `QuantDailyProofs`, `JobProofs` (on `MCJobs`: training,
trend snapshots, ranking cache), `StreamProofs` (on `MCStream`), `ResearchProofs`
(on `MCResearch`) and `ServiceProofs` (the feed, the notifications, the language
models, the previews, the confirmation, the synchronisation, the releases, the
portfolio and its refinement of `Ledger`) hold the theorems of section 5 about the
components. `TasksProofs` and `ServicesProofs` put them together for the
specifications that `MCTasks` and `MCServices` compose. They define no part of
the system.

## 3. Runs

| Run | Distinct states | Properties |
|---|---|---|
| `Tasks` | 46,954 | TasksTypeOK, TruthAtRest, RetryFollowsReportedFailure, RowCoherent, InputOutlivesReader, ParentAgrees, StatusNeverMovesBack, EveryMessageConcludes, LockReleased, FinishedStays, ExecutionConcludes, InputReclaimed |
| `Jobs` | 444,632 | RebuildsAreWhole, HitsAreFresh, ConclusionStays, TrainingConcludes, CatchesUp |
| `Research` | 615,119 | ResearchTypeOK, LedgerIsWhole, SignalIsOne, EverySessionSettles, OutlookIsSound |
| `StreamPool` | 3,392,493 | WarmupMatches, StreamIsSound, ClosedCandlesAreKept, OverlapIsOverdue |
| `StreamSettles` | 652,079 | Settles, StopConcludes |
| `Services` | 585,171 | ServicesTypeOK, NoOverlap, OneLivePerDate, ReleasesAreKept, NoiseIsControlled, WindowsAreOwned, LedgerAgrees, DocumentIsHistory, OnePublication, FallsBackInOrder, SerialLedger, HistoryIsSound |
| `QuantTruth` | | TaskStatusIsTruth is violated |
| `QuantLeak` | | InputsAlwaysReclaimed is violated |
| `StreamStale` | | ActiveHasBars is violated |
| `StreamStuck` | | PoolFollowsWatchList is violated |
| `CnSettled` | | SettledHasFinalBar is violated |
| `SyncFlawed` | | FlawedFullRefused is violated |

Deadlock checking is off in all of them because every instance ends: a task runs
once, a calendar has a last day, a stopped stream does nothing more.

### Bounds

*Tasks and executions.* Tasks interact only through the advisory lock, so two
tasks on one lock (`Services`) show every interaction and one task every
behaviour of a row. Two retries make an attempt that is neither the first nor the
last; three is the largest limit in the code and adds only more of the middle.
The task with retries also has an outcome of its own (`OutcomeTasks`): an attempt
may end well and record a failure, which is not retried. Executions interact only
through the unique index of live ones: two, one fenced and one its successor, are
what it is about. Attempts and retries are bounded by the code's own limits, and
one duplicate delivery (`Redeliver`) is allowed per execution.

*Training.* Two runs, because an experiment's second submission may fail after
its first; one retry, so that there is a last attempt which is not the first; one
fault (`MaxTrainFaults`) anywhere.

*Trend.* The schedule's process and an administrator's, four dates of which the
second is no session, runs for the first two, one revised session
(`MaxRevisions`), one exception or killed worker (`MaxTrendFaults`). On the first
date the symbol may rise or fall, later it rises, so that a chain computed from
the wrong predecessor differs from its rebuild (`Rows`).

*Cache* (in `Jobs`). A lifetime of two hours, four hours, two writes, one outage,
two writers and one request at a time; requests do not interact with each other
except through Redis, in which a request meets its own earlier entries.

*Research.* Two strategy runs, three days (`LastDay`) with a catch-up of two, so
that a run may settle less than what is missing; two faults, so that a lock is
lost and an attempt reported by the run that lost it. `InOrder` leaves out what
nothing can tell apart: runs and rounds start in the order of their names, and
inputs arrive in the order of their sessions, because a run asks for a session's
only when the sessions before it are settled. An outlook of two rounds at a time,
over two days: its release, at slot 4, moves twice, so also to slot 3, which
passes, and back (`MaxChanges`), or once (`MaxMoves` bounds both together) with
one round by hand, one deferred message or one lost lock (`MaxExtra`). Two checks
over two sources and two buckets, with one mishap (`MaxMishaps`): a failed call,
a killed check, a lost lock.

*Stream.* Two symbols are what one command needs to have a symbol before and one
after the one that fails. Three units of `trouble` are a change of the watch
list, a failing unsubscription that reconnects in the middle of the
reconciliation, and another change that it reads (the case in which `_reconcile`
then raises a `KeyError`); `StreamSettles` has two because its graph is checked
for liveness. `MaxLoads` bounds the answers of warm-ups that wait in the queue at
once, not their number. In the same run, each on its own, `candles`: three
minutes, a day of two, a window of two bars, a queue of one event, so that the
day changes and the queue overflows; two pushes and one upset. The keys of a
symbol that left the watch list expire only while no write to them is under way
(`CacheExpires`): their time to live is hours. `leader`: two
processes and a key of three ticks over eight, enough to lose it, let the other
one take it and come back.

*Services.* Each component has two actors and one or two faults. `noise`: two
senders, two reports of one key, a reservation shorter than a send and quiet
hours inside the time modelled. `cn`: two symbols in one batch, three
reconciliations: remove, add and change. `releases`: two models of each kind.
`portfolio`: two buys, two sales and two requests that reuse the first one's id,
one to repeat it (`b1x`) and one in conflict (`b1y`); a buy that opens a position
takes one of the finite `Positions` that was never used (`Unused`). `sync`: four
sessions, a refresh window of three, two bases. `confirmation`: two evaluators,
two minutes and four revisions, so that a confirmation has an evaluation after
it, one lost lock or killed run, and one clock a bar ahead of the other (no gap
between observations is too long then; `DocumentFollowsHistory` holds for any).

### What the properties say

*Tasks.* `TruthAtRest`: a task with nothing in flight has a row that tells a
verdict of its latest attempt, a callback's, or its cancellation. When a
submission is both cancelled and accepted, or a dispatch both failed and
accepted, two verdicts exist and the code keeps the later one. `NoOverlap` covers
a job from entering its body to recording its success. `ParentAgrees`: at rest
the parent is completed exactly when the execution is. Its exceptions are the
lost write, the process that dies with the duty to report, and the effects that
the code cannot know of (a send or commit that took effect and raised, a second
delivery). `ExecutionConcludes` has no exception: whatever is lost, the fence
ends the execution and its market and date are free again.

*Quant.* `ConclusionStays`: a failed run stays failed and an accepted one
accepted, whatever late callback, second delivery or failure branch reaches it.
`TrainingConcludes`: a submitted run and its task row reach a verdict unless one
of their messages, processes or writes was lost. `ReleasesAreKept`: what release
history names, its rows and files, and what an execution reads, outlive every
deletion that raced the publication; the production models are those of the
active release.

*Stream.* `WarmupMatches` is what makes a warming symbol leave that state:
exactly one load, or its answer, carries the generations the symbol has now. A
symbol that had none would stay in `warming_symbols`, which reconciliations leave
alone, for ever. `StreamIsSound` contains its counterpart `ActiveIsSubscribed`,
which leaves out the symbols `StreamStale` is about. `Settles` is the promise of
the whole component: when failures and changes have ended, the pool, the active
symbols and the watch list are one set and the connection is good.
`ClosedCandlesAreKept`: a closed minute that got into the queue is on its way or
in the window, and in Redis or on its way there, whichever write fails and
whichever task overtakes another. `WindowsAreOwned`: a window exists only for a
tracked symbol, and the writes of a poll are for the state it started with.
`OverlapIsOverdue`: two processes write only while one of them has not renewed
for the key's whole life.

*Data and services.* `HistoryIsSound` joins three: no answer mixes two providers,
a session is lost only by a whole answer, and with providers that answer with
whole windows or not at all a run leaves one basis. `NoiseIsControlled`: a report
is suppressed only by one that went out or is going out, so the last failure
report of a task is not lost behind a send that failed. `FallsBackInOrder`: a
provider is given up only when its failure is final or its retries are spent.
`HitsAreFresh`: no request that began before a write puts its body back after the
invalidation. `SerialLedger` and `LedgerAgrees`: the transactions implement the
serial ledger; a position is what its lots have left, there is one open position
of a symbol and an operation is booked once, although no constraint of the
database says so.

*Research.* `LedgerIsWhole`, `EverySessionSettles`: no session is skipped or
settled twice, and every one is settled in the end. An attempt is recorded as a
success only for a session of the ledger; every such session has one, except
where a run that had lost its lock settled or reported it, because a run that
read the attempt before may write its failure over the success.
`RebuildsAreWhole`: from the first date of a run on, the chain is what a rebuild
would make of the same rows. Its exceptions are a run that another overlapped, an
invalidation that failed as well, and the last day that was to be computed again
and could not. `CatchesUp`: whatever reruns delete, the schedule stores the last
session again. `SignalIsOne`: each frozen candidate was asked about once, the
decision is the final call's answer, and the day has one message, even when two
checks ran. `OutlookIsSound`: rounds that hold the event's lock pay for an
automatic stage of a schedule once and in order (nothing in the database says so:
a version of a round that lost the lock, one of `strays`, may repeat a stage);
what is saved, with the lock or without, was predicted before the release of the
event as it is then; and the newest version that applies is shown, until official
research reports the release or the earliest slot the event was given has passed.
`DocumentIsHistory`: the stored verdict is what the saved observations lead to.
`OnePublication`: a reader's header and rows fit together.

### Findings

`QuantTruth`: a commit of `finalize` takes effect, its answer is lost, every
retry raises, and the failure branch marks the parent failed, because
`update_execution` leaves the complete execution alone without saying so. The
task centre then shows a failed run with a published portfolio, although
`docs/task-outcomes.md:3` makes that status the source of truth.
`QuantLeak`: `prepare` records the failure of an execution before it removes
the input and without an `input_uri`; killed in between, it leaves a directory
that maintenance never looks at, although `docs/quant-research.md:191` calls
maintenance the fallback for hard kills.
`StreamStale`: the candle handler counts a symbol's bars before its awaits and
reads its status and generation after them, so a reconnection in between has its
new generation promoted to `ACTIVE` with the count of the old one, which the
generations are there to prevent (`docs/market-streamer.md:10`). When the new
subscription had failed, the promotion also puts the symbol into
`active_symbols`, and no reconciliation subscribes it any more.
`StreamStuck`: `_connect` retries with the targets it read before its loop until
all of them subscribe. One symbol that Longbridge refuses disconnects the whole
stream, and taking it off the watch list changes nothing, because the
reconciliation waits in the queue behind the loop (`docs/market-streamer.md:3`).
`CnSettled`: a poll compares the symbol's state with its own before it writes to
Redis and marks the symbol settled after that without comparing again; removed
and added in between, the new state is settled without bars and nobody asks for
its final one (`market_stream/cn_feed.py:147`).
`SyncFlawed`: the delayed retry of a full synchronisation does not replace the
history, so an answer with a request error, on another basis, is upserted over
the stored rows, which `docs/market-data-providers.md:65` excludes.

Seen in the same code, and checked by no run:

- A symbol that failed to subscribe and then leaves the watch list is in none of
  the three sets `_reconcile` looks at: it keeps its status `ERROR` and its quote
  subscription until the next reconnection.
- `finalize` of a training ignores what `update_model_run` returns, so a run that
  a failure branch ended first has a completed task row.
- An outlook whose event moves away and back stays frozen by the first schedule
  if that slot passed meanwhile: `frozen_schedule_hash` matches exactly and the
  newest version is not shown. `NewestIsShown` ends at `soonest` for this reason.
- When the session of an event's lock ends during a paid call, a second round may
  begin, pay for the same stage and save it: no constraint or check of
  `save_prediction` forbids it.
- A strategy run that lost its lock may read an attempt before another run settles
  the session and write `failed` over its `success`
  (`repositories/stock_strategies.py:99`). The ledger is not touched, and the
  session is not settled again, so the row stays as it is.
- A signal check that lost its lock may complete a row whose buckets another
  check screened; its screening is then not the one recorded. `SignalIsOne`
  leaves its traceability out in that case, its message not.
- Two overlapping trend runs, or a killed historical one, leave later snapshots
  computed from a predecessor that was replaced; only a rerun from there repairs
  them. A rerun for a past date that is no session deletes everything after it
  until the schedule rebuilds it, and one for a date after the last stored day
  without a session between raises `IndexError`.
- A stale body of the ranking cache may live twice its lifetime, through the
  table's entry; `docs/research-read-performance.md:50` speaks of one.

## 4. Fairness

`TaskLifecycle`: weak fairness of each task's worker and of its child. A Celery
worker runs what it takes, and jobs return: the code sets no time limit, so a
job that hangs would keep its row processing for ever. Nothing is assumed of
publishers or faults.

`QuantDaily`: weak fairness of the dispatcher, the Qlib worker, the callbacks,
of maintenance (scheduled every six hours) and of the passing of a day.
`Reclaim` under weak fairness says that an error of the file system does not
last; `Fence` and `TellFenced` are separate because a run may die between them.

`QuantTraining`: weak fairness of the request, of each run's tasks and of the
Qlib worker, in each of the two deliveries: Celery runs every message, and a
process that does not die goes on. Deaths are bounded by `MaxTrainFaults`.

`SubscriptionManager`: weak fairness of the worker, the loads, the poll, the
health check and the handler: they are tasks of one event loop, and each of
their awaits is on a call that returns or times out. Failures are bounded by
`trouble`, so a call that may succeed in the end does; a refused symbol never
does. Nothing makes the watch list change or the stream stop.

`StockStrategies` and `TrendFollowing`: weak fairness of a run's steps, of the
scheduled start (beat sends it every day, and a day that failed is followed by
another) and of the arrival of a session's inputs. Runs by hand, revisions and
faults get none.

In the composed runs the fairness of a component is about its own steps, which
are disabled, or whose fairness is guarded by `focus`, when another one moves.

## 5. Proofs

Each theorem holds for every value of the constants that satisfies the named
assumptions of its modules. The eight proof modules follow the components: what
a property rests on comes first, then a lemma per action, then the theorem.

| Module | Theorem | States |
|---|---|---|
| `TaskLifecycleProofs` | `Typing` | TypeOK |
| | `MutualExclusion` | NoOverlap |
| | `RestTellsTruth` | TruthAtRest |
| | `RetriesAreReported` | RetryFollowsReportedFailure |
| | `NoWayBack` | StatusNeverMovesBack |
| | `RowsAreCoherent` | RowCoherent |
| `QuantDailyProofs` | `DailyTyping` | DailyTypeOK |
| | `ReaderKeepsInput` | InputOutlivesReader |
| | `OneLive` | OneLivePerDate |
| | `ParentKnows` | ParentAgrees |
| | `FinishedForGood` | FinishedStays |
| `TasksProofs` | `TasksTyping` | TasksTypeOK |
| | `TasksAreSound` | the above of `TasksSpec` |
| `JobProofs` | `TrainTyping` | TrainTypeOK |
| | `VerdictStays` | ConclusionStays |
| | `RebuildsWhole` | RebuildsAreWhole |
| | `CacheTyping` | CacheTypeOK |
| | `Freshness` | HitsAreFresh |
| | `JobsAreSound` | the above of `JobsSpec` |
| `StreamProofs` | `LeaderTyping`, `StoreTyping`, `StreamTyping` | the types; StreamIsSound |
| | `OverlapNeedsDelay` | OverlapIsOverdue |
| | `ClosedMinutesStay` | ClosedCandlesAreKept |
| | `WarmUpsAreAwaited` | WarmupMatches |
| | `ActiveIsServed` | PoolIsSound |
| `ServiceProofs` | `WindowsOwned` | WindowsAreOwned |
| | `NoiseControlled` | NoiseIsControlled |
| | `FallbackInOrder` | FallsBackInOrder |
| | `PreviewsAreWhole` | OnePublication |
| | `DocumentFollowsHistory` | DocumentIsHistory |
| | `HistoryKept` | HistoryIsSound |
| | `ReleasesKept` | ReleasesAreKept |
| | `BookedOneByOne` | SerialLedger |
| | `OnePosition` | one open position, each operation booked once |
| | `LotsAddUp` | LedgerAgrees |
| `ResearchProofs` | `LedgerHasNoGap` | LedgerIsWhole |
| | `OneSignal` | SignalIsOne |
| | `StagesInOrder` | OutlookIsSound |
| | `ResearchTyping` | ResearchTypeOK |
| `ServicesProofs` | `ServicesTyping` | ServicesTypeOK |
| | `ServicesAreSound` | what `ServiceProofs` and the tasks have, of `ServicesSpec` |

### Assumptions

Most only give a bound its kind: the limits, sizes and lifetimes are natural
numbers, those that the code divides by, waits for or fills are positive, and
sets that are counted are finite. The others say what the code's configuration
does: `LockOfAssumption` and `DeferringAssumption` (a task has at most one
advisory lock; a task that leaves its end to another process is not retried),
`FaultyAssumption`, `SubsetsAssumption` and `NobodyAssumption` (names),
`ModelKeysAssumption` (the two kinds of model are different model keys),
`NoiseAssumption` (the deduplication key of a message is not its cooldown key:
they have different prefixes), `LLMAssumption` (the providers are the two of
`llm/client.py`), `TrendAssumption` (there is a chain to compute, so the list of
periods is not empty), `DailySyncAssumption` (the overlap that a comparison
needs is shorter than the refresh window, and the calendar has the three
sessions that are over when a behaviour begins), `PortfolioAssumption` (a
trade has a positive quantity, and times are numbers).

### Arguments

*Tasks.* None of the properties is inductive alone. `TaskInv` joins, task by
task, where the message and the child can be (`Flow`), what a retry knows of the
attempts before it (`RetryKnows`), what the row owes to the verdicts
(`RowTells`) and when its columns are set (`RowTimes`). Every action changes one
task, so a lemma reduces preservation to that task. `LockInv` relates the
sessions of different tasks: a body that needs a lock has one, and two sessions
never hold the same; only `EnterBody` can break it, and there `LockFree` is the
guard. `StatusNeverMovesBack` follows from the same invariant: a pending write
comes either before the row has run or after it is terminal, except that a retry
whose predecessor's verdict was lost announces a row that is still processing.

*Daily prediction.* `DailyInv` says of each execution which steps of the
dispatcher, the worker, the callbacks and the lease can go together (`Sound`)
and, unless something of it was lost, who still owes the parent an answer
(`Told`); `OneLivePerDate` relates two executions, and only the insert can
break it.

*Compositions.* A composed specification implies each of its components'
(`EachSide`, `EachJob`, `EachPart`, `EachService`): a step of one leaves the
others' variables alone. What is proved of the components therefore holds of it.

*Models.* `RelInv`: an accepted model has its files until its row is gone, and
neither a release nor what an execution froze names one that can still be
deleted; between the check of a file and the publication that uses it the
row's status is what keeps it. `TrainInv`: before the drafts are there nothing
has begun, and one process at a time treats them.

*Snapshots.* `TrendInv` has the types (one snapshot a day in a chain) and, per
run, that what it is about to store is of its current date (`RunIsSound`), that
nobody else works beside one that may answer (`WorksAlone`), that such a run has
made whole what lies behind it (`Underway`) and leaves it whole (`Answered`). The
lemma `OneDayMore` is the heart: to append the snapshot computed from the last
one of a whole chain leaves a whole chain; what comes before the run's first date
does not matter.

*Cache.* `CacheInv` counts: every commit is on its way to the `INCR`, has moved
the revision on, or is lost (`Counted`). A body read under the present revision
is therefore older than what has settled only if an invalidation was lost after
it was read, and its entries end a lifetime, or two, after that
(`EntryIsSound`, `RequestIsSound`).

*Leader.* `LeaderInv`: a key has one token, and it is that of every process that
is up and not overdue (`Holds`).

*Candles.* `CandleInv` follows the minutes through their places: what the
callback heard is closed or the current one (`HeardKept`), the queue and the
windows have one candle a minute (`Queue`, `Windows`), each write in flight
has read what still holds of Redis (`OpsAgree`), and every closed bar of the
window is in Redis, pending or in such a write (`WindowSaved`).

*Pool.* `PoolInv`: while the manager runs, every symbol has one load or answer of
its present generations exactly if it is warming (`Expects`), loads carry
generations that were given before (`LoadsAreNew`), the sets agree with each
other (`PoolAgrees`), and what the worker still has to do in the middle of a
reconciliation or reconnection agrees with them (`WorkerAgrees`).

*Services.* `CnInv`: the pool treats one symbol at a time, and the poll writes
only for states that were there when it started. `NoiseInv`: a key is held by
its sender for the reservation's length, and what closes a key is in the
history. `LLMInv`: behind the present provider lie exhausted ones, and the
answer kept back is the first text. `PreviewInv`: a viewer between its two
selects shares the lock, so its header is the stored one. `ConfirmInv`: an
evaluator's copy either is outdated by its revision or leads from the stored
document to what it will save (`Faithful`).

*Synchronisation.* `SyncInv` keeps what was asked (`Asks`) and what came back
(`AnswerRouted`), and that with whole answers all rows have one basis or a
replacement of them is under way (`WholeAnswers`). That the refresh window on
another basis is noticed needs numbers: it meets at least `ScaleMinDates` stored
rows, these are uniform, so their factors to the new ones are all alike, and
`ScaleChanged` sees it.

*Research.* `StrategyInv`: a market's runs hold its lock one at a time unless a
session was lost, and what a run has left begins where the ledger ended when it
read it (`RunSound`). `SignalInv`: one message, and, unless a lock was lost, one
check at work whose own results are what the row shows (`Alone`). `OutlookInv`:
the stage that the holder of the event's lock pays for is ahead of everything
that was saved with the lock (`Ahead`), the lock has one holder at most
(`EventHeld`), what was saved since the holder looked at the versions was saved
without the lock (`RoundSound`), until the earliest slot only a report freezes
the outlook (`FrozenFairly`), and the pointer is at the newest version unless one
was saved without the lock (`NewestPointed`). `StrategyInv` also knows
of each run that writes what it has read of the attempt (`WritesFairly`).
`ResearchInv` is their conjunction for the composed specification.

*Ledger.* `PfInv`: who is past its lock of the account is alone there
(`HoldsAccount`), a sale keeps the position it locked as it saw it
(`SaleIsLocked`), a buy the one it read without a lock, because nobody else
commits meanwhile (`BuyIsCurrent`), and a receipt is claimed by one transaction
(`Claimed`). With it each commit maps to the step of `Ledger` that
books its request and every other statement to a stutter. `LotsInv` adds the lots:
their ids differ (`Ided`, so that `Before` orders them totally), each position's
quantity is the sum over its lots, and what was bought is what is left and what
was sold. The model's sums are folds over finite sets. `Sum` gives them as a
function on the subsets; that it exists, that it does not depend on the order and
that it splits (`SumsExist`, `SumWithout`, `SumOfBoth`) is shown by least
counterexamples (`SmallestOne`), since the provers have no induction. The same
way `CutSum` shows that a sale takes what it asks for, lot by lot: true of all the
lots up to one in the order, and so of all. The ids
matter: without the tie-break of `_sell_order` two lots of one time would both
give the same quantity.

The invariants were checked by TLC on the instances of the runs before their
proofs; `TrendInv` on the 102,368 states of the trend part of `Jobs`, a variant of
`SyncInv` on 403,700. The candles were also explored beyond their run (four
minutes and three upsets: 3.9 million states; three minutes of one day, a window
and a queue of one, four upsets: 6.25 million).

### Only model-checked

- Liveness (`EveryMessageConcludes`, `LockReleased`, `ExecutionConcludes`,
  `InputReclaimed`, `TrainingConcludes`, `CatchesUp`, `EverySessionSettles`,
  `Settles`, `StopConcludes`): it needs ENABLED, which the provers do not have.

## 6. Not modelled

Numeric code (indicators, scores, regimes, portfolio weights, model training,
valuation), text (prompts, reports, notification wording), the providers' network
clients, request handling of the API and MCP, the frontend, the migrations and
deployment: their errors are not errors of order, and a model of them would
repeat the code. They are most of the repository's lines. ETF rotation, industry
strength, the reviews and the market analyses are batch jobs that fetch, compute
and store: what they have of concurrency is their task's life
(`TaskLifecycle`), the publication of their results (`Previews`) and the cache
in front of them (`RankingCache`). CRUD of stocks, users and the calendar is
single transactions.

In the modelled parts: task payloads, messages and log paths; the blocking mode
of the advisory lock, which no job uses; a task id that is reused; the order in
which maintenance walks its candidates (an `OSError` ends its loop early, the one
hazard without a property); the request for a single model and the deletion of a
run under training; quotes, trends and patterns of the stream; `refresh_quotes`,
the `reconnect` command (nothing sends it) and the change of the trading day; the
batching of symbols by the synchronisation; the loss of Redis's data under the
ranking cache.

## 7. Plan

1. Done: the modules of section 2 and their runs.
2. Done: every safety invariant and action property of the runs as a theorem,
   except those section 5 names, and the refinement of `Ledger` by `Portfolio`.
3. Done: the component theorems under the specifications that compose them.
4. Next: action properties of the modules that have none yet.
5. Models of the financial calendar's synchronisation and of the holdings review.
