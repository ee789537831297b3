# Verification of dg_bot

dg_bot trades coins on the Upbit exchange: a scheduler runs a trading cycle
once an hour, the cycle looks at the account, scans for a coin, asks a language
model for a decision and sends a market order. Scans rest on backtests of the same
breakout strategy. This directory holds TLA+ modules of the parts in which a
mistake costs money and a unit test does not reach it, the TLC configurations
that check them, and proofs checked by TLAPS. Paths below are relative to the
repository.

Contents

1. The system: inventory
2. The modules and how they correspond to the code
3. The runs: what is checked, with which bounds
4. What the models show of the code
5. The proofs
6. Fairness
7. What is not modelled, and why
8. Plan
9. Running it

## 1. The system: inventory

The program runs as several processes: the scheduler (`scheduler_main.py`,
`backend/app/core/scheduler.py`), the API (`backend/app/main.py`), the Telegram
bot (`telegram_bot.py`) and the command line (`main.py`). Each one has an event
loop and a `Container` (`src/container.py`) that builds the ports' adapters. They
share the PostgreSQL database and the exchange account; nothing else.

### Live trading

| Component | State | Operations | Correct means |
|---|---|---|---|
| **scheduler** `backend/app/core/scheduler.py` | APScheduler's job table (in memory), counters | `trading_job` (hourly), `trading_job_immediate` (after a start), `position_management_job` (every 15 min), snapshot and report jobs | jobs end, give back the lock, are counted once and record what they did |
| **trading lock** `postgres_lock_adapter.py`, `memory_lock_adapter.py` behind `LockPort` | advisory-lock count per database session; the session; `_held_locks` | `acquire`, `release` | one cycle at a time; the lock is free when nobody runs |
| **idempotency keys** `postgres_idempotency_adapter.py`, `memory_idempotency_adapter.py` | table or dictionary of keys with expiry | `check_key`, `mark_key`, `cleanup_expired` | one order per candle |
| **trading orchestrator** `trading_orchestrator.py` | none | `execute_trading_cycle`: check the key, run the pipeline, mark the key | the key guards the order, whatever fails in between |
| **trading pipeline** `src/src/trading/pipeline/` | the `PipelineContext` of one cycle | stages: hybrid risk check and scan, data collection, analysis, execution | the decision at the end still fits the account that was looked at in the beginning |
| **portfolio manager** `portfolio_manager.py` | daily and weekly result (in memory) | snapshot, trading mode, capital allocation, circuit breaker | at most 3 positions, at most 40% per coin, 10% in reserve, no trading after a loss of 10% |
| **risk manager** `src/src/risk/` | daily state in a JSON file (or a table); no program's pipeline contains the stage that builds it (section 7) | limits, breaker, frequency, stops, trailing stop | stops and targets hold; file and table agree |
| **trade use cases** `execute_trade.py`, `manage_position.py` | positions (in memory) | `execute_buy`, `execute_sell`, `update_position_from_trade`, queries | an accepted order is saved; trades add up |
| **analysis use cases** `analyze_market.py`, `analyze_breakout.py` | none | prompt, answer, validation, recording | failure means hold, or block |
| **exchange adapters** `legacy_bridge.py`, `upbit_adapter.py`, `upbit_client.py` | none (the account is at Upbit) | balances, prices, market orders, status | what is reported is what happened |
| **persistence adapters** `postgres_persistence_adapter.py`, `memory_adapter.py`, `decision_record_adapter.py` | tables or dictionaries of trades, orders, decisions, snapshots | save, query, update, clean up | tests in memory see what programs see in PostgreSQL |
| **telegram bot** `telegram_bot.py` | `is_running` flag | `/run`, reports | one run at a time, and always one more |
| **API** `backend/app/api/` | tables `bot_config`, `trades` | `create_trade`, `control_bot`, configuration | stored means stored |

### Decision making and simulation

| Component | State | Correct means |
|---|---|---|
| **domain entities** `domain/entities/` | immutable orders, trades, positions, signals | only executions are booked; cost and volume add up |
| **domain services** `domain/services/` | none | sizes, fees, exits and the breakout filter agree with each other |
| **value objects** `domain/value_objects/` | none | immutable, closed under their operations |
| **AI and validation adapters** | none | an unreadable answer holds |
| **scanner** `src/src/scanner/` | history files of coins | the selection respects exclusions, gates and the sector cap, on fresh and unbroken data |
| **execution adapters** `infrastructure/adapters/execution/` | none | a bar that touches stop and target fills at the stop, within the bar |
| **backtesting** `src/src/backtesting/` | simulated portfolio | the bar loop never trades on the future; cash and coins balance |
| **indicators and signals** `src/src/trading/` | none | readings, scores and warnings of one market agree |
| **notifications, metrics, market data** | counters, caches | input and output only |
| **command line, trading engine, container** | none | the runner orders what the answer says |

### How they interact, and what is hard about it

* A job is a coroutine. Between any two awaits other jobs of the process run,
  and other processes run all the time. A cycle has awaits of minutes (scan, AI)
  between reading the account or the key and acting on it.
* The jobs of one process share one database session for the advisory lock,
  and PostgreSQL grants a lock to the session that has it already.
* The exchange order, the row in `trades` and the key are written one after the
  other, without a transaction around them. A crash, the 600 s timeout, a failed
  statement or a lost answer can separate any two of them.
* `/run` and `RUN_IMMEDIATELY` start the same cycle beside the hourly one. The latter is on by
  default (settings.py:316, docker-compose.yml:93); ARCHITECTURE.md:1000 calls off the default.
* Limits are enforced against snapshots of the account. The loss limits, the frequency and the
  state file of the risk manager are enforced by no cycle.
* A scan downloads histories under three nested timeouts with retries, and goes on
  with whatever files there are.
* Most ports have two adapters; tests run on one, programs on the other.
* A backtest decides at the end of a bar from data that contains all later bars.

`PROJECT.json` lists every such hazard at its line, with the property that is
about it.

## 2. The modules and how they correspond to the code

| Module | Models | Uses |
|---|---|---|
| `ExclusiveLock` | what `LockPort` promises (abstract) | |
| `PostgresLockAdapter` | the advisory lock, its session and bookkeeping, as the jobs use it | implements `ExclusiveLock` for processes |
| `MemoryLockAdapter` | the in-memory lock | implements `ExclusiveLock`, one per name |
| `TradingCycle` | scheduler jobs, orchestrator, key, order, trade rows, restarts | extends `PostgresLockAdapter` |
| `EntryPipeline` | the pipeline on the account: snapshot, scan, order, prices | |
| `DataSync` | the history files and their sync | |
| `CoinSelection` | a scan: liquidity, sectors, sync, two backtest gates, ticker | extends `DataSync` |
| `BreakoutStrategy` | the rules of the breakout strategy, over whole histories | |
| `Backtest` | the bar loop with orders, portfolio, exits and statistics | extends `BreakoutStrategy` |
| `Sizing` | fee and risk calculators, exit prices | |
| `Positions` | orders, rows, trades and the position they add up to | extends `Sizing` |
| `Indicators` | the indicators of the live path | |
| `MarketRules` | signal scores, market summary, breakout filter, slippage, beta | extends `Indicators` |
| `OrderPlans` | fills through a book, split orders, stops, targets, trailing stop | extends `MarketRules` |
| `AiAnalysis` | from the answer of the AI to a decision | extends `MarketRules` |
| `Pipeline` | what an execution of the hybrid pipeline returns on the live path | extends `AiAnalysis` |
| `Ports` | the adapters that share a port, side by side | |
| `Services` | the programs: scheduler jobs, bot, runner, breakout analysis, API | extends `Pipeline`, `Ports`, `OrderPlans` |
| `MC*` | small inputs, and symmetry, for TLC | |
| `*Proofs` | theorems about the modules they are named for; those of `PostgresLockAdapter` are in `TradingCycleProofs`, which extends it, those of `DataSync` and `BreakoutStrategy` in `CoinSelectionProofs` and `BacktestProofs` | |

**PostgresLockAdapter.** `grants[p]` is the server's count for the session of
process `p`; `session[p]` the adapter's `_session` with the state of its
connection; `heldLocks[p]` whether the name is in `_held_locks`; `pc[p][j]` where
a job is. An await splits `acquire` into `Fire` (call, `_get_session`, send),
`Grant` or `Refuse` (the statement on the server) and `Enter` (the coroutine
resumes and adds the name); `release` into `CallRelease` or `SkipRelease` (the early
return for a name that is not in the set), `Unlock` and `Discard` (the `finally`).
Faults are actions: `Abort` (a statement fails and nobody rolls back),
`LoseConnection` (the server drops the grants, `is_active` stays true),
`Crash` (new process, new adapter).

**MemoryLockAdapter.** `_locks` is a set of names under an `asyncio.Lock`, so
`Acquire` and `Release` are atomic; the resumption of the job is a step of its own.

**TradingCycle.** Adds to each job the stage of its body (`check`, `pipeline`,
`save`, `mark`, `record`), the candle it is about, and four durable counters per
candle: orders the exchange accepted, rows written by the use case, rows written
by `trading_job`, and the marked keys. `CheckKey`, `PlaceOrder`, `SaveTrade`,
`MarkKey` and `RecordTrade` are the awaits of `execute_trading_cycle` and of
`trading_job` after it, each with its failures; `NoTrade` covers every exit of the
pipeline without an order; `Timeout` cancels at any of them; `Restart` is a crash and
a new start; `ManualRun` is the order of a cycle started with `/run`, which has
a lock and keys of its own in memory and so is invisible until it orders. `StartupJobs`
holds the job of `RUN_IMMEDIATELY`: with it a process has two trading jobs, which overlap through
the re-entrant lock. `Width` is the number of trading jobs of a process, `Saving` are the orders
whose row is about to be written.

**EntryPipeline.** `cash`, `value` and `cost` are the account. `Assess` is the
snapshot with the mode and allocation decided from it; `Scan` the choice of the coin (or
the fallback ticker, if the scan raises); `ReadCash` the 95% rule of the
execution stage; `Buy` and `Sell` the accepted orders; `Stop` every end without
an order; `Rise` and `Fall` the market. Overlapping cycles share nothing but the
account. Holdings that the exchange reports without a purchase price are not
positions for the code and are left out; the account starts within the limit of
positions.

**Live path and general path.** Wired as the scheduler and the bot wire it
(`Container.create_from_legacy`), the analysis gets data frames, which its request
refuses, and every analysis holds (section 4). `Pipeline` and `Services` model this live
path as it is. `TradingCycle` and `EntryPipeline` let the analysis answer anything,
buy included: they over-approximate the live path, and cover what the order, the key and
the account do once lists are handed over, as the tests and `TradingRunner` do.

**DataSync, CoinSelection.** A sync of a coin reads its file, fetches pages newest
first with retries and timeouts, merges, prunes and writes; `MaxConcurrent` coins
at a time. A scan goes through its stages on the coins that the snapshot does
not hold and that are listed already; `Enter` takes the first of the ranking. After
`ScanTimeout` the result of the scan is dropped and the fallback ticker taken (`ScanLate`), as it
is when the scan raises (`ScanFails`): both are `TakeFallback`. The thread of the scan goes on
until its syncs are done, so files are written even then. Coins are sold between scans, and the
clock moves while one runs. Scores are those of the code in tenths, metrics in hundredths.

**BreakoutStrategy, Backtest.** Operators take the whole history and the number of
the bar, because `prepare_indicators` computes all of it once. `CheckExit`, `FillPending`,
`Decide` and `Value` are the phases of one turn of the loop; `Analyze` is the
statistics. The four modes are intrabar exits or not, fill at the next open or at the close; `Capitals` are
what a run may start with, and the small one of the instance makes the portfolio refuse orders.
Band width and ADX are data of a bar; averages, true range, OBV and Donchian are computed.

**Sizing, Positions.** Any method of an order may be called at any time its arguments exist,
as the entities promise no caller. An order is a frozen value: `Fill`, `Cancel` and `Fail` return a new
one and leave the old one as it was, so `held`, the values that the caller has, may hold several of one
id, and an old pending one can be filled again; `Fill` takes any price and volume. The caller forgets
none until the process ends (`MaxHeld` bounds how many it makes). Rows lie in the database; `Reload`
returns the value of a row, however old; positions are lost with the process. Calculators are actions
that put an answer beside its arguments. Money is rounded as the code rounds it.

**Indicators, MarketRules, OrderPlans.** A reading is the set of its value, so that NaN is
`{}` and a comparison with it is an empty choice. Every period is a parameter. Scores,
divergences, levels, warnings, the summary and the filter are operators over bars; sums are
`SumFunction` and the sort of a batch is the rank of each of its members (`Before`).

**AiAnalysis, Pipeline.** An answer is its form (JSON, text, error), its decision, its
confidence and its key words; a response to a breakout prompt is a record of the same kind. A
stage's result is its action and the response it would lead to; the first stage that does
not continue makes the response, the orchestrator adds the key.

**Ports.** A store is what a sequence of calls leaves, folded by `OnMemory` and `OnPostgres`;
`OnFile` and `OnRepository` are the two risk ledgers. Entities carry local time, PostgreSQL's
own stamps and cutoffs are in UTC, `Offset` behind. Decisions are numbered as they are made, which is
the order in which both stores list them.

**Services.** A behaviour is one of the programs, which share no memory. The scheduler's jobs
go through lock, cycle, report, count and release, and may be cut by a shutdown. A cycle that is
cancelled, by its timeout or the shutdown, may have marked its candle already (`MarkedYet`): the mark commits
before its await returns. The bot
takes messages one by one with replies that fail; the runner reads its position, asks and
orders; the breakout analysis records its decision; the API's calls read and write in two steps. The
program `rules` is one step that presents a market to the operators above; `FilterAgrees`, `BooksAgree`,
`BarsAgree`, `AdaptersAgree` and `ExitsHold` are what holds of them for every market. What can be judged is said by
`Judged`, kind by kind (readings, summaries, bars, books, calls, days, accounts, prices): a missing
reading is allowed, bars lie between their low and their high at prices above zero, a book is sorted,
a trade that is saved again is the same trade. `MarketsAssumption` asks it of `Markets`.

Data is abstracted: a coin is a model value, money an integer, the model's answer a
record of what the code looks at; messages and formatting are absent. Each module has *wrong
forms* beside its definitions: variants with a plausible slip (a dropped guard, a lost
update). `PROJECT.json` says which variant breaks which property; every checked property
has one, so none of them holds by the shape of the model alone. The state machines of sections 3
and 5 have a type invariant each; most of them are proved instead of run.

## 3. The runs: what is checked, with which bounds

| Run | Instance | Distinct states | Properties |
|---|---|---|---|
| `lock_faults` | 2 processes, 2 jobs, 2 faults of any kind | 86,483 | `GrantsCoverHolders`, `CrossProcessExclusion`, `HeldHasOwner`, `ImplementsPort` (refinement) |
| `lock_leak` | 1 process, 2 jobs, no fault | | `IdleHoldsNothing`, violated (section 4) |
| `memory_lock` | 3 jobs, 2 names | 1,180 | `LocksMatchOwners`, `ImplementsPort` (refinement) |
| `cycle_faults` | 2 processes with both trading jobs, 1 candle, 2 faults of six kinds, 1 manual run, symmetric | 2,429,044 | `DuplicatesCostFaults`, `OrdersRecorded`, `NoPhantomTrades` |
| `cycle_jobs` | 1 process, trading (no startup job) and position job, 2 candles, 1 fault | 14,578 | `JobsEnd` (liveness) |
| `entry_cycles` | 2 cycles, 4 coins, limit 2, 1 price move, 1 failed read, 1 sale | 3,679,868 | `PositionsBounded`, `CapitalCommittedOnce` |
| `scan_select` | 3 coins in 2 sectors, 2 scans over a midnight, 1 fault | 237,632 | `HistoryUnbroken`, `ChosenPassedAllGates`, `ChosenOnFreshData`, `HeldBoughtByFallback`, `ScanEnds` (liveness) |
| `backtest_bars` | every history of 5 bars of 6 kinds, 4 modes, 2 capitals | 1,866,240 | `CashAccounted`, `ExecutionHonest`, `NoLookAhead`, `TrackingInSync`, `ReportConsistent` |
| `order_positions` | 2 orders, 5 values of them, 2 prices, 2 volumes, 3 trades, 1 restart or clean-up; calculators | 2,241,856 | `AvgWithinPrices`, `PositionAddsUp`, `BookedWereExecuted`, `BudgetExceededByOne`, `CalculatorsAgree` |
| `service_cycle` | each program with 2 disturbances; all markets of `MCServices` | 633,420 | `JobsAccounted`, `RunnerOrdersJustified`, `BreakoutRecorded`, `CreatedOnce`, `FilterAgrees`, `BooksAgree`, `BarsAgree`, `AdaptersAgree`, `ExitsHold`, `MessagesHandled` (liveness) |
| `control_lost` | the API, two control calls, no disturbance | | `ControlObeyed`, violated (section 4) |
| `ai_silent` | one trading job, no disturbance | | `DecisionRowsAnswered`, violated (section 4) |

What they say:

* **CrossProcessExclusion.** Jobs of two processes run together only if one of them
  lost its connection, of which it is never told.
* **GrantsCoverHolders, HeldHasOwner.** Jobs of one process share a session and a
  set that cannot count. No order of their releases takes away another one's grant,
  and no path leaves the name behind. The reverse fails: `lock_leak`.
* **ImplementsPort.** To the processes the adapters are the exclusive lock of `LockPort`: a process has it
  from its first job that gets it to the last one that gives it back, or to its crash or
  the loss of its connection, and nobody else gets it meanwhile. The jobs overlap on
  one session, and statements fail. The in-memory lock is one for every name.
* **DuplicatesCostFaults.** Orders on a candle are at most `Width * (1 + faults)` + manual runs:
  the jobs of one process pass lock and key together, no other order comes for free, and no
  fault costs more than one order of each job. With one fault the bound is reached. The run keeps
  to one candle, as every order, row and key counts for its own candle; the proof has any number.
* **OrdersRecorded, NoPhantomTrades.** Accepted orders without a row are at most
  `Width * faults` + manual runs, and a crash reaches that; every row stands for an order.
* **JobsEnd.** Every job ends, also when the other one of its process holds the lock too.
* **PositionsBounded.** `MAX_POSITIONS` is checked against a snapshot only; the
  excess is at most the number of other overlapping cycles, failed reads and coins
  whose price rose over the minimum.
* **CapitalCommittedOnce.** The 95% order leaves less than the 10% reserve, so no
  later cycle finds capital until a sale, a price move or a failed read; and at
  such a change each cycle in flight can order once. From a cash account the bot holds
  one coin, not three, unless prices fall.
* **HistoryUnbroken, ChosenOnFreshData.** Histories have no hole unless an error tore one;
  a choice rests on data of the day unless a fault of this scan concerned the coin.
* **ChosenPassedAllGates, HeldBoughtByFallback.** Both gates, the sector cap and the exclusions
  hold for what is chosen; a held coin is taken only as the fallback of a failed scan.
* **ScanEnds.** No combination of timeouts, retries and errors keeps a scan from ending.
* **CashAccounted, ExecutionHonest, NoLookAhead, TrackingInSync, ReportConsistent.** The
  simulated money adds up; fills lie within their bars and no position outlives its
  stop; what is decided from the whole history is what its beginning would have decided; the
  strategy tracks a position exactly while there is one; the statistics agree with the trades.
* **AvgWithinPrices, PositionAddsUp.** Whatever is traded in whatever order, the average entry
  price stays within the prices paid, and the volume is the largest balance of the last trades.
* **BookedWereExecuted.** Whichever of the values of an order is filled, failed, saved or booked,
  a trade is an execution of that order; no value read back from a row makes one. That an order is
  filled once is not promised by the entities, nor a property here.
* **BudgetExceededByOne, CalculatorsAgree.** Rounding costs one KRW at most, and sizes, exits
  and their checks agree with each other to one KRW.
* **JobsAccounted.** Every run of a job is counted once unless the shutdown cut it; a marked
  candle belongs to a success or to a run that was cancelled in its cycle, which then is counted
  as a failure and not tried again; nothing stays locked.
* **MessagesHandled.** Every message to the bot is dealt with and the flag is reset on every exit.
* **CreatedOnce.** Of two requests to create one trade one at most is told that it did, its row is
  the one kept, and a conflict is reported only when there is a row.
* **RunnerOrdersJustified, BreakoutRecorded.** Nothing is ordered that no answer said; the last
  decision on record is the answer given, and nothing overbought is allowed.
* **FilterAgrees, BooksAgree, BarsAgree, AdaptersAgree, ExitsHold.** For every market of the instance:
  what a summary calls favourable passes the filter, and batches keep the best; slippage grows with the
  order and splitting never costs more; indicators fit each other and their votes do not contradict each
  other; stores, ledgers and exchange adapters differ only as said in `StoresAgree`, `LedgersAgree` and
  `ExchangesAgree`; a trailing stop never falls, and exits lie within their bar. The differences that the
  definitions name are known defects or choices of the code (section 4): these properties catch any other.

**Why the bounds suffice.** Two processes are needed for exclusion, two jobs of one
process for re-entrance. Two faults let a fault hit the recovery from another one. Two
candles, in `cycle_jobs`, show a cycle that is about one and ends in the other; cycles of different
candles share no key. Two overlapping cycles exceed a limit by one, and the
limit of 2 with 4 coins leaves room for an excess of two. A factor of 5 moves a
coin across the minimum value in both directions. The account (8,000 units of
2,500 KRW) is large enough for three orders of 95% in a row, which is what a
wrong allocation would allow. `MaxGrants` stops jobs from firing when grants have
leaked that often; a leak of 2 already is permanent.

Two scans let the
second start from what the first left; a file keeps one day more than a window, one coin is
younger than the window, and a page holds one candle, so that every sync fetches several. Two calm bars and five of six kinds
contain a breakout, a gap down, a bar that touches stop and target, and a fake breakout in every order. Three trades open, add
to, reduce and close a position. Markets of eight bars at three levels fill every
window (at most 6 there) and still leave a bar before it, and one bar of trend (`TrendBars`) is enough for a flash crash, a fall from 30 to 10; stores see every sequence of five or six
calls, in which a row can be written, age, be written again and be cleaned up.
Windows and periods are parameters, so nothing in a rule depends on their size except which bars it sees.
The theorems of section 5 hold for all values of the constants.

`CHECK_DEADLOCK FALSE` appears where a model ends because hours, moves, bars or
messages are bounded; the lock runs check for deadlock.

## 4. What the models show of the code

`ai_silent` checks what `docs/guide/SCHEDULER_GUIDE.md` says of the job, that an AI analyses
and decides. On the live path the charts are pandas data frames, `AnalysisRequest` refuses
them with a TypeError, the use case turns every error into a hold, and so each
decision that is stored for the AI is one that no AI was asked for.

`lock_leak` checks the comment at both releases of the lock (scheduler.py:577 and :679, "release the
lock, must run"). The two jobs of a process overlap without any fault: the session gets two grants, the first
release discards the name, the second returns at once, and the session keeps a grant for good. All other
processes are locked out from then on.

`control_lost` checks what the docstring of `control_bot` (bot_control.py:83, "stop: stops the bot") says
and a test asserts of a mock (test_bot_control.py:111). `is_running` is assigned inside the JSON value of
the row, which the session does not notice, so the commit writes nothing: after a start and a stop the
stored state is that of the start.

The following disagreements between documents and code are stated as definitions beside the
properties that hold. They are not among the runs; adding one of them as an invariant
(or property) to the configuration named shows its counterexample.

| Definition | Add to | What happens |
|---|---|---|
| `RunsAgainAfterError` | `lock_faults` (temporal) | after a failed statement or lost connection the adapter keeps its session and every later `acquire` answers False: no job runs until a restart |
| `OneOrderPerCandle` | `cycle_faults` | the startup job and the hourly job of one process pass the lock and the key together, without any fault; without a startup job one fault repeats an order |
| `OneRowPerOrder` | `cycle_faults` | one order gives two rows in `trades`, under two ids |
| `ShareKept` | `entry_cycles` | one coin gets 95% of the capital; the documented 40% and 10% never reach the order |
| `BreakerKept` | `entry_cycles` | the portfolio breaker forgets every loss, because its counters are built anew in each cycle |
| `NewCoinDownloaded` | `scan_select` | documented is that a scan loads the history of a listed coin when it has none; for a coin younger than the window the last page is empty after the filter, reading its first row raises, and what was downloaded is dropped |
| `BudgetKept` | `order_positions` | the gross amount is rounded half up, not down, and a buy with its fee exceeds the budget by one KRW |

Also visible in the definitions: a failed key query answers "not marked" (`CheckKey`; ARCHITECTURE.md
speaks of fail-close); the row of a decision names the configured coin and not the chosen one
(`DecisionRow`); a market buy has no row in
PostgreSQL and a key marked again after it expired stays expired (`StoresAgree`); the risk
table's week has one day more than the file's (`LedgersAgree`); beta mixes a sample
covariance with a population variance (`IndicatorsAgree`).

SCHEDULER_GUIDE.md:46 lists stops, a circuit breaker and a limit of the frequency as integrated into the
job. The limits of `RiskManager` are asked by `RiskCheckStage` alone, and no pipeline that a program builds
contains it: the hybrid stage stands in its place (trading_pipeline.py:289 and :371), and
`context.risk_manager` stays None. What is left is the breaker of the portfolio manager, which forgets
(`BreakerKept`).

## 5. The proofs

All theorems are checked by TLAPS to the last leaf. They assume only the named
`ASSUME`s of the modules (finite sets of jobs, processes, cycles and coins; bounds, prices and
rates are natural numbers; a bar's prices lie between its low and its high; the crash is looked for within an
RSI period, 5 of 14 bars, and the period within the bars a crash needs, 25), except where said.
Every safety invariant and action property of section 3 is a theorem.

| Module | Theorem | Statement |
|---|---|---|
| `TradingCycleProofs` | `TypeCorrect`, `GrantsCoverHoldersHolds`, `CrossProcessExclusionHolds`, `HeldHasOwnerHolds` | the lock: `Spec => []...` for each |
| | `PortImplemented` | `Spec => Port!Spec`, for any jobs per process and every kind of fault |
| | `CycleTypeCorrect`, `CycleExclusionHolds` | the lock still excludes under the cycles that run in it |
| | `NoPhantomTradesHolds`, `OrdersRecordedHolds`, `DuplicatesCostFaultsHolds` | rows and orders of a candle, for any number of trading jobs, overlapping or not |
| `MemoryLockProofs` | `TypeCorrect`, `LocksMatchOwnersHolds`, `PortImplemented` | the in-memory adapter implements the port for every name |
| `EntryPipelineProofs` | `TypeCorrect`, `PositionsBoundedHolds`, `CapitalCommittedOnceHolds` | positions exceed the limit by the overlap only, the capital is committed once |
| `CoinSelectionProofs` | `SelectionTypeCorrect`, `HistoryUnbrokenHolds`, `ChosenPassedAllGatesHolds`, `ChosenOnFreshDataHolds`, `HeldBoughtByFallbackHolds` | the history files and the scan that rests on them |
| `BacktestProofs` | `BacktestTypeCorrect`, `CashAccountedHolds`, `ExecutionHonestHolds`, `TrackingInSyncHolds`, `NoLookAheadHolds`, `ReportConsistentHolds` | the bar loop and its report, for every history |
| `PositionsProofs` | `TypeCorrect`, `AvgWithinPricesHolds`, `BookedWereExecutedHolds`, `PositionAddsUpHolds` | orders, trades and the position they add up to |
| | `BudgetExceededByOneHolds`, `CalculatorsAgreeHolds` | the rounding of the calculators, for all rates and amounts |
| `ServicesProofs` | `JobsAccountedHolds`, `RunnerOrdersJustifiedHolds`, `BreakoutRecordedHolds`, `CreatedOnceHolds` | one program each |
| | `FilterAgreesHolds`, `BooksAgreeHolds`, `BarsAgreeHolds`, `AdaptersAgreeHolds`, `ExitsHoldHolds` | the rules, for all the markets of `Judged`, whatever their size |
| | `SummaryConsistentAlways`, `BatchOrderedAlways`, `IndicatorsAgreeAlways`, `VotesAgreeAlways` | its parts about readings, batches and bars |
| | `SlippageGrowsAlways`, `PlansAgreeAlways`, `TrailingHoldsAlways`, `ExitsAgreeAlways` | its parts about books, order plans, stops and targets |
| | `StoresAgreeAlways`, `LedgersAgreeAlways`, `ExchangesAgreeAlways` | its parts about the adapters that share a port |

**Lock.** `CrossProcessExclusion` is about jobs and says nothing about grants, so it is
not inductive. The invariant is `IInv == TypeOK /\ OneSession /\
GrantsCoverHolders`: a running job of a live session is a holder, so its session
has a positive count; two sessions with positive counts are one. `OneSession`, a lemma here,
is what PostgreSQL guarantees; `GrantsCoverHolders` because `Grant` adds one holder
and one grant, `Unlock` takes one of each, and a crash or loss takes away the
session. The cardinalities come from the library's finite-set theorems.
`HeldHasOwner` is inductive with the types: the name is added by a job that enters
`running`, and it leaves the owner states only by a step that discards the name or has seen it gone.

**Refinement.** The holders of the abstract lock are the processes that rely on it (`Relying`): a live
connection and a job between acquire and release. A grant to a job of a process that relies already
stutters; to another process it is `Acquire` (`GrantAcquires`), since all others that rely have a grant
by `GrantsCoverHolders`, which `OneSession` excludes (`RelyingElsewhere`). The last unlock, also one
that fails, a crash and a lost connection are `Release`; every other step leaves the set as it was or
lets a process out of it (`OthersRelease`).

**Cycle.** A step of `TradingCycle` is a step of the lock or leaves it alone (`LockKept`), so the
lock's invariant carries over. `StageOfRunning` ties the stage of a body to the state of its job:
only a job that has the lock is in its body. `RowsBacked` counts the rows that a cycle is about to
write as written already: `saved + |Saving| <= orders` and `posted + |Recording| <= saved`; every
await moves one cycle from one set to the next, and every failure only takes one out.
`OrdersRecorded` is inductive beside it, since a crash loses the rows of the trading jobs of one
process, which are `Width` at most (`CrashLoses`), and every other fault one row.
For `DuplicatesCostFaults` the cycles that may still order have to be counted too. `Owed(h)` are the
jobs that passed the check of candle h, or that have, or are before their check under, a lock that
is lost; `Covering(h)` are those under a lock that still holds, between the check and the mark.
`Paid(h)` says that orders and debts of the candle are within `Allowed(h)`, the faults' budget
`Width * faults` and the manual runs, where `Allowed(h)` is `Width` once the key is marked and
`|Covering(h)|` before. A check that passes owes one more and covers it; an order pays a debt; a
mark replaces the covering jobs, which are of one process (`CoveringOfOne`, from the lock's
invariant), by `Width`. A crash or a lost connection moves the jobs of one process, a
failed statement or a timeout one job, out of the cover or into debt (`PaidByBody`,
`PaidByRestart`, `PaidByDisconnect`). Setting `Width` to 1, the setting that ARCHITECTURE.md:1000
recommends, gives 1 + faults + manual runs.
The proofs take `Processes` to be finite, which the check of a candle's sums needs.

**Memory lock.** Which job owns a name is not in the state of the adapter; the
invariant `LocksMatchOwners` links the set to the jobs between acquire and release, from
which each step refines.

**Positions of the account.** A cycle that has seen room may use it at any later time, while others
go on. The invariant `RoomPromised` therefore counts a cycle in flight as a position
already: `|Positions| + |InFlight| <= MaxPositions + (|Cycles| - 1) + rises + faults`.
An honest snapshot finds fewer than `MaxPositions` positions, and no more than
`|Cycles|` cycles are in flight; a failed read raises both sides by one; an order
turns a cycle in flight into at most one position.

**Capital.** The capital is *spent* when what is left over the reserve is less than a minimum
position. `Committed` has two cases. If it is spent, no cycle that sees the whole account starts,
and `buys + |InFlight| <= |Cycles| * (1 + changes)`. Otherwise `buys + |Outdated| <= |Cycles| *
changes`, where an *outdated* order is one of an amount that would not spend the capital any more,
because something has changed since the amount was read. An order that is not outdated
spends the capital (`ReadSpends`: 95% of the cash and less than the capital of it in reserve), one
that is outdated is paid for by the change that outdated it, and at a change all cycles in flight
may become outdated. `BuyLeaves` is the arithmetic: cash becomes a coin, which either counts as
a position or was worth less than one.

**Scan.** The files are the hard part. `FileSound` says that a file no error has torn is an
interval of days that goes back to the first day of the coin or to before the scan, so that pruning
and a gap can never meet inside it; `StartFits` that a sync asks for the day after the last of the
file, or for the whole window; `RowsFit` that the pages that have come in are an interval from the
day of the scan down to the next page. A merge then joins two intervals that touch, and a file that
a sync has finished without an error is `Current`. That needs days of more than one tick and a window
of more than one day, as in the code. The choice is about sequences: taking the first n, filtering
and ranking draw from a sequence without repeating an element (`DrawnFrom`), so what holds of all of
the coins of a scan, being outside `exclude` and one per sector, holds of the chosen. A late scan
chooses nothing, so freshness is judged at the scan's own day. `HeldBoughtByFallback` follows from `Shape`.

**Backtest.** The invariant is a part for each thing the loop keeps: `Account` the money, `Booked`
the orders, which alternate so that their number tells whether there is a position, `Waiting` the
order for the next open, `Tracking` the strategy's copy of the position, `Stopping` that every bar
looked at so far stayed above the stop. `Bought` and `Sold` say what an order does to the books, and
each phase is proved from them. `NoLookAhead` needs no invariant but the types: `BuySignalLocal`
follows the indicators down to the bars they read, all before the one decided on.
`ReportConsistent` is about folds over whole sequences of trades. A fold takes the indices of its
sequence from the greatest down, which is a recursion over sets (`FoldExists`); on the prefixes of
the sequence it goes up by one (`FoldRuns`), so that what two folds have to do with each other is
shown prefix by prefix (`Climb`): won and lost trades add up to the total (`TradesAddUp`), no streak
is longer than the list of its trades (`StreakBelow`), and both ways to count streaks agree
(`StreaksAgree`). `Reckoned` says that the profit is the sum of the closed trades at every step,
`Ended` that the curve of a run that ends without a position ends with its cash.

**Orders and positions.** `Sound` keeps the average, as a fraction, between the lowest and
highest price; `MeanAbove` and `MeanBelow` are the two halves for a weighted mean. `ExecutionsOK`
says that a value which shows an execution, and every trade, shows one that was given to `Fill` of that id:
the methods that return a value without asking its status return it without an execution, and so does a
reload. `PositionAddsUp` compares the
volume with the balances of all ends of the history: a trade adds to each of them (`Balances`),
and `Settles` says that the volume is the largest of them and never below zero, also when a sale
of more than there is closes the position. For the budget,
`HalfUpBound` bounds the rounding and `BuyAmountWithin` puts two roundings together; `HalfUpNear`
does the same for sales, sizes and exit prices.

**Programs.** Each part of `ServicesProofs` has the invariant of one program; the steps of the
others leave its variable alone. `JobsInv` balances the runs of a job against what was counted, cut or
is still to be counted, and keeps a marked candle with a job that succeeded or was cancelled in its cycle
(`Backed`); `ApiInv` keeps the types of the requests beside `CreatedOnce`; `RunnerInv` keeps the order with
the answer it came from and with the position that was read; `CallInv` says which rows a failed
recording has left and that the one at the end is the answer. `JobsAccounted` needs that the job names
are those of the scheduler, the breakout analysis that a request has some RSI, and the AI that its
reply has one of the three forms of `AiAnalysis`: the assumptions of `Services`.

**Rules.** The five properties of the rules need no invariant but that the judged market stays (`MarketStays`); its
parts are lemmas about the operators, one theorem each, for every period, limit and market.

* *Readings and batches.* Filter and summary write their conditions apart; `SummaryConsistentAlways` says
  that they fit, down to the rounding of the ATR, which may not lift four percent over four
  (`AtrPercentBelow`), and that the worst favourable market has 65 points. `Before` is a strict order, so
  the ranks of what passes are a bijection onto 0 .. n - 1 and each place of the batch has one summary;
  `BatchOrderedAlways` follows.
* *Bars.* The lemmas say of each indicator what its sums allow. %K and %R divide the two parts of one
  range, so they add up to a hundred or, cut off, to a hundredth less (`FloorSum`). The RSI compares the
  gains with the losses of a period, whose difference is the change of the price over it
  (a running sum, `SumRuns`). In a flash crash the fall exceeds a share of the summed true ranges, and the range of
  the period is within that sum (`RangeWithinSum`, `CrashIsDeep`); above the Keltner channel the price is above
  the mean that the Bollinger bands lie about (`KeltnerIsHigh`). Each rule then gives at most what its branch says, and
  `FourRules` adds the points up.
* *Books.* A purchase ends on the first level at which the worth of the book reaches its amount (`Spent`). The coins
  from a level on cost its price at least (`Dearer`), so that the average price grows with the amount; the proof
  compares products, and divides once at the end (`SlipGrows`). An order in k parts costs what it costs whole in a
  book with k times the coins on every level (`ScaledIs`), and more coins at the same prices cost no more
  (`DeeperFills`): `PlansAgreeAlways` follows from the two.
* *Stores and ledgers.* What a sequence of calls leaves is climbed call by call. `StoresMatch` relates the
  two stores after the first k calls: the same clock and count of decisions (`Together`); every trade in
  memory is in the table, and each of the table's was saved by a call (`TradesMatch`); snapshots and
  decisions are the same but for `Offset` and a confidence of zero (`SnapshotsMatch`, `DecisionsMatch`); an
  order saved once, with a volume, and given only known statuses is in both with one status
  (`OrdersMatch`); a key alive in the table lives at least as long in memory, and one that is marked once
  the other way around too (`KeysMatch`). Each clause is kept by each call, and `StoresAgree` follows.
  For the ledgers `Matched` says that both have the same rows of the last `Week` days and the day before.
* *Prices.* `TrailingHoldsAlways` climbs along the prices with `Trailed`: the highest so far is one of the prices
  and none is higher, and the stop follows from it. Prices above zero are needed, since a stop of zero never sells.

The attempt to prove `VotesAgree` showed that its last clause is false at an RSI of 0: `if rsi:` in
`src/src/trading/signal_analyzer.py:169` takes it for a missing one, so that after an unbroken fall, the most
oversold there is, the RSI gives no point to buying. The clause excludes that reading, and says so.

**Induction over data.** The library's induction theorems cannot be instantiated by the installed
provers. Where a proof needs a fact about a sum or a balance for every set or sequence, the facts
follow from a least counterexample: the well-founded order of the naturals gives the smallest size at which
one fails (`Least`), and the recursion refutes it. So do the sums of the account and of the
indicators (`SumExists`, `SumRec`, `SumTake`) and the balances of a position (`BalancesExist`). Along
a sequence `Climb` does the same; the functions it climbs are shown to exist one element at a time
(`LedgerRunExists`) and to be the ones the model defines.

**Only model-checked.** `JobsEnd`, `ScanEnds`, `MessagesHandled` (liveness is beyond TLAPS here);
`IdleHoldsNothing`, `ControlObeyed` and `DecisionRowsAnswered`, which are violated. No safety invariant of a passing run is only model-checked.

## 6. Fairness

`Fairness` (lock), which only `RunsAgainAfterError` uses, is weak fairness of firing a job and of each job's step: cron
triggers keep coming (`misfire_grace_time` and `coalesce` drop single runs only),
statements are answered or raise, and a job's body ends because `trading_job` runs
under `wait_for(600)` and `position_management_job` is one pass. `CycleFairness`
asks less: only that a job that has started goes on; triggers need not come and
processes need not be restarted. `Progress` (scan) is weak fairness of the event loop that
runs the syncs, and of the backtest that follows: each await of it is bounded by `API_TIMEOUT_SECONDS` or
`SYNC_TIMEOUT_SECONDS`, but for one: `requests.get` of the ticker (liquidity_scanner.py:181) has no
timeout, and the model takes it to return or raise. In `Services` only the bot is fair: it handles its updates, and the calls it
makes return or raise. No fault, restart, price move, trigger of a user or order is fair.
The safety runs do not depend on it.

## 7. What is not modelled, and why

* Prompts, notifications, reports, metrics: output; failures are logged only.
* Market data: reading of candles; its failures are choices of the data stage and of the sync.
* Floating point: indicators and statistics are computed in whole hundredths, cut off
  towards zero; differences below that are not seen. Width and ADX of a backtest bar are data.
* Portfolio correlations and `assess_portfolio_risk`, the AI strategy and the data provider of
  the backtests, parts of the research report: functions that no decision of the live path reads.
* The snapshot and report jobs: they read and notify.
* The limits, circuit breaker, trade frequency, safe mode and state file of the risk manager, and
  `RiskCheckStage`, which alone builds a manager (risk_check_stage.py:62): no pipeline of any program
  contains that stage, so no cycle reads or writes the file. Modelled are its stops, targets and
  trailing stop (`OrderPlans`) and the file beside the table as ledgers (`Ports`).
* Code without a caller: `is_locked`, `release_all`, `close` and blocking acquires of the lock;
  the exits of the hybrid stage, `record_trade_result`, `CoinScanStage`, `TradingEngine`,
  `cleanup_old_data`, the resets and the Kelly size of the risk manager, `link_pnl`.
* Wiring: the container and the argument parsing of `main.py`.
* Blocking of the event loop by the synchronous scan: below the steps of the models.
* What a recursive definition computes for every input, ENABLED and liveness: not
  provable with the installed provers; TLC checks bounded instances.

`PROJECT.json` gives the status of every component.

## 8. Plan

Done: the lock and its port, the cycle and its key, the account, the scan, the
backtests, orders and positions, the calculators, the rules of a market, the AI's answers, the
ports in memory and in PostgreSQL, and the programs around them (sections 2 to 5).

| Step | Modules | Properties |
|---|---|---|
| 1 | `Sizing` lemmas | the same bounds for the sizes a live order would get, once a caller exists |
| 2 | the AI strategy and the data provider of the backtests | the provider never shows a candle before its close |

`EntryPipeline` and `TradingCycle` stay separate: the first is about money over
many cycles, the second about one order over many crashes; the number of
cycles that the second lets overlap is the constant `Cycles` of the first.
Runs stay few, one per question: programs that share no memory share `service_cycle`, and so do
the pure rules.

## 9. Running it

    tlc -workers 2 -config lock_faults.cfg PostgresLockAdapter
    tlc -workers 2 -config cycle_faults.cfg MCTradingCycle
    tlc -workers 2 -config entry_cycles.cfg EntryPipeline
    tlc -workers 2 -config scan_select.cfg MCCoinSelection
    tlc -workers 2 -config backtest_bars.cfg MCBacktest
    tlc -workers 2 -config order_positions.cfg MCPositions
    tlc -workers 2 -config service_cycle.cfg MCServices
    tlapm TradingCycleProofs.tla

`PROJECT.json` lists the module and configuration of every run. The longest run takes about two
minutes on two cores.
