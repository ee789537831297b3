---------------------------- MODULE TradingCycle ----------------------------
(***************************************************************************)
(* trading_job and position_management_job, run by the scheduler under the *)
(* lock of PostgresLockAdapter: the job body of trading_job is             *)
(* TradingOrchestrator.execute_trading_cycle under wait_for, which checks  *)
(* the idempotency key of the current candle, runs the hybrid pipeline     *)
(* (which may place one market order and save the trade) and marks the key *)
(* if the pipeline reports success; afterwards the job records the trade   *)
(* through the trades API.                                                 *)
(*                                                                         *)
(* Keys, trades and orders survive a crash; everything else is lost.       *)
(* A key's time to live (24 h) is longer than the candle it is about, so   *)
(* keys never expire here.                                                 *)
(***************************************************************************)
EXTENDS PostgresLockAdapter

CONSTANTS
  CronJobs,     \* trading_job: due once an hour
  StartupJobs,  \* trading_job_immediate: due once after each start, if RUN_IMMEDIATELY
  MaxHour,      \* bound: hours in one behaviour
  MaxManual     \* bound: cycles started from Telegram that place an order

ASSUME JobsAssumption ==
  /\ IsFiniteSet(Processes)
  /\ CronJobs \subseteq Jobs
  /\ StartupJobs \subseteq Jobs
  /\ CronJobs \cap StartupJobs = {}
  /\ MaxHour \in Nat
  /\ MaxManual \in Nat

VARIABLES
  hour,    \* the current hour, which is the candle a cycle started now is about
  due,     \* due[p]: trading jobs whose trigger has come up and that have not fired
  stage,   \* stage[p][j]: how far job j is in its body
  candle,  \* candle[p][j]: the candle in the idempotency key of the cycle
  traded,  \* traded[p][j]: the result of the cycle has a trade_id
  keys,    \* table idempotency_keys: candles marked as done
  orders,  \* external: orders[h] = orders the exchange accepted from cycles of candle h
  saved,   \* table trades: saved[h] = rows written by ExecuteTradeUseCase
  posted,  \* table trades: posted[h] = rows written by trading_job's create_trade
  manual   \* orders placed by cycles that were started from Telegram

lockVars == vars
jobVars == <<due, stage, candle, traded>>
durable == <<keys, orders, saved, posted, manual>>
cycleVars == <<lockVars, hour, jobVars, durable>>

Hours == 0 .. MaxHour
TradingJobs == CronJobs \cup StartupJobs

Stage == {"none", "check", "pipeline", "save", "mark", "record", "done"}

CycleTypeOK ==
  /\ TypeOK
  /\ hour \in Hours
  /\ due \in [Processes -> SUBSET TradingJobs]
  /\ stage \in [Processes -> [Jobs -> Stage]]
  /\ candle \in [Processes -> [Jobs -> Hours]]
  /\ traded \in [Processes -> [Jobs -> BOOLEAN]]
  /\ keys \in SUBSET Hours
  /\ orders \in [Hours -> Nat]
  /\ saved \in [Hours -> Nat]
  /\ posted \in [Hours -> Nat]
  /\ manual \in 0 .. MaxManual

CycleInit ==
  /\ Init
  /\ hour = 0
  /\ due = [p \in Processes |-> TradingJobs]
  /\ stage = [p \in Processes |-> [j \in Jobs |-> "none"]]
  /\ candle = [p \in Processes |-> [j \in Jobs |-> 0]]
  /\ traded = [p \in Processes |-> [j \in Jobs |-> FALSE]]
  /\ keys = {}
  /\ orders = [h \in Hours |-> 0]
  /\ saved = [h \in Hours |-> 0]
  /\ posted = [h \in Hours |-> 0]
  /\ manual = 0

GoTo(p, j, from, to) ==
  /\ stage[p][j] = from
  /\ stage' = [stage EXCEPT ![p][j] = to]

Bump(count, h) == [count EXCEPT ![h] = @ + 1]

-----------------------------------------------------------------------------
(* Wrong forms of the actions below, each a slip the code could have made;  *)
(* the properties are tested against them.                                  *)

\* The answer of check_key is not looked at.
CheckKeyIgnored(p, j) ==
  /\ candle' = [candle EXCEPT ![p][j] = hour]
  /\ GoTo(p, j, "check", "pipeline")
  /\ UNCHANGED <<lockVars, hour, due, traded, durable>>

\* The use case returns the order without saving the trade.
SaveTradeForgotten(p, j) ==
  /\ GoTo(p, j, "save", "mark")
  /\ traded' = [traded EXCEPT ![p][j] = TRUE]
  /\ UNCHANGED <<lockVars, hour, due, candle, durable>>

\* trading_job records a trade whether or not the result has a trade_id.
MarkKeyThenRecord(p, j) ==
  /\ keys' = keys \cup {candle[p][j]}
  /\ GoTo(p, j, "mark", "record")
  /\ UNCHANGED <<lockVars, hour, due, candle, traded, orders, saved, posted, manual>>

\* release waits for a name that another job has discarded.
LeaveBodyOwned(p, j) ==
  /\ CallRelease(p, j)
  /\ GoTo(p, j, "done", "none")
  /\ traded' = [traded EXCEPT ![p][j] = FALSE]
  /\ UNCHANGED <<hour, due, candle, durable>>

-----------------------------------------------------------------------------
(* Time and triggers.                                                       *)

(* The next hour begins: the cron trigger comes up once in it.  A run that  *)
(* is still due is merged with it (coalesce).                               *)
NextHour ==
  /\ hour < MaxHour
  /\ hour' = hour + 1
  /\ due' = [p \in Processes |-> due[p] \cup CronJobs]
  /\ UNCHANGED <<lockVars, stage, candle, traded, durable>>

(* A trigger passes unused: the process was down, or later than the grace   *)
(* time.                                                                    *)
Misfire(p, j) ==
  /\ j \in due[p]
  /\ due' = [due EXCEPT ![p] = @ \ {j}]
  /\ UNCHANGED <<lockVars, hour, stage, candle, traded, durable>>

(* The scheduler starts a job: a trading job when it is due, the position   *)
(* job at any quarter of an hour.                                           *)
FireJob(p, j) ==
  /\ j \in TradingJobs => j \in due[p]
  /\ Fire(p, j)
  /\ due' = [due EXCEPT ![p] = @ \ {j}]
  /\ UNCHANGED <<hour, stage, candle, traded, durable>>

LockStep(p, j) ==
  /\ Grant(p, j) \/ Refuse(p, j) \/ Unlock(p, j) \/ Discard(p, j) \/ Abort(p, j)
  /\ UNCHANGED <<hour, jobVars, durable>>

(* acquire returned True.  The position job only reads: its pipeline is the *)
(* hybrid stage with scanning off, whose management branch sells nothing.   *)
EnterBody(p, j) ==
  /\ Enter(p, j)
  /\ GoTo(p, j, "none", IF j \in TradingJobs THEN "check" ELSE "done")
  /\ UNCHANGED <<hour, due, candle, traded, durable>>

LeaveBody(p, j) ==
  /\ CallRelease(p, j) \/ SkipRelease(p, j)
  /\ GoTo(p, j, "done", "none")
  /\ traded' = [traded EXCEPT ![p][j] = FALSE]
  /\ UNCHANGED <<hour, due, candle, durable>>

-----------------------------------------------------------------------------
(* execute_trading_cycle.                                                   *)

(* check_key for the candle that is current now.  A marked key ends the     *)
(* cycle as skipped.  If the query fails the adapter answers "no such key"; *)
(* if opening or closing its session fails the orchestrator blocks.         *)
CheckKey(p, j) ==
  /\ candle' = [candle EXCEPT ![p][j] = hour]
  /\ \/ /\ hour \in keys
        /\ GoTo(p, j, "check", "done")
        /\ UNCHANGED faults
     \/ /\ hour \notin keys
        /\ GoTo(p, j, "check", "pipeline")
        /\ UNCHANGED faults
     \/ /\ Fault("database")
        /\ GoTo(p, j, "check", "pipeline") \/ GoTo(p, j, "check", "done")
  /\ UNCHANGED <<grants, session, heldLocks, pc, hour, due, traded, durable>>

(* The pipeline ends without an order: with status success (hold, or a      *)
(* stage skipped), or with a status that is not marked (failed, blocked, or *)
(* none at all when the backtest filter exits).                             *)
NoTrade(p, j) ==
  /\ GoTo(p, j, "pipeline", "mark") \/ GoTo(p, j, "pipeline", "done")
  /\ UNCHANGED <<lockVars, hour, due, candle, traded, durable>>

(* ExecutionStage sends a market order.  It may be refused (validation,     *)
(* balance, exchange), which still is status success; or accepted.  If the  *)
(* answer to an accepted order is lost or cannot be parsed the adapter      *)
(* reports a failure, and the trade is not saved.                           *)
PlaceOrder(p, j) ==
  /\ \/ GoTo(p, j, "pipeline", "mark") /\ UNCHANGED <<faults, orders>>
     \/ /\ GoTo(p, j, "pipeline", "save")
        /\ orders' = Bump(orders, candle[p][j])
        /\ UNCHANGED faults
     \/ /\ GoTo(p, j, "pipeline", "mark")
        /\ orders' = Bump(orders, candle[p][j])
        /\ Fault("exchange")
  /\ UNCHANGED <<grants, session, heldLocks, pc>>
  /\ UNCHANGED <<hour, due, candle, traded, keys, saved, posted, manual>>

(* save_trade.  If it raises, whether or not its commit took effect, the    *)
(* stage and so the cycle report failed, and the key is not marked.         *)
SaveTrade(p, j) ==
  /\ \/ /\ GoTo(p, j, "save", "mark")
        /\ saved' = Bump(saved, candle[p][j])
        /\ traded' = [traded EXCEPT ![p][j] = TRUE]
        /\ UNCHANGED faults
     \/ /\ GoTo(p, j, "save", "done")
        /\ saved' \in {saved, Bump(saved, candle[p][j])}
        /\ Fault("database")
        /\ UNCHANGED traded
  /\ UNCHANGED <<grants, session, heldLocks, pc>>
  /\ UNCHANGED <<hour, due, candle, keys, orders, posted, manual>>

(* mark_key.  A failure is only logged.                                     *)
MarkKey(p, j) ==
  /\ \/ keys' = keys \cup {candle[p][j]} /\ UNCHANGED faults
     \/ Fault("database") /\ UNCHANGED keys
  /\ GoTo(p, j, "mark", IF traded[p][j] THEN "record" ELSE "done")
  /\ UNCHANGED <<grants, session, heldLocks, pc>>
  /\ UNCHANGED <<hour, due, candle, traded, orders, saved, posted, manual>>

(* trading_job stores the trade once more through create_trade; a failure   *)
(* (validation of amount > 0, database) is only logged.                     *)
RecordTrade(p, j) ==
  /\ GoTo(p, j, "record", "done")
  /\ posted' \in {posted, Bump(posted, candle[p][j])}
  /\ UNCHANGED <<lockVars, hour, due, candle, traded, keys, orders, saved, manual>>

(* wait_for cancels the cycle after 600 s, at whichever await it is; what   *)
(* that await was doing in the database may have taken effect.              *)
Timeout(p, j) ==
  /\ Fault("timeout")
  /\ \/ /\ GoTo(p, j, "check", "done") \/ GoTo(p, j, "pipeline", "done")
        /\ UNCHANGED <<saved, keys>>
     \/ /\ GoTo(p, j, "save", "done")
        /\ saved' \in {saved, Bump(saved, candle[p][j])}
        /\ UNCHANGED keys
     \/ /\ GoTo(p, j, "mark", "done")
        /\ keys' \in {keys, keys \cup {candle[p][j]}}
        /\ UNCHANGED saved
  /\ UNCHANGED <<grants, session, heldLocks, pc>>
  /\ UNCHANGED <<hour, due, candle, traded, orders, posted, manual>>

(* The Telegram command /run executes the same cycle in another process,    *)
(* with a Container without a database: its lock, its keys and its trades   *)
(* are in memory and its own, and it does not take the lock.  What others   *)
(* see of it is its order.                                                  *)
ManualRun ==
  /\ manual < MaxManual
  /\ manual' = manual + 1
  /\ orders' = Bump(orders, hour)
  /\ UNCHANGED <<lockVars, hour, jobVars, keys, saved, posted>>

-----------------------------------------------------------------------------
(* The process dies and is started again: the startup job is due, and a     *)
(* cron run that was still due comes up as before.                          *)
Restart(p) ==
  /\ Crash(p)
  /\ due' = [due EXCEPT ![p] = (@ \cap CronJobs) \cup StartupJobs]
  /\ stage' = [stage EXCEPT ![p] = [j \in Jobs |-> "none"]]
  /\ traded' = [traded EXCEPT ![p] = [j \in Jobs |-> FALSE]]
  /\ UNCHANGED <<hour, candle, durable>>

Disconnect(p) ==
  /\ LoseConnection(p)
  /\ UNCHANGED <<hour, jobVars, durable>>

BodyStep(p, j) ==
  \/ CheckKey(p, j)
  \/ NoTrade(p, j)
  \/ PlaceOrder(p, j)
  \/ SaveTrade(p, j)
  \/ MarkKey(p, j)
  \/ RecordTrade(p, j)
  \/ Timeout(p, j)

Step(p, j) ==
  \/ LockStep(p, j)
  \/ EnterBody(p, j)
  \/ BodyStep(p, j)
  \/ LeaveBody(p, j)

CycleNext ==
  \/ NextHour
  \/ ManualRun
  \/ \E p \in Processes, j \in Jobs : \/ Misfire(p, j)
                                      \/ FireJob(p, j)
                                      \/ Step(p, j)
  \/ \E p \in Processes : Restart(p) \/ Disconnect(p)

\* What is started is finished: statements and requests are answered or time
\* out.  Triggers need not come, processes need not be restarted.
CycleFairness ==
  \A p \in Processes, j \in Jobs : WF_cycleVars(Step(p, j))

CycleSpec == CycleInit /\ [][CycleNext]_cycleVars /\ CycleFairness

-----------------------------------------------------------------------------
\* Trading jobs of a process: two with RUN_IMMEDIATELY, otherwise one.
Width == Cardinality(TradingJobs)

(* The jobs of one process pass the lock together.  Apart from them the     *)
(* lock and the key let one order on a candle through; every other one is   *)
(* paid for by a manual run or by a fault: a crash, a timeout, a failed     *)
(* query or a lost connection yields one duplicate of each of these jobs    *)
(* and no more.                                                             *)
DuplicatesCostFaults ==
  \A h \in Hours : orders[h] <= Width * (1 + faults) + manual

\* Orders accepted for candle h whose trade is about to be saved.
Saving(h) ==
  {t \in Processes \X Jobs :
     candle[t[1]][t[2]] = h /\ stage[t[1]][t[2]] = "save"}

(* No accepted order goes missing from the trades table unless something    *)
(* failed, and then one of each trading job of a process per fault: all     *)
(* paths from an accepted order to the end of the job save it.              *)
OrdersRecorded ==
  \A h \in Hours :
    orders[h] <= saved[h] + Cardinality(Saving(h)) + Width * faults + manual

(* The trades table has no phantoms: the rows of the use case stand for     *)
(* accepted orders, and the scheduler's rows for rows of the use case,      *)
(* through every retry of the cycle.                                        *)
NoPhantomTrades ==
  \A h \in Hours : posted[h] <= saved[h] /\ saved[h] <= orders[h]

(* Whatever fails, a job that has started its body ends it and starts to    *)
(* give the lock back.                                                      *)
JobsEnd ==
  \A p \in Processes, j \in Jobs : stage[p][j] # "none" ~> stage[p][j] = "none"

(* Documented: no duplicate order on the same candle (SCHEDULER_GUIDE.md,   *)
(* "Idempotency Key"; tests/contracts/test_idempotency.py).                 *)
OneOrderPerCandle == \A h \in Hours : orders[h] <= 1

(* Documented: a row of trades has the unique trade id of the exchange      *)
(* (backend/app/models/trade.py): there is at most one row per order.       *)
OneRowPerOrder == \A h \in Hours : saved[h] + posted[h] <= orders[h]
=============================================================================
