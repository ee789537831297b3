------------------------------ MODULE Services ------------------------------
(***************************************************************************)
(* The programs around the trading core, each a process of its own that    *)
(* the owner starts: the scheduler service (src/scheduler_main.py), the    *)
(* Telegram bot (src/telegram_bot.py), the command line trading runner,    *)
(* the breakout analysis, the bot endpoints of the API, and the rules that *)
(* judge a market.  A behaviour is one of them.                            *)
(***************************************************************************)
EXTENDS Pipeline, Ports, OrderPlans

CONSTANTS
    Programs,        \* the programs among which a behaviour chooses
    Jobs,            \* the scheduler jobs that run
    Replies,         \* text answers of the AI
    Responses,       \* JSON answers to a breakout prompt
    RsiReadings,     \* RSI a breakout request carries, {} when it carries none
    Markets,         \* what the rules judge
    MaxFaults,       \* bound: disturbances of a behaviour
    MaxRuns,         \* bound: runs of a job, of the runner, calls of an endpoint
    MaxUpdates,      \* bound: messages to the bot
    MaxVolume        \* bound: volume of the coin in the account

ASSUME ServicesAssumption ==
    /\ Programs \subseteq {"scheduler", "bot", "runner", "breakout", "api", "rules"}
    /\ Jobs \subseteq {"trading", "immediate", "position"}
    /\ {MaxFaults, MaxRuns, MaxUpdates, MaxVolume} \subseteq Nat
    /\ \A reply \in Replies : reply.form \in {"json", "text", "error"}
    /\ RsiReadings # {}

VARIABLES
    program,
    faults,      \* disturbances so far
    sched,       \* the scheduler: see SchedulerInit; and so on
    bot,
    runner,
    call,
    api,
    market
vars == <<program, faults, sched, bot, runner, call, api, market>>

Fault == faults < MaxFaults /\ faults' = faults + 1
NoFault == faults' = faults

-----------------------------------------------------------------------------
(* The scheduler.  The jobs share a process, in which the lock lets every  *)
(* one of them in; only another process refuses it.                        *)

NoResult == Failed([scan |-> "error"])

SchedulerInit ==
    [up |-> TRUE, marked |-> FALSE, holders |-> {}, rows |-> {},
     pc |-> [j \in Jobs |-> "idle"], result |-> [j \in Jobs |-> NoResult],
     runs |-> [j \in Jobs |-> 0], ok |-> [j \in Jobs |-> 0], failed |-> [j \in Jobs |-> 0],
     cut |-> [j \in Jobs |-> 0], lost |-> [j \in Jobs |-> 0]]

Scheduler == program = "scheduler" /\ UNCHANGED <<program, bot, runner, call, api, market>>

At(j, step) == sched.pc[j] = step

\* A trigger of the job; one instance at a time.
StartJob(j) ==
    /\ Scheduler /\ NoFault
    /\ sched.up /\ At(j, "idle") /\ sched.runs[j] < (IF j = "immediate" THEN 1 ELSE MaxRuns)
    /\ sched' = [sched EXCEPT !.pc[j] = "asking", !.runs[j] = @ + 1]

AcquireLock(j) ==
    /\ Scheduler /\ NoFault /\ At(j, "asking")
    /\ sched' = [sched EXCEPT !.pc[j] = "cycle", !.holders = @ \cup {j}]

\* Another process has it: the trading job counts a failure, the position job a success.
LockRefused(j) ==
    /\ Scheduler /\ Fault /\ At(j, "asking")
    /\ sched' = IF j = "position" THEN [sched EXCEPT !.pc[j] = "release", !.ok[j] = @ + 1]
                ELSE [sched EXCEPT !.pc[j] = "release", !.failed[j] = @ + 1]

Disturbed(e) == e.key = "error" \/ e.scan \in {"failed", "error"} \/ e.chart # "yes"

\* The cycle under its timeout; the key is marked when the pipeline succeeds.
RunCycle(j) ==
    /\ Scheduler /\ At(j, "cycle")
    /\ \E e \in Executions, reply \in Replies :
         LET result == IF j = "position" THEN ManagePositions(e) ELSE TradingCycleResult(e, reply)
         IN /\ e.key = "marked" <=> sched.marked
            /\ IF Disturbed(e) THEN Fault ELSE NoFault
            /\ sched' = [sched EXCEPT !.pc[j] = "report", !.result[j] = result,
                                      !.marked = @ \/ (j # "position" /\ MarksKey(e, result))]

\* A cycle may be cancelled in mark_key, after its commit: the key is marked all the same.
MarkedYet(j) == {sched.marked, sched.marked \/ (j # "position" /\ At(j, "cycle"))}

\* wait_for gives up, or building the orchestrator raises.
CycleLost(j) ==
    /\ Scheduler /\ Fault /\ At(j, "cycle")
    /\ \E marked \in MarkedYet(j) :
         sched' = [sched EXCEPT !.pc[j] = "report", !.result[j] = NoResult, !.marked = marked,
                                !.lost[j] = @ + 1]

\* The row of the decision.  The response never names the chosen coin: the configured one
\* stands in the row.
DecisionRow(result) ==
    [symbol |-> "configured", about |-> result.about, decision |-> result.decision,
     confidence |-> Grade(IF result.level = "high" THEN 0 ELSE IF result.level = "medium" THEN 1 ELSE 2,
                          <<<<0, 80>>, <<1, 50>>, <<2, 30>>>>),
     answered |-> result.answered]

Stores(j) == j # "position" /\ sched.result[j].status = "success"

\* Rows and messages; a message that fails is only logged.
Report(j) ==
    /\ Scheduler /\ NoFault /\ At(j, "report")
    /\ sched' = [sched EXCEPT !.pc[j] = "count",
                              !.rows = IF Stores(j) THEN @ \cup {DecisionRow(sched.result[j])} ELSE @]

ReportUnstored(j) ==
    /\ Scheduler /\ Fault /\ At(j, "report") /\ Stores(j)
    /\ sched' = [sched EXCEPT !.pc[j] = "count"]

Succeeded(result) == result.status \in {"success", "skipped"}

Count(j) ==
    /\ Scheduler /\ NoFault /\ At(j, "count")
    /\ LET n == IF Succeeded(sched.result[j]) THEN 1 ELSE 0
       IN sched' = [sched EXCEPT !.pc[j] = "release", !.ok[j] = @ + n, !.failed[j] = @ + 1 - n,
                                 !.result[j] = NoResult]

\* The finally block.
ReleaseLock(j) ==
    /\ Scheduler /\ NoFault /\ At(j, "release")
    /\ sched' = [sched EXCEPT !.pc[j] = "idle", !.holders = @ \ {j}]

\* The signal is seen by the main loop, which shuts the scheduler down.
Terminate ==
    /\ Scheduler /\ NoFault /\ sched.up
    /\ sched' = [sched EXCEPT !.up = FALSE]

\* The shutdown cancels a running job at its next await: only the finally block still runs.
CutJob(j) ==
    /\ Scheduler /\ NoFault
    /\ ~sched.up /\ sched.pc[j] \notin {"idle", "release"}
    /\ \E marked \in MarkedYet(j) :
         sched' = [sched EXCEPT !.pc[j] = "release", !.result[j] = NoResult, !.marked = marked,
                                !.cut[j] = @ + 1]

-----------------------------------------------------------------------------
(* The Telegram bot, which handles its updates one after the other.        *)

BotInit == [queue |-> <<>>, updates |-> 0, pc |-> "ready", running |-> FALSE, told |-> "nothing"]

Bot == program = "bot" /\ UNCHANGED <<program, sched, runner, call, api, market>>

\* A message: a command of the owner, or any command of somebody else.
Message ==
    /\ Bot /\ NoFault
    /\ bot.updates < MaxUpdates
    /\ \E u \in {"run", "status", "stranger"} :
         bot' = [bot EXCEPT !.queue = Append(@, u), !.updates = @ + 1]

\* What a command is answered before anything is done for it.
FirstAnswer(u) ==
    IF u = "stranger" THEN "refused"
    ELSE IF u = "status" THEN (IF bot.running THEN "is running" ELSE "is stopped")
    ELSE IF bot.running THEN "already running" ELSE "nothing"

TakeUpdate ==
    /\ Bot /\ NoFault
    /\ bot.pc = "ready" /\ bot.queue # <<>>
    /\ LET answer == FirstAnswer(Head(bot.queue))
       IN bot' = [bot EXCEPT !.queue = Tail(@), !.told = answer,
                             !.pc = IF answer = "nothing" THEN "greeting" ELSE "ready",
                             !.running = @ \/ answer = "nothing"]

Greet ==
    /\ Bot /\ NoFault /\ bot.pc = "greeting"
    /\ bot' = [bot EXCEPT !.pc = "cycle"]

\* A container of its own, so that no candle is marked, no lock and no timeout.
CmdRun ==
    /\ Bot /\ bot.pc = "cycle"
    /\ \E e \in Executions, reply \in Replies :
         /\ e.key = "fresh"
         /\ IF Disturbed(e) THEN Fault ELSE NoFault
         /\ bot' = [bot EXCEPT !.pc = "answer",
                               !.told = IF TradingCycleResult(e, reply).status = "success" THEN "done" ELSE "failed"]

Answer ==
    /\ Bot /\ NoFault /\ bot.pc = "answer"
    /\ bot' = [bot EXCEPT !.pc = "finally"]

\* A reply that cannot be sent raises, and so may building the container; the cycle may be over.
CmdRaises ==
    /\ Bot /\ Fault /\ bot.pc \in {"greeting", "cycle", "answer"}
    /\ bot' = [bot EXCEPT !.pc = "sorry", !.told = "error"]

\* The error message itself may fail, which raises out of the handler.
Apologise ==
    /\ Bot /\ bot.pc = "sorry"
    /\ NoFault \/ Fault
    /\ bot' = [bot EXCEPT !.pc = "finally"]

\* Wrong form: the flag of a running cycle is left set.
FinallyStillRunning ==
    /\ Bot /\ NoFault /\ bot.pc = "finally"
    /\ bot' = [bot EXCEPT !.pc = "ready"]

Finally ==
    /\ Bot /\ NoFault /\ bot.pc = "finally"
    /\ bot' = [bot EXCEPT !.pc = "ready", !.running = FALSE]

-----------------------------------------------------------------------------
(* The trading runner.  volume is the owner's; seen is what the runner     *)
(* read of it; asked says how the decision came about; touched, that the   *)
(* reading failed or that the volume changed since.                        *)

RunnerInit ==
    [pc : {"idle"}, runs : {0}, dry : BOOLEAN, volume : 0 .. 1, seen : {0}, touched : {FALSE},
     decision : {"hold"}, reply : {NoReply}, orders : {{}}, status : {"none"}]

Runner == program = "runner" /\ UNCHANGED <<program, sched, bot, call, api, market>>

\* get_position: an error is no position.
GetPosition(failing) ==
    /\ Runner
    /\ runner.pc = "idle" /\ runner.runs < MaxRuns
    /\ IF failing THEN Fault ELSE NoFault
    /\ runner' = [runner EXCEPT !.pc = "analyse", !.runs = @ + 1, !.touched = failing,
                                !.seen = IF failing THEN 0 ELSE runner.volume]

AnalyzeMarket ==
    /\ Runner /\ runner.pc = "analyse"
    /\ \E reply \in Replies, data \in {"list", "none"} :
         LET decision == Analyze(data, reply).decision
             wanted == IF runner.seen = 0 THEN "buy" ELSE "sell"
         IN /\ IF data = "none" THEN Fault ELSE NoFault
            /\ runner' = [runner EXCEPT !.decision = decision, !.reply = IF Asks(data) THEN reply ELSE NoReply,
                            !.status = IF decision = wanted /\ runner.dry THEN "dry_run" ELSE "completed",
                            !.pc = IF decision = wanted /\ ~runner.dry THEN "order" ELSE "idle"]

Order == [side |-> runner.decision, reply |-> runner.reply, over |-> runner.volume > 0, touched |-> runner.touched]

\* The exchange executes a purchase, and a sale of what is there.
PlaceOrder ==
    /\ Runner /\ runner.pc = "order"
    /\ IF runner.decision = "buy" THEN runner.volume < MaxVolume ELSE runner.seen <= runner.volume
    /\ \E answered \in BOOLEAN :
         /\ IF answered THEN NoFault ELSE Fault
         /\ runner' = [runner EXCEPT !.pc = "idle", !.orders = @ \cup {Order},
                         !.volume = IF runner.decision = "buy" THEN @ + 1 ELSE @ - runner.seen,
                         !.status = IF answered THEN "executed" ELSE "failed"]

OrderRejected ==
    /\ Runner /\ runner.pc = "order"
    /\ IF runner.decision = "sell" /\ runner.seen > runner.volume THEN NoFault ELSE Fault
    /\ runner' = [runner EXCEPT !.pc = "idle", !.status = "failed"]

\* The owner trades by hand.
OwnerTrades ==
    /\ Runner /\ Fault
    /\ \E v \in 0 .. MaxVolume : runner' = [runner EXCEPT !.volume = v, !.touched = TRUE]

-----------------------------------------------------------------------------
(* The breakout analysis.  wired is "container" when Container builds it   *)
(* and "ports" when it is given its ports, as the tests do.                *)

CallInit ==
    [pc : {"prompt"}, wired : {"container", "ports"}, rsi : RsiReadings, decision : {Fallback},
     rows : {<<>>}, kept : {0}]

Call == program = "breakout" /\ UNCHANGED <<program, sched, bot, runner, api, market>>

\* The prompt is rendered outside the try block.
RenderPrompt(failing) ==
    /\ Call /\ call.pc = "prompt"
    /\ IF failing THEN Fault ELSE NoFault
    /\ call' = [call EXCEPT !.pc = IF failing THEN "raised" ELSE "ask"]

\* The client the container gives it takes no text, so that asking raises.
AskAi ==
    /\ Call /\ NoFault /\ call.pc = "ask"
    /\ \E r \in Responses :
         LET raises == call.wired = "container" \/ Raises(r)
         IN call' = [call EXCEPT !.decision = IF raises THEN Fallback ELSE BreakoutDecision(r, call.rsi),
                                 !.pc = IF raises THEN "record_fallback" ELSE "record"]

Recording == call.pc \in {"record", "record_fallback"}
Recorded(c) == [c EXCEPT !.rows = Append(@, c.decision)]

\* An exception while a decision is recorded leads to the fallback, and then out.
RecordRaises(c) ==
    IF c.pc = "record" THEN [c EXCEPT !.pc = "record_fallback", !.decision = Fallback]
    ELSE [c EXCEPT !.pc = "raised"]

RecordDecision ==
    /\ Call /\ NoFault /\ Recording
    /\ call' = IF call.wired = "container" THEN RecordRaises(call)
               ELSE [Recorded(call) EXCEPT !.pc = "answered"]

\* flush may fail, or refresh after it, when the row is there.
RecordFails ==
    /\ Call /\ Fault /\ Recording /\ call.wired = "ports"
    /\ \/ call' = RecordRaises(call)
       \/ call' = [RecordRaises(Recorded(call)) EXCEPT !.kept = @ + 1]

-----------------------------------------------------------------------------
(* The endpoints of the API: the stored state of the bot, and the trades.  *)

\* wanted: what was asked of the bot last (history).
ApiInit ==
    [calls |-> 0, stored |-> {}, wanted |-> {},
     pc |-> [r \in {"one", "two"} |-> "checking"], trades |-> <<>>]

Api == program = "api" /\ UNCHANGED <<program, sched, bot, runner, call, market>>

\* The first call creates the row; a later one changes the state inside the stored value,
\* which the session does not notice.
ControlBot(action) ==
    /\ Api /\ NoFault /\ api.calls < MaxRuns
    /\ api' = [api EXCEPT !.calls = @ + 1, !.wanted = {action = "start"},
                          !.stored = IF @ = {} THEN {action = "start"} ELSE @]

UpdateConfig(running) ==
    /\ Api /\ NoFault /\ api.calls < MaxRuns
    /\ api' = [api EXCEPT !.calls = @ + 1, !.stored = {running}, !.wanted = {running}]

\* create_trade of the same trade by two requests: the id is looked up, then inserted.
CheckTrade(r) ==
    /\ Api /\ NoFault /\ api.pc[r] = "checking"
    /\ api' = [api EXCEPT !.pc[r] = IF api.trades = <<>> THEN "inserting" ELSE "conflict"]

\* Wrong form: a row with the id is overwritten.
InsertTradeMerged(r) ==
    /\ Api /\ NoFault /\ api.pc[r] = "inserting"
    /\ api' = [api EXCEPT !.pc[r] = "created", !.trades = <<r>>]

\* The commit raises for an id that is there; else it may fail, and so may the refresh
\* after it, when the row is there.
InsertTrade(r) ==
    /\ Api /\ api.pc[r] = "inserting"
    /\ \/ /\ NoFault /\ api.trades = <<>>
          /\ api' = [api EXCEPT !.pc[r] = "created", !.trades = <<r>>]
       \/ /\ IF api.trades = <<>> THEN Fault ELSE NoFault
          /\ api' = [api EXCEPT !.pc[r] = "error"]
       \/ /\ Fault /\ api.trades = <<>>
          /\ api' = [api EXCEPT !.pc[r] = "error", !.trades = <<r>>]

-----------------------------------------------------------------------------
(* What the rules judge.                                                   *)

\* A reading is missing, or one number.
Reading(values) == {r \in SUBSET values : \A x, y \in r : x = y}
Readings ==
    [price : Reading(Nat \ {0}), atr : Reading(Nat), adx : Reading(Nat), rsi : Reading(Nat),
     histogram : Reading(Int), volume : Reading(Nat), band : Reading(Int)]
Summaries ==
    [regime : {"trending_up", "trending_down", "ranging", "volatile", "unknown"}, atr : Nat,
     strength : {"strong", "moderate", "weak", "none"}, volume : Reading(Nat), rsi : Reading(Nat)]

\* A bar as it is traded, and as the indicators see it; prices lie between its low and its high.
Candles == {b \in [open : Int, high : Int, low : Int, close : Int] : {b.open, b.close} \subseteq b.low .. b.high}
PriceBars ==
    {b \in [close : Nat \ {0}, high : Nat, low : Nat, volume : Nat] : b.low <= b.close /\ b.close <= b.high}

\* A book has levels on both sides, the best first, with no price beyond what Inf stands for.
Levels == [price : Nat \ {0}, size : Nat \ {0}]
Books ==
    {book \in [asks : Seq(Levels), bids : Seq(Levels)] :
        /\ book.asks # <<>> /\ book.bids # <<>>
        /\ \A i, j \in DOMAIN book.asks : i < j => book.asks[i].price <= book.asks[j].price
        /\ \A i, j \in DOMAIN book.bids : i < j => book.bids[i].price >= book.bids[j].price
        /\ \A i \in DOMAIN book.asks : book.asks[i].price <= (Inf \div Hundred) * book.asks[1].price}

\* Calls of a store: a trade that is saved again is the same trade.
StoreCall(c) ==
    /\ c.do \in {"later", "trade", "order", "update", "decision", "snapshot", "cleanup", "mark", "check", "sweep"}
    /\ c.do = "trade" => c.at \in Int
    /\ c.do = "order" => c.sized \in BOOLEAN
StoreCalls(calls) ==
    /\ calls \in Seq(ToSet(calls))
    /\ \A i \in DOMAIN calls : StoreCall(calls[i])
    /\ \A i, j \in DOMAIN calls :
          calls[i].do = "trade" /\ calls[j].do = "trade" /\ calls[i].id = calls[j].id => calls[i].at = calls[j].at

\* Calls of a ledger.
DayCalls(calls) ==
    /\ calls \in Seq(ToSet(calls))
    /\ \A i \in DOMAIN calls : calls[i].do = "midnight" \/ calls[i].pnl \in Int

Balances == [currency : STRING, free : Nat, locked : Nat, price : Reading(Nat)]
Answers == [form : {"raises", "none", "empty", "order"}, price : Reading(Nat), volume : Reading(Nat)]

Judged(m) ==
    CASE m.kind = "readings" -> m.of \in Readings
      [] m.kind = "batch" -> m.of \in Seq(Summaries)
      [] m.kind = "book" -> m.of \in Books
      [] m.kind = "bars" -> m.of \in Seq(PriceBars) /\ m.of # <<>>
      [] m.kind = "calls" -> StoreCalls(m.of)
      [] m.kind = "days" -> DayCalls(m.of)
      [] m.kind = "exchange" -> m.of.account \in SUBSET Balances /\ m.of.answer \in Answers
      [] m.kind = "prices" -> /\ m.of.limits \in [byAtr : BOOLEAN]
                              /\ m.of.avg \in Nat /\ m.of.atr \in Nat /\ m.of.prices \in Seq(Nat \ {0})
      [] m.kind = "exit" -> /\ m.of.bar \in Candles /\ m.of.stop \in Int /\ m.of.target \in Int
                            /\ m.of.stop < m.of.target
      [] OTHER -> TRUE

ASSUME MarketsAssumption == \A m \in Markets : Judged(m)

-----------------------------------------------------------------------------
NoMarket == [kind |-> "none"]

Init ==
    /\ program \in Programs
    /\ faults = 0
    /\ sched = SchedulerInit
    /\ bot = BotInit
    /\ runner \in (IF program = "runner" THEN RunnerInit ELSE {CHOOSE r \in RunnerInit : TRUE})
    /\ call \in (IF program = "breakout" THEN CallInit ELSE {CHOOSE c \in CallInit : TRUE})
    /\ api = ApiInit
    /\ market \in (IF program = "rules" THEN Markets ELSE {NoMarket})

SchedulerStep ==
    \/ \E j \in Jobs : \/ StartJob(j) \/ AcquireLock(j) \/ LockRefused(j) \/ RunCycle(j) \/ CycleLost(j)
                       \/ Report(j) \/ ReportUnstored(j) \/ Count(j) \/ ReleaseLock(j) \/ CutJob(j)
    \/ Terminate
BotStep == TakeUpdate \/ Greet \/ CmdRun \/ Answer \/ CmdRaises \/ Apologise \/ Finally
RunnerStep ==
    \/ \E failing \in BOOLEAN : GetPosition(failing)
    \/ AnalyzeMarket \/ PlaceOrder \/ OrderRejected \/ OwnerTrades
CallStep ==
    \/ \E failing \in BOOLEAN : RenderPrompt(failing)
    \/ AskAi \/ RecordDecision \/ RecordFails
ApiStep ==
    \/ \E action \in {"start", "stop", "pause"} : ControlBot(action)
    \/ \E running \in BOOLEAN : UpdateConfig(running)
    \/ \E r \in DOMAIN api.pc : CheckTrade(r) \/ InsertTrade(r)

Next == SchedulerStep \/ Message \/ BotStep \/ RunnerStep \/ CallStep \/ ApiStep

\* The bot goes on handling its updates; the calls it makes return or raise.
Spec == Init /\ [][Next]_vars /\ WF_vars(BotStep)

-----------------------------------------------------------------------------
\* Every run of a job is counted once, as a success or a failure, unless the shutdown cut
\* it; a candle is marked only by a trading job that was counted as a success or will be, or
\* was cancelled in its cycle, by the timeout or the shutdown; and nothing is left locked.
Uncounted(j) == sched.pc[j] \in {"asking", "cycle", "report", "count"}
Cancelled(j) == sched.cut[j] + sched.lost[j] > 0
JobsAccounted ==
    /\ \A j \in Jobs : sched.runs[j] = sched.ok[j] + sched.failed[j] + sched.cut[j]
                                       + (IF Uncounted(j) THEN 1 ELSE 0)
    /\ sched.marked => \E j \in Jobs \ {"position"} :
                          \/ sched.ok[j] > 0 \/ Cancelled(j)
                          \/ sched.pc[j] \in {"report", "count"} /\ sched.result[j].status = "success"
    /\ (\A j \in Jobs : sched.pc[j] = "idle") => sched.holders = {}

\* Every decision the scheduler stores was made by an answer of the AI.
DecisionRowsAnswered == \A row \in sched.rows : row.answered

\* Every message to the bot is dealt with, and the bot gets ready for the next one.
MessagesHandled == bot.queue # <<>> \/ bot.running ~> bot.queue = <<>> /\ ~bot.running

\* The runner orders only what an answer of the AI says, or the key words of one that
\* cannot be read, and buys on top of a position only when its reading of the position
\* failed or the owner traded meanwhile.
Says(reply, side) ==
    \/ reply.form = "json" /\ reply.decision = side
    \/ reply.form = "text" /\ side \in reply.words
RunnerOrdersJustified ==
    \A o \in runner.orders : Says(o.reply, o.side) /\ (o.side = "buy" /\ o.over => o.touched)

\* The answer of a breakout analysis is the last decision on record; each further row comes
\* from a refresh that failed; and nothing overbought is allowed, whatever goes wrong.
BreakoutRecorded ==
    /\ call.pc = "answered" => /\ Len(call.rows) = call.kept + 1
                               /\ Last(call.rows) = call.decision
    /\ call.pc = "raised" => Len(call.rows) = call.kept
    /\ \A i \in DOMAIN call.rows : call.rows[i].decision = "allow" => ~Over(call.rsi, Overbought)

\* What is asked of the bot is what is stored: stop stops it.  (control_bot.)
ControlObeyed == api.stored = api.wanted

\* Of the requests to create one trade at most one is told that it did, and its row is the
\* one that is kept; one is told of a conflict only when a row is there.  (create_trade.)
CreatedOnce ==
    \A r \in DOMAIN api.pc : /\ api.pc[r] = "created" => api.trades = <<r>>
                             /\ api.pc[r] = "conflict" => api.trades # <<>>

\* What a summary calls favourable passes the filter with a score of 65 at least, and is
\* an upward trend: a ranging market never is.
SummaryConsistent(readings) ==
    LET s == FromIndicators(readings)
    IN IsFavorableForEntry(s) => /\ FilterVerdict(s) = "passed"
                                 /\ CalculateScore(s) >= 65
                                 /\ s.regime = "trending_up"

\* Of a batch the best remain, best first.
BatchOrdered(summaries, limit) ==
    LET best == FilterBatch(summaries, limit)
        score(i) == CalculateScore(best[i])
    IN /\ \A i, j \in DOMAIN best : i < j => score(i) >= score(j)
       /\ \A k \in DOMAIN summaries :
             FilterVerdict(summaries[k]) = "passed" =>
                \/ summaries[k] \in {best[i] : i \in DOMAIN best}
                \/ Len(best) = limit /\ CalculateScore(summaries[k]) <= score(limit)

\* A larger order never slips less, and is only allowed when the book can fill it.
SlippageGrows(book, amounts) ==
    \A a, b \in amounts :
        /\ a <= b => CalculateSlippage(book, "asks", a).slippage <= CalculateSlippage(book, "asks", b).slippage
        /\ CheckLiquidityRisk(book, "asks", b).allowed =>
              Upto(Worth, book.asks, Len(book.asks)) >= b

\* The indicators of one market agree: %R is %K less a hundred, supports lie under the price
\* and resistances over it, and a market measured against itself has the beta of n / (n - 1)
\* that comes of mixing a sample with a population.
IndicatorsAgree(bars) ==
    LET n == Len(bars)
        price == bars[n].close
        closes == [i \in 1 .. n |-> bars[i].close]
    IN /\ \A k \in StochasticK(bars, n), w \in WilliamsR(bars) : k - w \in {Hundred, Hundred - 1}
       /\ \A l \in SupportLevels(bars) : l.price < price
       /\ \A l \in ResistanceLevels(bars) : l.price > price
       /\ \A a \in Adx(bars) : a \in 0 .. Hundred
       /\ Beta(closes, closes) \subseteq {100, Quot(100 * BetaDays, BetaDays - 1)}

\* The votes on the same bars do not contradict each other: the stochastic and %R never call
\* opposite extremes; the RSI is over a half only when the price has risen, and under it when
\* it has fallen; above the Keltner channel the bands do not buy; after a flash crash the price
\* is far down in its range; no row is a top and a trough of the RSI; and overbought at the
\* upper band, or oversold at the lower one, the score is at most 3 halves better, or worse,
\* than that of the trend, unless the RSI is 0, which is taken for a missing one.
VotesAgree(bars) ==
    LET n == Len(bars)
        price == bars[n].close
        past == bars[Max({1, n - Period})].close
        stochastic == StochasticRule(StochasticK(bars, n), StochasticD(bars))
        williams == Extremes(WilliamsR(bars), -8000, -2000, 2)
        rsi == [i \in 1 .. Lookback |-> Rsi(bars, n - Lookback + i)]
        total == AnalyzeSignals(bars).total
        trend == Trend(bars).buy - Trend(bars).sell
    IN /\ williams.buy > 0 => stochastic.sell < 3
       /\ williams.sell > 0 => stochastic.buy < 3
       /\ Over(Rsi(bars, n), 5000) => price > past
       /\ Under(Rsi(bars, n), 5000) => price < past
       /\ AboveKeltner(bars) => BandSide(bars) \in {"upper", "above"}
       /\ FlashCrash(bars) => \A w \in WilliamsR(bars) : 0 - w >= (2 * TrendBars * Hundred) \div Period
       /\ n >= Lookback => FindPeaks(rsi, 200) \cap FindPeaks(Negated(rsi), 200) = {}
       /\ BandSide(bars) = "upper" /\ Over(Rsi(bars, n), 7000) => total <= trend + 3
       /\ BandSide(bars) = "lower" /\ Truthy(Rsi(bars, n)) /\ Under(Rsi(bars, n), 3000) => total >= trend - 3

\* A program on PostgreSQL sees what the tests see in memory, after any calls: every trade
\* (a few older ones besides), the same history and decisions but for a confidence of zero,
\* the open orders that have a volume, are saved once and get no status outside the
\* enumeration; and the same keys, but for one marked again after it expired or about to.
StoresAgree(calls) ==
    LET memory == StoresAlong(calls)[Len(calls)].memory
        postgres == StoresAlong(calls)[Len(calls)].postgres
        count(do, id) == Cardinality({i \in DOMAIN calls : calls[i].do = do /\ calls[i].id = id})
        plain(o) == /\ o.sized /\ count("order", o.id) = 1
                    /\ \A i \in DOMAIN calls :
                          calls[i].do = "update" /\ calls[i].id = o.id => calls[i].status \in OrderStatuses
        ids(rows) == {row.id : row \in rows}
    IN /\ memory.trades \subseteq postgres.trades
       /\ MemoryTrades(memory) \subseteq PostgresTrades(postgres)
       /\ ids(MemoryHistory(memory)) = ids(PostgresHistory(postgres))
       /\ {[no |-> d.no, confidence |-> d.confidence \ {0}] : d \in Latest(memory, 2)} =
             {[no |-> d.no, confidence |-> d.confidence] : d \in Latest(postgres, 2)}
       /\ \A o \in memory.orders : plain(o) =>
             \E q \in Rows(postgres.orders, o.id) : /\ StatusOf(q) = o.status
                                                    /\ q \in PostgresOpen(postgres) <=> o \in MemoryOpen(memory)
       /\ \A id \in ids(memory.keys \cup postgres.keys) :
             /\ LiveKey(postgres, id) => LiveKey(memory, id)
             /\ LiveKey(memory, id) /\ ~LiveKey(postgres, id) => count("mark", id) > 1

\* The two risk ledgers differ in a week by the day that is a week old, which the table counts.
LedgersAgree(calls) ==
    LET file == LedgersAlong(calls)[Len(calls)].file
        table == LedgersAlong(calls)[Len(calls)].table
    IN RepositoryWeek(table) = FileWeek(file) + PnlOf(Rows(file.rows, file.today - Week))

\* The adapters of the exchange list the same positions, though only the new one lists a coin
\* that is locked in orders; an order the bridge reports as done the new adapter reports as
\* done, with the same volume; and an order known as filled to the new one is so to the bridge.
ExchangesAgree(account, answer, state) ==
    /\ UpbitPositions(account) = LegacyPositions(account)
    /\ LegacyBuy(answer, 7).success =>
          /\ UpbitBuy(answer, 7).success <=> answer.price # {}
          /\ UpbitBuy(answer, 7).success => UpbitBuy(answer, 7).volume = LegacyBuy(answer, 7).volume
    /\ LegacySell(answer, 3, {5}).success => UpbitSell(answer, 3, {5}).success
    /\ UpbitStatus(answer, state) = "filled" => LegacyStatus(answer, state) = "filled"

\* An exit on the close, or on any price of the bar, is an exit within the bar; its price
\* lies within the bar, a stop sells at no better price than the stop and a target at no
\* worse than the target; and the stop comes first.
ExitsAgree(bar, stop, target) ==
    /\ CloseStops(bar, stop) => BarStops(bar, stop)
    /\ CloseTargets(bar, target) => BarTargets(bar, target)
    /\ \A p \in bar.low .. bar.high : /\ MomentStops(p, stop) => BarStops(bar, stop)
                                      /\ MomentTargets(p, target) => BarTargets(bar, target)
    /\ CASE ExitPriority(bar, stop, target) = "stop_loss" -> StopPrice(bar, stop) \in bar.low .. Min({stop, bar.high})
         [] ExitPriority(bar, stop, target) = "take_profit" ->
              TargetPrice(bar, target) \in Max({target, bar.low}) .. bar.high /\ ~BarStops(bar, stop)
         [] OTHER -> bar.low > stop /\ bar.high < target

\* An order is no dearer in more parts, and no part is below the least size; and for what the
\* book can fill the strategy of the backtest and the liquidity analysis see one slippage.
PlansAgree(book, sizes) ==
    LET best(side) == book[side][1].price
        fills(side) == Upto(Size, book[side], Len(book[side]))
    IN \A n \in sizes :
          /\ \A k \in 1 .. OptimalSplits(book.asks, n) :
                /\ SplitCost(book.asks, n, k) \in n * best("asks") .. FillCost(book.asks, n)
                /\ SplitCost(book.asks, n, k + 1) <= SplitCost(book.asks, n, k)
                /\ SplitCount(n, k, 2) = 1 \/ 2 * SplitCount(n, k, 2) <= n
          /\ \A k \in 1 .. OptimalSplits(book.bids, n) :
                SplitCost(book.bids, n, k) \in FillCost(book.bids, n) .. n * best("bids")
          /\ n <= fills("asks") =>
                CalculateSlippage(book, "asks", FillCost(book.asks, n)).slippage =
                  (Hundred * (FillCost(book.asks, n) - n * best("asks"))) \div (n * best("asks"))
          /\ n <= fills("bids") =>
                CalculateSlippage(book, "bids", n).slippage =
                  (Hundred * (n * best("bids") - FillCost(book.bids, n))) \div (n * best("bids"))

\* Along any prices at a steady ATR a trailing stop never falls; it sells exactly at two ATR
\* below the highest price or at the first stop; and the second partial profit is the fixed
\* target, never at a price where a fixed stop would sell.
TrailingHolds(limits, avg, atr, prices) ==
    LET after == TrailAlong(limits, avg, atr, prices)
    IN /\ \A i, j \in DOMAIN prices : i < j => \A a \in after[i].stop, b \in after[j].stop : a <= b
       /\ \A i \in DOMAIN prices :
             after[i].sold <=> \/ 100 * prices[i] <= StopLossPrice(limits, avg, atr)
                              \/ \E j \in 1 .. i : prices[j] - prices[i] >= 2 * atr
       /\ \A i \in DOMAIN prices :
             LET sold == PartialTakeProfit(avg, prices[i])
             IN /\ sold = 100 <=> 100 * prices[i] >= TakeProfitPrice([byAtr |-> FALSE], avg, atr)
                /\ 100 * prices[i] <= StopLossPrice([byAtr |-> FALSE], avg, atr) => sold = 0

\* Summary and filter agree on every set of readings, and a batch keeps its best.
\* (MarketSummary, BreakoutFilter.)
FilterAgrees ==
    /\ market.kind = "readings" => SummaryConsistent(market.of)
    /\ market.kind = "batch" => BatchOrdered(market.of, 2)

\* Slippage and split orders agree on every book.  (LiquidityAnalyzer, RuleBasedBreakoutStrategy.)
BooksAgree ==
    market.kind = "book" => SlippageGrows(market.of, 1 .. 40) /\ PlansAgree(market.of, 1 .. 8)

\* The indicators of the same bars agree, and so do their votes.  (TechnicalIndicators,
\* SignalAnalyzer.)
BarsAgree ==
    market.kind = "bars" => IndicatorsAgree(market.of) /\ VotesAgree(market.of)

\* The adapters of a port agree but for the differences named above: what a test sees in memory
\* is what a program sees.  (PostgresPersistenceAdapter, InMemoryPersistenceAdapter, the
\* idempotency adapters, RiskStateManager, RiskStateRepository, UpbitExchangeAdapter, LegacyExchangeAdapter.)
AdaptersAgree ==
    /\ market.kind = "calls" => StoresAgree(market.of)
    /\ market.kind = "days" => LedgersAgree(market.of)
    /\ market.kind = "exchange" => ExchangesAgree(market.of.account, market.of.answer, market.of.state)

\* Stops and targets hold along the prices and within a bar.  (RiskManager, the execution adapters.)
ExitsHold ==
    /\ market.kind = "prices" =>
          TrailingHolds(market.of.limits, market.of.avg, market.of.atr, market.of.prices)
    /\ market.kind = "exit" => ExitsAgree(market.of.bar, market.of.stop, market.of.target)
=============================================================================
