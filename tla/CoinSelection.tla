--------------------------- MODULE CoinSelection ----------------------------
(***************************************************************************)
(* The scan for a coin to enter (src/src/scanner/, hybrid_stage.py): the   *)
(* most traded coins that are not held, one per sector, are synced and     *)
(* backtested, and what passes two gates is ranked.  The first of the      *)
(* ranking becomes the ticker of the cycle.                                *)
(*                                                                         *)
(* Metrics are in hundredths of the unit of the code, scores in tenths.    *)
(***************************************************************************)
EXTENDS DataSync, SequencesExt

CONSTANTS
    Sector,        \* Sector[c]; the value Unknown for a coin without one
    Unknown,
    Metrics,       \* the results that a backtest can have
    TopN,          \* liquidity_top_n
    BacktestTopN,  \* backtest_top_n
    FinalN,        \* final_select_n
    MinRows,       \* rows that a backtest needs
    FallbackCoin,  \* fallback_ticker
    ScanTimeout,   \* the two minutes of a scan, in ticks of the clock, rounded up
    MaxScans       \* bound of the scans

NoCoin == "none"

\* The numbers of a backtest that a gate looks at.
Floors == {"return", "win_rate", "profit_factor", "sharpe", "sortino", "calmar", "trades", "ratio"}
Ceilings == {"drawdown", "losses", "volatility", "holding"}

ASSUME SelectionAssumption ==
    /\ Sector \in [Coins -> STRING]
    /\ {TopN, BacktestTopN, FinalN, MinRows} \subseteq Nat \ {0}
    /\ \A m \in Metrics : \A f \in Floors \cup Ceilings : f \in DOMAIN m /\ m[f] \in Int
    /\ FallbackCoin \in Coins /\ NoCoin \notin Coins /\ MaxScans \in Nat
    /\ ScanTimeout \in 0 .. DayLength

VARIABLES
    stage,       \* where the scan is
    held,        \* coins of the account
    exclude,     \* exclude_tickers: those of the snapshot
    coins,       \* filtered_coins, by traded value
    chosen,      \* selected_coins, with their results
    ticker,      \* context.ticker, or none
    fallback,    \* the ticker is the fallback, not a selected coin (history)
    scanStart,   \* when the scan began (history)
    scans

scanVars == <<stage, held, exclude, coins, chosen, ticker, fallback, scanStart, scans>>
vars == <<syncVars, scanVars>>

Stages == {"idle", "sync", "picked"}

Init ==
    /\ SyncInit
    /\ stage = "idle"
    /\ held = {}
    /\ exclude = {} /\ coins = <<>> /\ chosen = <<>>
    /\ ticker = NoCoin /\ fallback = FALSE
    /\ scanStart = 0 /\ scans = 0

-----------------------------------------------------------------------------
(* The two gates.                                                          *)

ResearchPass ==
    [return |-> 800, win_rate |-> 3000, profit_factor |-> 130, sharpe |-> 40, sortino |-> 50,
     calmar |-> 25, trades |-> 1000, ratio |-> 100,
     drawdown |-> 3000, losses |-> 800, volatility |-> 10000, holding |-> 33600]

TradingPass ==
    [return |-> 900, win_rate |-> 3500, profit_factor |-> 150, sharpe |-> 70, sortino |-> 90,
     calmar |-> 40, trades |-> 1000, ratio |-> 100,
     drawdown |-> 2500, losses |-> 600, volatility |-> 8000, holding |-> 24000]

CheckFilters(m, config) ==
    /\ \A f \in Floors : m[f] >= config[f]
    /\ \A f \in Ceilings : m[f] <= config[f]

\* The expected result of a trade in R is at least 0.05.  The cost of a trade is no
\* part: it is divided by an average loss in KRW where a ratio is expected.
Expectancy(m) == m.win_rate * m.ratio >= 100 * (10000 - m.win_rate) + 50000

EvaluateTradingPass(m) == CheckFilters(m, TradingPass) /\ Expectancy(m)

Scale(x) == Max({0, Min({1000, x})})

\* _calculate_score: a weighted mean of six scaled metrics.
Score(m) ==
    (  20 * Scale((m.return * 333) \div 1000)
     + 10 * Scale(((m.win_rate - 3000) * 333) \div 1000)
     + 20 * Scale((m.profit_factor - 100) * 5)
     + 25 * Scale(m.sharpe * 5)
     + 15 * Scale(1000 - (m.drawdown \div 2))
     + 10 * Scale(m.sortino * 4) ) \div 100

Grade(score, passed) ==
    IF ~passed THEN "FAIL" ELSE IF score >= 700 THEN "STRONG PASS" ELSE "WEAK PASS"

FinalScore(r) ==
    (6 * r.score) \div 10
    + (IF r.grade = "STRONG PASS" THEN 280 ELSE IF r.grade = "WEAK PASS" THEN 200 ELSE 120)

-----------------------------------------------------------------------------
(* Choosing.                                                               *)

\* The elements of s at the places I, in an order of these places.
Ordered(s, I, order) ==
    [k \in 1 .. Cardinality(I) |->
        s[CHOOSE i \in I : Cardinality({j \in I : <<j, i>> \in order}) = k - 1]]

\* Sorting is stable: equal keys stay in order.
RankBy(s, Key(_)) ==
    Ordered(s, DOMAIN s, {t \in (DOMAIN s) \X (DOMAIN s) :
        \/ Key(s[t[1]]) > Key(s[t[2]])
        \/ Key(s[t[1]]) = Key(s[t[2]]) /\ t[1] < t[2]})

Top(s, n) == SubSeq(s, 1, Min({n, Len(s)}))
At(s, I) == Ordered(s, I, {t \in I \X I : t[1] < t[2]})
Where(s, Test(_)) == At(s, {i \in DOMAIN s : Test(s[i])})

\* The coins above the minimum of traded value, most traded first.  They trade already.
ScanTopCoins ==
    UNION {{s \in [1 .. n -> {c \in Coins : Listed[c] * DayLength < now}] : IsInjective(s)} :
           n \in 0 .. TopN}

\* The first coin of every sector, and none of the unknown sector.
SelectDiversified(s) ==
    LET Firsts == {i \in DOMAIN s : /\ Sector[s[i]] # Unknown
                                    /\ \A j \in 1 .. (i - 1) : Sector[s[j]] # Sector[s[i]]}
    IN Top(At(s, Firsts), TopN)

NoResult(c) == [coin |-> c, passed |-> FALSE, score |-> 0, grade |-> "FAIL", trading |-> FALSE]

\* _run_single_backtest: too few rows or an exception give an empty result.
BacktestResult(c, m) ==
    LET passed == CheckFilters(m, ResearchPass)
    IN [coin |-> c, passed |-> passed, score |-> Score(m), grade |-> Grade(Score(m), passed),
        trading |-> EvaluateTradingPass(m)]

Outcomes(c) ==
    {NoResult(c)} \cup
    (IF Cardinality(Loaded(c)) < MinRows THEN {} ELSE {BacktestResult(c, m) : m \in Metrics})

\* The best results by score, of which those that passed are candidates.
Candidates(res) ==
    Where(Top(RankBy(res, LAMBDA r : r.score), BacktestTopN), LAMBDA r : r.passed)

\* Wrong form: the trading pass is not applied.
SelectFinalUngated(res) ==
    Top(RankBy(Where(Candidates(res), LAMBDA r : FinalScore(r) >= 400), FinalScore), FinalN)

\* _apply_trading_pass, _select_final_coins.
SelectFinal(res) ==
    Top(RankBy(Where(Candidates(res), LAMBDA r : FinalScore(r) >= 400 /\ r.trading),
               FinalScore), FinalN)

-----------------------------------------------------------------------------
(* The scan.                                                               *)

\* Nothing to enter: the stage ends the cycle.
Skip ==
    /\ stage' = "idle"
    /\ exclude' = {} /\ coins' = <<>> /\ chosen' = <<>> /\ scanStart' = 0
    /\ ticker' = NoCoin /\ fallback' = FALSE

\* Wrong form: held coins are not left out.
ScanLiquidityAll ==
    /\ stage = "idle" /\ scans < MaxScans
    /\ scans' = scans + 1
    /\ \E top \in ScanTopCoins :
         LET list == SelectDiversified(top)
         IN /\ list # <<>>
            /\ coins' = list
            /\ job' = [c \in Coins |-> IF Contains(list, c) THEN [NoJob EXCEPT !.at = "wait"] ELSE NoJob]
    /\ stage' = "sync" /\ exclude' = held
    /\ scanStart' = now /\ hit' = {}
    /\ UNCHANGED <<now, file, unfinished, broken, torn, faults, held, chosen, ticker, fallback>>

\* The snapshot of held coins, the liquidity scan and the choice by sector.
ScanLiquidity ==
    /\ stage = "idle" /\ scans < MaxScans
    /\ scans' = scans + 1
    /\ \E top \in ScanTopCoins :
         LET list == SelectDiversified(Where(top, LAMBDA c : c \notin held))
         IN /\ list # <<>>
            /\ coins' = list
            /\ job' = [c \in Coins |-> IF Contains(list, c) THEN [NoJob EXCEPT !.at = "wait"] ELSE NoJob]
    /\ stage' = "sync" /\ exclude' = held
    /\ scanStart' = now /\ hit' = {}
    /\ UNCHANGED <<now, file, unfinished, broken, torn, faults, held, chosen, ticker, fallback>>

\* future.result gave up: the result is not looked at.
Late == now > scanStart + ScanTimeout

ClearJobs == job' = [c \in Coins |-> NoJob]

\* The backtests and the selection; whatever became of the syncs.
Backtest ==
    /\ stage = "sync" /\ SyncDone /\ ~Late
    /\ \E res \in [DOMAIN coins -> UNION {Outcomes(c) : c \in ToSet(coins)}] :
         /\ \A i \in DOMAIN coins : res[i] \in Outcomes(coins[i])
         /\ LET final == SelectFinal(res)
            IN IF final = <<>> THEN Skip
               ELSE /\ stage' = "picked" /\ chosen' = final
                    /\ ticker' = Head(final).coin
                    /\ UNCHANGED <<exclude, coins, fallback, scanStart>>
    /\ ClearJobs
    /\ UNCHANGED <<now, file, unfinished, broken, torn, hit, faults, held, scans>>

\* The scan raised or took more than two minutes: its thread is waited for, its result
\* dropped, and the fallback ticker taken.
TakeFallback ==
    /\ stage = "sync" /\ SyncDone
    /\ stage' = "picked" /\ ticker' = FallbackCoin /\ fallback' = TRUE
    /\ ClearJobs
    /\ UNCHANGED <<now, file, unfinished, broken, torn, hit, held, exclude, coins, chosen, scanStart, scans>>

ScanFails == TakeFallback /\ faults < MaxFaults /\ faults' = faults + 1
ScanLate == TakeFallback /\ Late /\ UNCHANGED faults

\* The rest of the cycle: the coin is bought, or not.
Enter ==
    /\ stage = "picked"
    /\ held' \in {held, held \cup {ticker}}
    /\ Skip
    /\ UNCHANGED <<syncVars, scans>>

\* Between two scans the owner sells a coin.
SellCoin ==
    /\ stage = "idle"
    /\ \E c \in held : held' = held \ {c}
    /\ UNCHANGED <<syncVars, stage, exclude, coins, chosen, ticker, fallback, scanStart, scans>>

\* The process dies.  A file that is just being written stays cut off.
Crash ==
    /\ stage # "idle"
    /\ faults < MaxFaults /\ faults' = faults + 1
    /\ broken' \in {broken} \cup {broken \cup {c} : c \in Syncing}
    /\ ClearJobs
    /\ Skip
    /\ UNCHANGED <<now, file, unfinished, torn, hit, held, scans>>

SyncNext ==
    /\ \/ \E c \in Coins : SyncStep(c)
       \/ SyncAllTimeout \/ Tick
    /\ UNCHANGED scanVars

Next == \/ SyncNext \/ ScanLiquidity \/ Backtest \/ ScanFails \/ ScanLate \/ Enter \/ SellCoin \/ Crash

\* The event loop of the scan does not stand still while something of it is due.
Progress ==
    \/ (\E c \in Coins : BeginSync(c) \/ FetchPage(c)) /\ UNCHANGED scanVars
    \/ Backtest
    \/ ScanLate

Spec == Init /\ [][Next]_vars /\ WF_vars(Progress)

-----------------------------------------------------------------------------
\* The types of the state.
TypeOK ==
    /\ SyncTypeOK
    /\ stage \in Stages
    /\ held \subseteq Coins /\ exclude \subseteq Coins
    /\ coins \in Seq(Coins)
    /\ \A i \in DOMAIN chosen : chosen[i].coin \in ToSet(coins)
    /\ ticker \in Coins \cup {NoCoin}

\* What a scan chooses was not held at its start, is the only one of its sector, was
\* backtested on enough rows and passed both gates.  (select_coins.)
ChosenPassedAllGates ==
    \A i \in DOMAIN chosen :
        LET c == chosen[i].coin
        IN /\ c \notin exclude
           /\ \A j \in DOMAIN chosen : i # j => Sector[c] # Sector[chosen[j].coin]
           /\ Cardinality(Loaded(c)) >= MinRows
           /\ \E m \in Metrics : /\ chosen[i].score = Score(m)
                                 /\ CheckFilters(m, ResearchPass) /\ EvaluateTradingPass(m)

\* The last day that began before the scan.
ScanDay == (scanStart - 1) \div DayLength

\* The history behind a choice reaches the day of the scan, unless a fault of this scan
\* concerned the coin or an earlier one tore its history.  (sync_multiple_coins, load_data.)
ChosenOnFreshData ==
    \A i \in DOMAIN chosen :
        chosen[i].coin \in hit \cup torn \/ ScanDay \in Loaded(chosen[i].coin)

\* A held coin is bought again only when the scan failed and the fallback was taken.
\* (_get_held_tickers, _handle_entry_mode.)
HeldBoughtByFallback == ticker \in exclude => fallback

\* Every scan ends, whatever times out.  (sync_multiple_coins, _run_coin_scan_sync.)
ScanEnds == stage = "sync" ~> stage # "sync"
=============================================================================
