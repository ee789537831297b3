--------------------------- MODULE EntryPipeline ----------------------------
(***************************************************************************)
(* The hybrid pipeline of trading_job on one exchange account.  A cycle    *)
(* takes a snapshot of the portfolio, decides from it whether a new        *)
(* position may be opened, scans for minutes for a coin, waits for the AI  *)
(* and then orders; nothing of the snapshot is looked at again.  Cycles    *)
(* that overlap (two jobs of one process, two processes, /run) share the   *)
(* account and nothing else.                                               *)
(*                                                                         *)
(* Money is counted in units of KRW, a holding by its value at the current *)
(* price.  Exchange fees are below the unit.  A behaviour is within a day. *)
(*                                                                         *)
(* The portfolio circuit breaker never opens and is no action here:        *)
(* PortfolioManager is built anew in every cycle with its daily and weekly *)
(* result at zero, and record_trade_result is only called by _execute_exit,*)
(* which has no caller.                                                    *)
(***************************************************************************)
EXTENDS Integers, FiniteSets, Functions

CONSTANTS
  Cycles,        \* cycles that can be in flight at once
  Tickers,       \* coins the scan can select
  Fallback,      \* fallback_ticker, used when the scan raises
  MaxPositions,  \* MAX_POSITIONS
  MinPosition,   \* MIN_POSITION_VALUE
  MinOrder,      \* MIN_ORDER_AMOUNT
  InitCash,      \* the account at the start: cash,
  InitValues,    \* and what the owner may hold of a coin
  Swing,         \* factor of a price move
  MaxMoves,      \* bound: price moves
  MaxFaults,     \* bound: failed reads of the portfolio
  MaxSells       \* bound: accepted sell orders

ASSUME PipelineAssumption ==
  /\ IsFiniteSet(Cycles) /\ Cycles # {}
  /\ IsFiniteSet(Tickers) /\ Fallback \in Tickers
  /\ {MaxPositions, MinPosition, MinOrder} \subseteq Nat \ {0}
  /\ InitCash \subseteq Nat /\ InitValues \subseteq Nat
  /\ Swing \in Nat \ {0}
  /\ {MaxMoves, MaxFaults, MaxSells} \subseteq Nat

VARIABLES
  cash,    \* external: KRW balance
  value,   \* external: value[t] = worth of the coins of t at the current price
  cost,    \* external: cost[t] = what was paid for them (avg_buy_price * amount)
  stage,   \* stage[c]: how far cycle c is
  seen,    \* seen[c]: positions in the snapshot of cycle c
  target,  \* target[c]: context.ticker
  amount,  \* amount[c]: what cycle c is about to order
  buys,    \* accepted buy orders
  sells,   \* accepted sell orders
  lossy,   \* a sell of this day lost a tenth of its cost or more
  rises,   \* price moves up
  falls,   \* price moves down
  faults   \* failed reads of the portfolio

account == <<cash, value, cost, buys, sells, lossy>>
cycle == <<stage, seen, target, amount>>
market == <<rises, falls>>
vars == <<account, cycle, market, faults>>

Stage == {"idle", "scan", "decide", "order"}

TypeOK ==
  /\ cash \in Nat
  /\ value \in [Tickers -> Nat]
  /\ cost \in [Tickers -> Nat]
  /\ stage \in [Cycles -> Stage]
  /\ seen \in [Cycles -> SUBSET Tickers]
  /\ target \in [Cycles -> Tickers]
  /\ amount \in [Cycles -> Nat]
  /\ {buys, sells, rises, falls, faults} \subseteq Nat
  /\ lossy \in BOOLEAN

\* What get_portfolio_status counts as a position.
Positions == {t \in Tickers : value[t] >= MinPosition}

Init ==
  /\ cash \in InitCash
  /\ value \in [Tickers -> InitValues]
  /\ Cardinality(Positions) <= MaxPositions
  /\ cost = value
  /\ stage = [c \in Cycles |-> "idle"]
  /\ seen = [c \in Cycles |-> {}]
  /\ target = [c \in Cycles |-> Fallback]
  /\ amount = [c \in Cycles |-> 0]
  /\ buys = 0 /\ sells = 0 /\ lossy = FALSE
  /\ rises = 0 /\ falls = 0 /\ faults = 0

GoTo(c, from, to) ==
  /\ stage[c] = from
  /\ stage' = [stage EXCEPT ![c] = to]

\* Cash and the positions the snapshot knows of.
Capital(known) == cash + SumFunctionOnSet(value, known)

-----------------------------------------------------------------------------
(* Wrong forms, for testing the properties.                                 *)

\* One position too many.
MayOpenOneMore(known) == Cardinality(known) <= MaxPositions

\* The reserve is not subtracted from the cash.
AvailableWithoutReserve(known) ==
  IF 10 * cash < 4 * Capital(known) THEN 10 * cash ELSE 4 * Capital(known)

-----------------------------------------------------------------------------
\* min(cash - 10% of the capital, 40% of the capital), in tenths of a unit.
AvailableTenths(known) ==
  LET reserve == Capital(known)
      perCoin == 4 * Capital(known)
  IN  IF 10 * cash - reserve < perCoin THEN 10 * cash - reserve ELSE perCoin

MayOpen(known) == Cardinality(known) < MaxPositions

(* HybridRiskCheckStage reads the cash, all balances and the price of each  *)
(* coin.  If the balances come back empty, or a price is missing, the       *)
(* snapshot misses positions without an error.  Without room, or with less  *)
(* available than a minimum position, the cycle ends here.                  *)
Assess(c) ==
  \E known \in SUBSET Positions :
    /\ \/ known = Positions /\ UNCHANGED faults
       \/ known # Positions /\ faults < MaxFaults /\ faults' = faults + 1
    /\ MayOpen(known)
    /\ AvailableTenths(known) >= 10 * MinPosition
    /\ GoTo(c, "idle", "scan")
    /\ seen' = [seen EXCEPT ![c] = known]
    /\ UNCHANGED <<account, target, amount, market>>

(* The scan selects a coin that is not in the snapshot.  If it raises, the  *)
(* fallback ticker is used, held or not.                                    *)
Scan(c) ==
  /\ GoTo(c, "scan", "decide")
  /\ \E t \in (Tickers \ seen[c]) \cup {Fallback} :
       target' = [target EXCEPT ![c] = t]
  /\ UNCHANGED <<account, seen, amount, market, faults>>

(* Decision "buy": the amount is 95% of the cash there is now; the capital  *)
(* computed by the portfolio manager (entry_capital) is not used.  Less     *)
(* than a minimum order becomes 0, which the use case refuses.              *)
ReadCash(c) ==
  /\ (95 * cash) \div 100 >= MinOrder
  /\ GoTo(c, "decide", "order")
  /\ amount' = [amount EXCEPT ![c] = (95 * cash) \div 100]
  /\ UNCHANGED <<account, seen, target, market, faults>>

(* The exchange accepts the market order if the cash still covers it.       *)
Buy(c) ==
  /\ amount[c] <= cash
  /\ GoTo(c, "order", "idle")
  /\ cash' = cash - amount[c]
  /\ value' = [value EXCEPT ![target[c]] = @ + amount[c]]
  /\ cost' = [cost EXCEPT ![target[c]] = @ + amount[c]]
  /\ buys' = buys + 1
  /\ UNCHANGED <<sells, lossy, seen, target, amount, market, faults>>

(* Decision "sell": execute_sell_all sells whatever is held of the ticker.  *)
Sell(c) ==
  LET t == target[c] IN
  /\ sells < MaxSells
  /\ value[t] >= MinOrder
  /\ GoTo(c, "decide", "idle")
  /\ cash' = cash + value[t]
  /\ value' = [value EXCEPT ![t] = 0]
  /\ cost' = [cost EXCEPT ![t] = 0]
  /\ sells' = sells + 1
  /\ lossy' = (lossy \/ 10 * value[t] <= 9 * cost[t])
  /\ UNCHANGED <<buys, seen, target, amount, market, faults>>

(* The cycle ends without an order: nothing selected, decision "hold", no   *)
(* data, the backtest filter, an order refused, the timeout, a crash.       *)
Stop(c) ==
  /\ stage[c] # "idle"
  /\ stage' = [stage EXCEPT ![c] = "idle"]
  /\ UNCHANGED <<account, seen, target, amount, market, faults>>

Rise(t) ==
  /\ rises + falls < MaxMoves
  /\ value[t] > 0
  /\ value' = [value EXCEPT ![t] = @ * Swing]
  /\ rises' = rises + 1
  /\ UNCHANGED <<cash, cost, buys, sells, lossy, cycle, falls, faults>>

Fall(t) ==
  /\ rises + falls < MaxMoves
  /\ value[t] > 0
  /\ value' = [value EXCEPT ![t] = @ \div Swing]
  /\ falls' = falls + 1
  /\ UNCHANGED <<cash, cost, buys, sells, lossy, cycle, rises, faults>>

CycleStep(c) ==
  Assess(c) \/ Scan(c) \/ ReadCash(c) \/ Buy(c) \/ Sell(c) \/ Stop(c)

Next ==
  \/ \E c \in Cycles : CycleStep(c)
  \/ \E t \in Tickers : Rise(t) \/ Fall(t)

Spec == Init /\ [][Next]_vars

-----------------------------------------------------------------------------
(* MAX_POSITIONS is checked against the snapshot and never again.  Still    *)
(* the positions exceed it by no more than the cycles that overlap, the     *)
(* failed reads, and the coins whose price rose to the worth of a position. *)
PositionsBounded ==
  Cardinality(Positions)
    <= MaxPositions + (Cardinality(Cycles) - 1) + rises + faults

(* The capital of the account is committed once: after an entry the reserve *)
(* of 10% keeps all later cycles from a second one, until a sale, a price   *)
(* move or a failed read changes what the snapshot shows.  Each cycle in    *)
(* flight at such a change may order once.                                  *)
CapitalCommittedOnce ==
  buys <= Cardinality(Cycles) * (1 + sells + rises + falls + faults)

(* Documented: at most 40% of the capital for one coin (ARCHITECTURE.md,    *)
(* PortfolioManager): no cycle is about to order more than that.            *)
ShareKept ==
  \A c \in Cycles : stage[c] = "order" => 10 * amount[c] <= 4 * Capital(Positions)

(* Documented: a daily loss of 10% blocks trading (ARCHITECTURE.md,         *)
(* PortfolioManager): with one cycle at a time, none orders after it.       *)
BreakerKept == lossy => \A c \in Cycles : stage[c] # "order"
=============================================================================
