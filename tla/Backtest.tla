------------------------------ MODULE Backtest ------------------------------
(***************************************************************************)
(* A backtest run (src/src/backtesting/backtester.py with its portfolio,   *)
(* execution adapters and statistics).  Every bar goes through the phases  *)
(* of the loop of run: exits within the bar, the order that waits, the     *)
(* signal, the valuation.                                                  *)
(*                                                                         *)
(* Fees and slippage are hundredths of a percent point Fee and Slip per    *)
(* hundred; money is counted in ten-thousandths, so that nothing of it is  *)
(* lost by rounding.                                                       *)
(***************************************************************************)
EXTENDS BreakoutStrategy, SequencesExt

CONSTANTS
    Histories,   \* the data that a run may get
    Capitals,    \* the capital that a run may start with
    Fee,         \* commission, per hundred
    Slip         \* slippage, per hundred

ASSUME BacktestAssumption ==
    /\ \A d \in Histories : d \in Seq([open : Nat, high : Nat, low : Nat, close : Nat,
                                       volume : Nat, width : Nat, adx : Nat])
    /\ <<>> \notin Histories
    /\ \A d \in Histories : \A i \in DOMAIN d :
          /\ 0 < d[i].low /\ d[i].low <= d[i].open /\ d[i].low <= d[i].close
          /\ d[i].open <= d[i].high /\ d[i].close <= d[i].high
    /\ Capitals \subseteq Nat /\ Fee \in 0 .. 99 /\ Slip \in 0 .. 99

VARIABLES
    data, initial, intrabar, nextOpen,   \* the arguments of the run
    i,          \* the bar
    phase,      \* the step of the loop
    cash,       \* Portfolio.cash
    pos,        \* the position, or NoPosition
    closed,     \* closed_trades
    pending,    \* pending_signal
    exits,      \* _current_stop_loss and _current_take_profit
    track,      \* current_position of the strategy
    curve,      \* equity_curve
    orders,     \* orders, with the bar and the price before slippage
    metrics,    \* the metrics of the result
    profit      \* the sum of the results of the closed trades (history)

vars == <<data, initial, intrabar, nextOpen, i, phase, cash, pos, closed, pending, exits, track,
          curve, orders, metrics, profit>>
args == <<data, initial, intrabar, nextOpen>>

Scale == 100 * 100

\* stop: the stop that the signal asked for (history).
NoPosition == [size |-> 0, entry |-> 0, fee |-> 0, bar |-> 0, price |-> 0, stop |-> 0]
NoTrack == [entry |-> 0, stop |-> 0, take |-> 0, bar |-> 0]
NoExits == [set |-> FALSE, stop |-> 0, take |-> 0]
NoMetrics == [done |-> FALSE]

Held == pos.size > 0
Bar == data[i]

Init ==
    /\ data \in Histories /\ initial \in Capitals
    /\ intrabar \in BOOLEAN /\ nextOpen \in BOOLEAN
    /\ i = 1 /\ phase = "exit"
    /\ cash = initial * Scale
    /\ pos = NoPosition /\ track = NoTrack /\ exits = NoExits
    /\ closed = <<>> /\ curve = <<>> /\ orders = <<>>
    /\ pending = None
    /\ metrics = NoMetrics /\ profit = 0

-----------------------------------------------------------------------------
(* The portfolio.                                                          *)

Equity == cash + pos.size * pos.price * Scale

\* What a purchase or a sale at a price in hundredths moves.
Cost(size, paid) == size * paid * (100 + Fee)
Proceeds(size, paid) == size * paid * (100 - Fee)

Order(side, bar, price) == orders' = Append(orders, [side |-> side, bar |-> bar, price |-> price])

\* open_position; too little cash is swallowed by the caller.  paid is in hundredths.
OpenPosition(s, price) ==
    LET paid == price * (100 + Slip)
        size == Size(s, Equity \div Scale)
    IN IF Cost(size, paid) > cash
       THEN UNCHANGED <<cash, pos, orders, exits>>
       ELSE /\ cash' = cash - Cost(size, paid)
            /\ pos' = [size |-> size, entry |-> paid, fee |-> size * paid * Fee,
                       bar |-> i, price |-> (paid \div 100), stop |-> s.stop]
            /\ exits' = [set |-> TRUE, stop |-> StopOf(s), take |-> s.take]
            /\ Order("buy", i, price)

\* Wrong form: the fee of the purchase is no part of the result.
ClosePositionGross(price, slip) ==
    LET paid == price * (100 - slip)
        net == Proceeds(pos.size, paid)
    IN /\ cash' = cash + net
       /\ closed' = Append(closed, net - pos.size * pos.entry * 100)
       /\ profit' = profit + net - pos.size * pos.entry * 100
       /\ pos' = NoPosition
       /\ exits' = NoExits
       /\ Order("sell", i, price)

\* close_position, at a price with the slippage that applies.
ClosePosition(price, slip) ==
    LET paid == price * (100 - slip)
        net == Proceeds(pos.size, paid)
    IN /\ cash' = cash + net
       /\ closed' = Append(closed, net - (pos.size * pos.entry * 100 + pos.fee))
       /\ profit' = profit + net - (pos.size * pos.entry * 100 + pos.fee)
       /\ pos' = NoPosition
       /\ exits' = NoExits
       /\ Order("sell", i, price)

\* _execute_order.
Execute(s, price) ==
    \/ s.action = "buy" /\ OpenPosition(s, price) /\ UNCHANGED <<closed, profit>>
    \/ s.action = "sell" /\ Held /\ ClosePosition(price, Slip)
    \/ s.action = "sell" /\ ~Held /\ UNCHANGED <<cash, pos, closed, profit, exits, orders>>

-----------------------------------------------------------------------------
(* The loop.                                                               *)

StopHit == Bar.low <= exits.stop
TakeHit == Bar.high >= exits.take

\* IntrabarExecutionAdapter: the stop comes first; a gap is filled at the open.
ExitPrice == IF StopHit THEN Min({exits.stop, Bar.open}) ELSE Max({exits.take, Bar.open})

\* _check_intrabar_exit.  An exit cancels the order that waits.
CheckExit ==
    /\ phase = "exit" /\ phase' = "fill"
    /\ IF intrabar /\ Held /\ exits.set /\ (StopHit \/ TakeHit)
       THEN ClosePosition(ExitPrice, 0) /\ pending' = None
       ELSE UNCHANGED <<cash, pos, closed, profit, exits, orders, pending>>
    /\ UNCHANGED <<args, i, track, curve, metrics>>

\* The signal of the bar before is filled at the open.
FillPending ==
    /\ phase = "fill" /\ phase' = "signal"
    /\ IF nextOpen /\ pending # None
       THEN Execute(pending, Bar.open)
       ELSE UNCHANGED <<cash, pos, closed, profit, exits, orders>>
    /\ pending' = None
    /\ UNCHANGED <<args, i, track, curve, metrics>>

\* Wrong form: what is tracked survives the position.
TrackedStale ==
    IF Held /\ track = NoTrack
    THEN [entry |-> pos.entry \div 100, stop |-> (98 * pos.entry) \div 10000,
          take |-> (103 * pos.entry) \div 10000, bar |-> i]
    ELSE track

\* What generate_signal tracks, after it has looked at the portfolio.
Tracked ==
    IF ~Held THEN NoTrack
    ELSE IF track = NoTrack
    THEN [entry |-> pos.entry \div 100, stop |-> (98 * pos.entry) \div 10000,
          take |-> (103 * pos.entry) \div 10000, bar |-> i]
    ELSE track

Signal ==
    IF ~Held THEN BuySignal(data, i)
    ELSE IF Ready(i) /\ MustSell(data, i, Tracked) THEN SellSignal(data, i) ELSE None

TrackAfter(s) ==
    CASE s.action = "buy" -> [entry |-> s.price, stop |-> s.stop, take |-> s.take, bar |-> i]
      [] s.action = "sell" -> NoTrack
      [] OTHER -> IF Ready(i) THEN Tracked ELSE track

\* generate_signal, and the order: at the next open, of which the last bar has none, or
\* at the close.
Decide ==
    /\ phase = "signal" /\ phase' = "value"
    /\ track' = TrackAfter(Signal)
    /\ IF nextOpen
       THEN /\ pending' = IF i < Len(data) THEN Signal ELSE None
            /\ UNCHANGED <<cash, pos, closed, profit, exits, orders>>
       ELSE /\ IF Signal = None THEN UNCHANGED <<cash, pos, closed, profit, exits, orders>>
               ELSE Execute(Signal, Bar.close)
            /\ UNCHANGED pending
    /\ UNCHANGED <<args, i, curve, metrics>>

\* The position is valued at the close; on to the next bar.
Value ==
    /\ phase = "value"
    /\ pos' = IF Held THEN [pos EXCEPT !.price = Bar.close] ELSE pos
    /\ curve' = Append(curve, cash + pos.size * Bar.close * Scale)
    /\ IF i = Len(data) THEN phase' = "analyze" /\ i' = i
       ELSE phase' = "exit" /\ i' = i + 1
    /\ UNCHANGED <<args, cash, closed, profit, pending, exits, track, orders, metrics>>
-----------------------------------------------------------------------------
(* The statistics.                                                         *)

\* The trades whose result has the sign.
TradesOf(sign) ==
    FoldLeft(LAMBDA a, p : IF sign * p > 0 THEN Append(a, p) ELSE a, <<>>, closed)
Won == TradesOf(1)
Lost == TradesOf(-1)
SumOf(s) == FoldLeft(LAMBDA a, p : a + p, 0, s)

\* _max_consecutive, of the trades whose result has the sign.
MaxConsecutive(sign) ==
    FoldLeft(LAMBDA a, p : IF sign * p > 0 THEN [now |-> a.now + 1, max |-> Max({a.max, a.now + 1})]
                           ELSE [a EXCEPT !.now = 0],
             [now |-> 0, max |-> 0], closed).max

\* Wrong form: a streak that lasts to the end is not counted.
LossStreaksClosed ==
    FoldLeft(LAMBDA a, p :
                 IF p < 0 THEN [a EXCEPT !.now = @ + 1]
                 ELSE [now |-> 0, list |-> IF a.now > 0 THEN Append(a.list, a.now) ELSE a.list],
             [now |-> 0, list |-> <<>>], closed).list

\* The losing streaks of _analyze_worst_loss_trades: a list of their lengths.
LossStreaks ==
    LET walk == FoldLeft(LAMBDA a, p :
                    IF p < 0 THEN [a EXCEPT !.now = @ + 1]
                    ELSE [now |-> 0, list |-> IF a.now > 0 THEN Append(a.list, a.now) ELSE a.list],
                    [now |-> 0, list |-> <<>>], closed)
    IN IF walk.now > 0 THEN Append(walk.list, walk.now) ELSE walk.list

\* _calculate_max_drawdown, in whole percents.
MaxDrawdown ==
    Max({(100 * (curve[kj[1]] - curve[kj[2]])) \div curve[kj[1]] :
            kj \in {x \in (DOMAIN curve) \X (DOMAIN curve) : x[1] <= x[2]}})

Analyze ==
    /\ phase = "analyze" /\ phase' = "done"
    /\ metrics' = [done |-> TRUE, gain |-> Last(curve) - initial * Scale,
                   trades |-> Len(closed), wins |-> Len(Won), losses |-> Len(Lost),
                   won |-> SumOf(Won), lost |-> SumOf(Lost),
                   unbeaten |-> Lost = <<>>,    \* profit_factor is infinite
                   winStreak |-> MaxConsecutive(1),
                   lossStreak |-> MaxConsecutive(-1),
                   worstStreak |-> Max(ToSet(LossStreaks) \cup {0}),
                   drawdown |-> MaxDrawdown]
    /\ UNCHANGED <<args, i, cash, pos, closed, profit, pending, exits, track, curve, orders>>

Next == CheckExit \/ FillPending \/ Decide \/ Value \/ Analyze

Spec == Init /\ [][Next]_vars

-----------------------------------------------------------------------------
\* The types of the state.
TypeOK ==
    /\ i \in 1 .. Len(data)
    /\ phase \in {"exit", "fill", "signal", "value", "analyze", "done"}
    /\ cash \in Nat
    /\ {pos.size, pos.entry, pos.fee, pos.price} \subseteq Nat /\ pos.bar \in 0 .. i
    /\ pending.action \in {"none", "buy", "sell"}
    /\ track.bar \in 0 .. i
    /\ Len(curve) = IF phase \in {"analyze", "done"} THEN i ELSE i - 1

\* The cash is the capital and the results of the closed trades, less what the open
\* position cost: no order, exit or overwritten position loses money from the books.
\* (Portfolio.open_position, close_position.)
CashAccounted ==
    cash = initial * Scale + profit - (pos.size * pos.entry * 100 + pos.fee)

\* Every order fills at a price that its bar has traded at, also after a gap, and the
\* orders alternate.  (_check_intrabar_exit, _execute_order.)
FillsWithinBar ==
    \A k \in DOMAIN orders :
        /\ data[orders[k].bar].low <= orders[k].price
        /\ orders[k].price <= data[orders[k].bar].high
        /\ orders[k].side = IF k % 2 = 1 THEN "buy" ELSE "sell"

\* No position outlives its stop: a close at or below that of the signal is followed by a
\* sale at the next open (or at that close), and in the intrabar mode no later bar than
\* that of the entry touches the one that the sizing left.  (generate_signal,
\* _check_intrabar_exit.)
StopHonoured ==
    (Held /\ phase \in {"signal", "value"}) =>
        /\ \A j \in (IF nextOpen THEN pos.bar ELSE pos.bar + 1) .. (i - 1) : data[j].close > pos.stop
        /\ intrabar => \A j \in (pos.bar + 1) .. i : data[j].low > exits.stop

\* What is executed could have been: within the bar, and no later than a stop asks for.
\* (_execute_order, _check_intrabar_exit.)
ExecutionHonest == FillsWithinBar /\ StopHonoured

\* What is decided from the indicators of the whole history is what the history up to
\* the bar would have decided.  (prepare_indicators, generate_signal.)
NoLookAhead ==
    phase = "signal" => BuySignal(data, i) = BuySignal(SubSeq(data, 1, i), i)

\* The strategy tracks a position exactly when there is one that is not about to be sold,
\* or one is about to be bought; but for the rest of a bar at whose close the cash did not
\* reach for a purchase.  (generate_signal, run.)
Refused == ~nextOpen /\ ~Held /\ track.bar = i
TrackingInSync ==
    (phase = "value" /\ i < Len(data)) =>
        ((track # NoTrack) <=>
            (pending.action = "buy" \/ (Held /\ pending.action # "sell") \/ Refused))

\* When the run ends without a position, its trades explain the whole gain, and the two
\* ways to count losing streaks agree.  (calculate_metrics, _analyze_worst_loss_trades.)
ReportConsistent ==
    metrics.done =>
        /\ ~Held => metrics.gain = metrics.won + metrics.lost
        /\ metrics.lossStreak = metrics.worstStreak
        /\ metrics.winStreak <= metrics.wins /\ metrics.lossStreak <= metrics.losses
        /\ metrics.unbeaten /\ ~Held => metrics.gain >= 0
=============================================================================
