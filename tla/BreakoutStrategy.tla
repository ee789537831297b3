-------------------------- MODULE BreakoutStrategy --------------------------
(***************************************************************************)
(* The volatility breakout rules of the backtests                          *)
(* (src/src/backtesting/rule_based_strategy.py), as operators over a       *)
(* history d of bars and the number i of its last bar that has closed.     *)
(*                                                                         *)
(* prepare_indicators computes the indicators of the whole history once;   *)
(* every operator takes the whole history, as the code does.  Prices are   *)
(* integers; the width of the Bollinger band and the ADX are data of a     *)
(* bar, the other indicators are computed.  Windows are parameters.        *)
(***************************************************************************)
EXTENDS Integers, Sequences, FiniteSetsExt, Functions

CONSTANTS
    Window,        \* bars of the averages (20 in the code)
    RecentBars,    \* bars of the narrowest width (10)
    Donchian,      \* donchian_period
    Slack,         \* bars that generate_signal wants besides (5)
    TrendPeriod,   \* trend_ma_period
    AtrPeriod,     \* period of the ATR (14)
    ObvShort,      \* bars of the short OBV average and of the slope (5)
    AdxFrom,       \* the first bar with an ADX
    KTenths,       \* k_value, in tenths
    DynamicK,      \* use_dynamic_k
    FakeoutBars,   \* FAKEOUT_THRESHOLD_BARS
    TimeoutBars,   \* timeout_bars
    StopAtr,       \* STOP_LOSS_ATR_MULTIPLIER
    TakeAtr        \* TAKE_PROFIT_ATR_MULTIPLIER

ASSUME StrategyAssumption ==
    /\ {Window, RecentBars, Donchian, TrendPeriod, AtrPeriod, ObvShort, AdxFrom} \subseteq Nat \ {0}
    /\ {Slack, KTenths, FakeoutBars, TimeoutBars, StopAtr, TakeAtr} \subseteq Nat
    /\ DynamicK \in BOOLEAN
    /\ ObvShort <= Window
    /\ Window <= Donchian + Slack /\ AtrPeriod <= Donchian + Slack

Abs(x) == Max({x, 0 - x})

-----------------------------------------------------------------------------
(* Indicators.                                                             *)

TrueRange(d, i) ==
    LET before == IF i = 1 THEN {} ELSE {d[i - 1].close}
    IN Max({d[i].high - d[i].low} \cup
           UNION {{Abs(d[i].high - c), Abs(d[i].low - c)} : c \in before})

Atr(d, i) == SumFunction([j \in (i - AtrPeriod + 1) .. i |-> TrueRange(d, j)]) \div AtrPeriod

\* The on-balance volume after bar i.
Obv(d, i) ==
    d[1].volume
    + SumFunction([j \in 2 .. i |-> IF d[j].close > d[j - 1].close THEN d[j].volume
                                    ELSE IF d[j].close < d[j - 1].close THEN 0 - d[j].volume
                                    ELSE 0])

\* The highest high of the bars before bar i.
DonchianHigh(d, i) == Max({d[j].high : j \in (i - Donchian) .. (i - 1)})

\* K in tenths: the mean noise of the last bars, between 3 and 7; a bar without range
\* leaves the mean undefined.
KValue(d, i) ==
    LET rows == (i - Window + 1) .. i
        noise(j) == 10 - (10 * Abs(d[j].open - d[j].close)) \div (d[j].high - d[j].low)
    IN IF ~DynamicK \/ \E j \in rows : d[j].high = d[j].low THEN KTenths
       ELSE Max({3, Min({7, SumFunction([j \in rows |-> noise(j)]) \div Window})})

-----------------------------------------------------------------------------
(* The gates.                                                              *)

\* Gate 0.
TrendFilter(d, i) ==
    \/ i < TrendPeriod
    \/ d[i].close * TrendPeriod > SumFunction([j \in (i - TrendPeriod + 1) .. i |-> d[j].close])

\* Gate 1: the band was narrow just before, or there was no trend.  The width is
\* defined from bar Window on; the average is taken of the bars that have one.
Squeeze(d, i) ==
    LET rows == Max({Window, i - Window + 1}) .. i
        sum == SumFunction([j \in rows |-> d[j].width])
        recent == {d[j].width : j \in Max({Window, i - RecentBars + 1}) .. i}
    IN /\ i >= Window
       /\ \/ 10 * Min(recent) * Cardinality(rows) < 8 * sum
          \/ \E j \in {i - 1, i - 2} : j >= Window /\ d[j].width * Cardinality(rows) < sum
          \/ i - 1 >= AdxFrom /\ d[i - 1].adx < 25

\* Gate 2: a new high, or a move of K times the range of the day before.
Breakout(d, i) ==
    /\ i > Donchian
    /\ \/ d[i].close > DonchianHigh(d, i)
       \/ 10 * (d[i].close - d[i - 1].close) > KValue(d, i) * (d[i - 1].high - d[i - 1].low)

\* Wrong form: the volume is compared with the average of the whole history.
VolumeConfirmedWhole(d, i) ==
    /\ i > Window
    /\ 2 * d[i].volume * Len(d) > 3 * SumFunction([j \in DOMAIN d |-> d[j].volume])

\* Gate 3: the volume, or what the on-balance volume says.
VolumeConfirmed(d, i) ==
    LET obv == Obv(d, i)
        long == SumFunction([j \in (i - Window + 1) .. i |-> Obv(d, j)])
        short == SumFunction([j \in (i - ObvShort + 1) .. i |-> Obv(d, j)])
        above == obv * Window > long
    IN /\ i > Window
       /\ \/ 2 * d[i].volume * Window > 3 * SumFunction([j \in (i - Window) .. (i - 1) |-> d[j].volume])
          \/ above /\ short * Window > long * ObvShort
          \/ above /\ obv > Obv(d, i - ObvShort)
          \/ d[i].close > d[i - ObvShort + 1].close /\ obv > Obv(d, i - ObvShort + 1)

-----------------------------------------------------------------------------
(* Signals.                                                                *)

None == [action |-> "none", price |-> 0, stop |-> 0, take |-> 0]

Ready(i) == i >= Donchian + Slack

BuySignal(d, i) ==
    IF Ready(i) /\ TrendFilter(d, i) /\ Squeeze(d, i) /\ Breakout(d, i) /\ VolumeConfirmed(d, i)
    THEN [action |-> "buy", price |-> d[i].close,
          stop |-> d[i].close - StopAtr * Atr(d, i), take |-> d[i].close + TakeAtr * Atr(d, i)]
    ELSE None

\* Wrong form: the stop is not looked at.
MustSellLate(d, i, t) ==
    \/ i - t.bar <= FakeoutBars /\ 100 * d[i].close < 98 * t.entry
    \/ d[i].close >= t.take
    \/ i - t.bar > TimeoutBars /\ 100 * (d[i].close - t.entry) < 2 * t.entry

\* The five reasons to sell what is tracked as t: the stop, a false breakout, the
\* target, a trend that weakens, and no momentum.
MustSell(d, i, t) ==
    \/ d[i].close <= t.stop
    \/ i - t.bar <= FakeoutBars /\ 100 * d[i].close < 98 * t.entry
    \/ d[i].close >= t.take
    \/ i > AdxFrom /\ 10 * d[i].adx < 8 * d[i - 1].adx /\ d[i].adx < 20
    \/ i - t.bar > TimeoutBars /\ 100 * (d[i].close - t.entry) < 2 * t.entry

SellSignal(d, i) == [action |-> "sell", price |-> d[i].close, stop |-> 0, take |-> 0]

\* The stop that the sizing leaves in the signal: at least 1.5% away.
StopOf(s) ==
    IF s.stop > 0 /\ 1000 * (s.price - s.stop) < 15 * s.price
    THEN (985 * s.price) \div 1000 ELSE s.stop

\* calculate_position_size, in whole lots: 2% of the equity per distance to the stop,
\* at most 30% of it, at least 5%; 10% without a stop.  Equity is in the unit of price.
\* It is a fraction in the code, and never zero: at least a lot.
Size(s, equity) ==
    LET risk == Max({15 * s.price, Min({50 * s.price, 1000 * (s.price - s.stop)})})
        bySize == (20 * equity) \div risk
        lots == IF s.stop > 0
                THEN Max({(5 * equity) \div (100 * s.price),
                          Min({bySize, (30 * equity) \div (100 * s.price)})})
                ELSE equity \div (10 * s.price)
    IN Max({1, lots})
=============================================================================
