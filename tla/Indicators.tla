----------------------------- MODULE Indicators -----------------------------
(***************************************************************************)
(* The technical indicators of the live path                               *)
(* (src/src/trading/indicators.py), as operators over a sequence d of bars *)
(* [close, high, low, volume], the last one the newest.                    *)
(*                                                                         *)
(* A reading is the set of its value: {} is NaN.  Percentages are in       *)
(* hundredths, the other values in hundredths of the price unit, cut off   *)
(* towards zero.  Every period is a parameter.                             *)
(***************************************************************************)
EXTENDS Integers, Sequences, SequencesExt, FiniteSetsExt

CONSTANTS
    MaPeriods,      \* the three moving averages, short to long (5, 20, 60)
    EmaPeriods,     \* the exponential averages (12, 26, 50)
    MacdSpans,      \* fast, slow and signal span (12, 26, 9)
    Period,         \* RSI, ATR, stochastic, ADX, MFI, Williams %R (14)
    StochD,         \* %D (3)
    BandPeriod,     \* Bollinger and Keltner bands, average volume (20)
    CciPeriod,      \* 20
    RocPeriod,      \* 10
    TrendBars,      \* bars of the volume trend and of the flash crash (5)
    Lookback        \* bars of the divergence and of the levels (20)

ASSUME IndicatorsAssumption ==
    /\ MaPeriods \in Seq(Nat \ {0}) /\ Len(MaPeriods) = 3
    /\ EmaPeriods \in Seq(Nat \ {0}) /\ Len(EmaPeriods) = 3
    /\ MacdSpans \in Seq(Nat \ {0}) /\ Len(MacdSpans) = 3
    /\ {Period, StochD, BandPeriod, CciPeriod, RocPeriod, TrendBars, Lookback} \subseteq Nat \ {0}
    /\ BandPeriod > 1
    /\ TrendBars <= Period /\ Period <= TrendBars + Lookback

Hundred == 10000
Inf == 1000000000

Abs(x) == Max({x, 0 - x})
Quot(a, b) == IF (a < 0) = (b < 0) THEN Abs(a) \div Abs(b) ELSE 0 - Abs(a) \div Abs(b)
Ratio(a, b) ==
    IF b # 0 THEN {Quot(a, b)} ELSE IF a = 0 THEN {} ELSE {IF a > 0 THEN Inf ELSE 0 - Inf}

\* What `if x:` makes of a value that is there, and of one that is there or is NaN.
Truthy(r) == r \notin {{}, {0}}
TruthyOrNaN(r) == r # {0}

Above(r, s) == \E x \in r, y \in s : x > y
Over(r, c) == Above(r, {c})
Under(r, c) == Above({c}, r)

Total(F(_), first, last) == SumFunction([j \in first .. last |-> F(j)])

\* The mean of readings, which is NaN when one of them is.
MeanOf(F(_), first, last) ==
    IF first < 1 \/ \E j \in first .. last : F(j) = {} THEN {}
    ELSE {Quot(Total(LAMBDA j : CHOOSE x \in F(j) : TRUE, first, last), last - first + 1)}

\* A rolling mean of numbers at row i, in hundredths.
Rolling(F(_), period, i) == MeanOf(LAMBDA j : {100 * F(j)}, i - period + 1, i)

\* The share of up in up + down; the code divides up by down.
Share(up, down) == IF up + down = 0 THEN {} ELSE {(Hundred * up) \div (up + down)}

-----------------------------------------------------------------------------
Ma(d, period) == Rolling(LAMBDA j : d[j].close, period, Len(d))

\* ewm(span, adjust=False) of a series.
EwmOf(s, span) ==
    LET e[i \in 1 .. Len(s)] ==
            IF i = 1 THEN s[1] ELSE Quot((span - 1) * e[i - 1] + 2 * s[i], span + 1)
    IN [i \in 1 .. Len(s) |-> e[i]]

Closes(d) == [i \in 1 .. Len(d) |-> Hundred * d[i].close]
Ema(d, span) == {EwmOf(Closes(d), span)[Len(d)]}

MacdLine(d) ==
    LET fast == EwmOf(Closes(d), MacdSpans[1])
        slow == EwmOf(Closes(d), MacdSpans[2])
    IN [i \in 1 .. Len(d) |-> fast[i] - slow[i]]
MacdSignal(d) == EwmOf(MacdLine(d), MacdSpans[3])[Len(d)]
Macd(d) == MacdLine(d)[Len(d)]

Change(d, j) == IF j = 1 THEN 0 ELSE d[j].close - d[j - 1].close

Rsi(d, i) ==
    LET first == i - Period + 1
    IN IF first < 1 THEN {}
       ELSE Share(Total(LAMBDA j : Max({Change(d, j), 0}), first, i),
                  Total(LAMBDA j : Max({0 - Change(d, j), 0}), first, i))

TrueRange(d, j) ==
    LET closes == IF j = 1 THEN {} ELSE {d[j - 1].close}
    IN Max({d[j].high - d[j].low} \cup {Abs(d[j].high - c) : c \in closes}
                                  \cup {Abs(d[j].low - c) : c \in closes})
Atr(d, period) == Rolling(LAMBDA j : TrueRange(d, j), period, Len(d))

Highest(d, period, i) == Max({d[j].high : j \in (i - period + 1) .. i})
Lowest(d, period, i) == Min({d[j].low : j \in (i - period + 1) .. i})

StochasticK(d, i) ==
    IF i < Period THEN {}
    ELSE Ratio(Hundred * (d[i].close - Lowest(d, Period, i)),
               Highest(d, Period, i) - Lowest(d, Period, i))
StochasticD(d) == MeanOf(LAMBDA i : StochasticK(d, i), Len(d) - StochD + 1, Len(d))

\* Wrong form: the current bar is not in its own range.
WilliamsRBefore(d) ==
    LET n == Len(d)
    IN IF n < Period THEN {}
       ELSE Ratio(0 - Hundred * (Highest(d, Period, n - 1) - d[n].close),
                  Highest(d, Period, n - 1) - Lowest(d, Period, n - 1))

WilliamsR(d) ==
    LET n == Len(d)
    IN IF n < Period THEN {}
       ELSE Ratio(0 - Hundred * (Highest(d, Period, n) - d[n].close),
                  Highest(d, Period, n) - Lowest(d, Period, n))

\* The directional movement of a row, of which only the larger is kept; on a tie the
\* downward one.  The first row has no downward movement, which is NaN.
Rise(d, j) == Max({d[j].high - d[j - 1].high, 0})
Fall(d, j) == Max({d[j - 1].low - d[j].low, 0})
PlusDm(d, j) == IF j = 1 \/ Rise(d, j) <= Fall(d, j) THEN 0 ELSE Rise(d, j)
MinusDm(d, j) == IF Rise(d, j) > Fall(d, j) THEN 0 ELSE Fall(d, j)
RangeSum(d, i) == Total(LAMBDA j : TrueRange(d, j), i - Period + 1, i)
PlusSum(d, i) == Total(LAMBDA j : PlusDm(d, j), i - Period + 1, i)
MinusSum(d, i) == Total(LAMBDA j : MinusDm(d, j), i - Period + 1, i)
PlusDi(d, i) == IF i < Period THEN {} ELSE Ratio(Hundred * PlusSum(d, i), RangeSum(d, i))
MinusDi(d, i) == IF i <= Period THEN {} ELSE Ratio(Hundred * MinusSum(d, i), RangeSum(d, i))
Dx(d, i) ==
    IF i <= Period THEN {}
    ELSE Ratio(Hundred * Abs(PlusSum(d, i) - MinusSum(d, i)), PlusSum(d, i) + MinusSum(d, i))
Adx(d) == MeanOf(LAMBDA i : Dx(d, i), Len(d) - Period + 1, Len(d))

Obv(d, i) ==
    d[1].volume + Total(LAMBDA j : IF Change(d, j) > 0 THEN d[j].volume
                                   ELSE IF Change(d, j) < 0 THEN 0 - d[j].volume ELSE 0, 2, i)
ObvChange(d) ==
    LET n == Len(d) IN IF n < 2 THEN {0} ELSE Ratio(Hundred * (Obv(d, n) - Obv(d, n - 1)), Obv(d, n - 1))

\* Three times the typical price.
Typical(d, j) == d[j].high + d[j].low + d[j].close

Cci(d) ==
    LET n == Len(d)
        first == n - CciPeriod + 1
        sum == Total(LAMBDA j : Typical(d, j), first, n)
        off(j) == CciPeriod * Typical(d, j) - sum
    IN IF first < 1 THEN {}
       ELSE Ratio(100 * 1000 * off(n) * CciPeriod, 15 * Total(LAMBDA j : Abs(off(j)), first, n))

Mfi(d) ==
    LET n == Len(d)
        first == n - Period + 1
        flow(j) == Typical(d, j) * d[j].volume
        rows(Cmp(_, _)) == {j \in first .. n : j > 1 /\ Cmp(Typical(d, j), Typical(d, j - 1))}
    IN IF first < 1 THEN {}
       ELSE Share(MapThenSumSet(flow, rows(LAMBDA x, y : x > y)),
                  MapThenSumSet(flow, rows(LAMBDA x, y : x < y)))

Roc(d) ==
    LET n == Len(d)
    IN IF n <= RocPeriod THEN {}
       ELSE Ratio(Hundred * (d[n].close - d[n - RocPeriod].close), d[n - RocPeriod].close)

-----------------------------------------------------------------------------
(* Bands.  The deviation is a square root, so that prices are compared with *)
(* a band by squares: n (n - 1) times the variance is Spread.              *)

BandSum(d) == Total(LAMBDA j : d[j].close, Len(d) - BandPeriod + 1, Len(d))
Spread(d) ==
    BandPeriod * Total(LAMBDA j : d[j].close * d[j].close, Len(d) - BandPeriod + 1, Len(d))
    - BandSum(d) * BandSum(d)
Deviation(d) == BandPeriod * d[Len(d)].close - BandSum(d)
Beyond(d) == Deviation(d) * Deviation(d) * (BandPeriod - 1) >= 4 * BandPeriod * Spread(d)

\* Where the price lies; the lower band is asked first, so that it wins in a band of no width.
BandSide(d) ==
    IF Len(d) < BandPeriod THEN "nan"
    ELSE IF Deviation(d) <= 0 /\ Beyond(d) THEN "lower"
    ELSE IF Beyond(d) THEN "upper"
    ELSE IF Deviation(d) < 0 THEN "below" ELSE "above"

\* The band is wider than a tenth of its middle.
WideBand(d) ==
    /\ Len(d) >= BandPeriod
    /\ 1600 * BandPeriod * Spread(d) > BandSum(d) * BandSum(d) * (BandPeriod - 1)

\* Above the Keltner channel: the middle and two average ranges.
AboveKeltner(d) ==
    \E m \in Ma(d, BandPeriod), a \in Atr(d, BandPeriod) : 100 * d[Len(d)].close > m + 2 * a

-----------------------------------------------------------------------------
(* Volume, levels, flash crash.                                            *)

VolumeRatio(d) ==
    LET n == Len(d)
        sum == Total(LAMBDA j : d[j].volume, n - BandPeriod + 1, n)
    IN IF n < BandPeriod \/ sum = 0 THEN {} ELSE Ratio(100 * BandPeriod * d[n].volume, sum)

VolumeTrend(d) ==
    LET n == Len(d)
        pairs == (n - TrendBars + 2) .. n
    IN IF n < TrendBars THEN "none"
       ELSE IF \A j \in pairs : d[j - 1].volume <= d[j].volume THEN "increasing"
       ELSE IF \A j \in pairs : d[j - 1].volume >= d[j].volume THEN "decreasing" ELSE "stable"

\* The bars of df.tail, and the rows among them with a neighbour on each side.
Recent(d, bars) == Max({1, Len(d) - bars + 1}) .. Len(d)
Middle(d) == {i \in Recent(d, Lookback) : {i - 1, i + 1} \subseteq Recent(d, Lookback)}
Touches(d, prices, level) ==
    Cardinality({j \in Recent(d, Lookback) : 100 * Abs(prices[j] - level) < d[Len(d)].close})
Strength(touches) ==
    IF touches >= 3 THEN "strong" ELSE IF touches >= 2 THEN "moderate" ELSE "weak"

\* The lows under the price and the highs over it, each over three bars; the code lists the
\* nearest three, with repetitions.
SupportLevels(d) ==
    LET low == [j \in DOMAIN d |-> d[j].low]
    IN {[price |-> p, strength |-> Strength(Touches(d, low, p))] :
          p \in {x \in {Min({low[i - 1], low[i], low[i + 1]}) : i \in Middle(d)} : x < d[Len(d)].close}}
ResistanceLevels(d) ==
    LET high == [j \in DOMAIN d |-> d[j].high]
    IN {[price |-> p, strength |-> Strength(Touches(d, high, p))] :
          p \in {x \in {Max({high[i - 1], high[i], high[i + 1]}) : i \in Middle(d)} : x > d[Len(d)].close}}

\* A fall of more than a twentieth in TrendBars bars, more than twice what the ATR explains.
FlashCrash(d) ==
    LET n == Len(d)
        top == Highest(d, TrendBars, n)
        ranges == RangeSum(d, n)
    IN /\ n >= TrendBars + Lookback
       /\ 20 * (top - d[n].close) > top
       /\ ranges > 0
       /\ Period * (top - d[n].close) > 2 * TrendBars * ranges

-----------------------------------------------------------------------------
(* Divergence of price and RSI.                                            *)

\* scipy.signal.find_peaks over readings: the middle of every plateau that is higher than
\* both its sides and stands out by prominence.
FindPeaks(s, prominence) ==
    LET n == Len(s)
        less(i, j) == Above(s[j], s[i])
        edges == {p \in (1 .. n) \X (1 .. n) :
                    /\ 1 < p[1] /\ p[1] <= p[2] /\ p[2] < n
                    /\ \A i \in p[1] .. p[2] : s[i] = s[p[1]] /\ s[i] # {}
                    /\ less(p[1] - 1, p[1]) /\ less(p[2] + 1, p[2])}
        reach(i, side) == {j \in side : \A k \in Min({i, j}) .. Max({i, j}) : s[k] # {} /\ ~less(i, k)}
        depth(i, side) == Min(UNION {s[j] : j \in reach(i, side)})
        standsOut(i) == \A x \in s[i] :
                            x - Max({depth(i, 1 .. i), depth(i, i .. n)}) >= prominence
    IN {i \in {(p[1] + p[2]) \div 2 : p \in edges} : standsOut(i)}

\* The last two of a set of positions, and the fall of a series from one to the other.
LastPeak(P) == Max(P)
PeakBefore(P) == Max(P \ {Max(P)})
Falls(s, P) == Above(s[PeakBefore(P)], s[LastPeak(P)])
Rises(s, P) == Above(s[LastPeak(P)], s[PeakBefore(P)])

Negated(s) == [i \in DOMAIN s |-> {0 - x : x \in s[i]}]

RsiDivergence(d) ==
    LET n == Len(d)
        tail(F(_)) == [i \in 1 .. Lookback |-> F(n - Lookback + i)]
        highs == tail(LAMBDA j : {100 * d[j].high})
        lows == Negated(tail(LAMBDA j : {100 * d[j].low}))
        rsi == tail(LAMBDA j : Rsi(d, j))
        tops == FindPeaks(highs, 50)
        rsiTops == FindPeaks(rsi, 200)
        troughs == FindPeaks(lows, 50)
        rsiTroughs == FindPeaks(Negated(rsi), 200)
        two(P, Q) == Cardinality(P) >= 2 /\ Cardinality(Q) >= 2
        near(P, Q) == IF Abs(LastPeak(P) - LastPeak(Q)) < 3 THEN "high" ELSE "medium"
    IN IF n < Lookback + Period THEN [type |-> "none", confidence |-> "low"]
       ELSE IF two(tops, rsiTops) /\ Rises(highs, tops) /\ Falls(rsi, rsiTops)
            THEN [type |-> "bearish_divergence", confidence |-> near(tops, rsiTops)]
       ELSE IF two(troughs, rsiTroughs) /\ Rises(lows, troughs) /\ Falls(Negated(rsi), rsiTroughs)
            THEN [type |-> "bullish_divergence", confidence |-> near(troughs, rsiTroughs)]
       ELSE [type |-> "none", confidence |-> "low"]
=============================================================================
