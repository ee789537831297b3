----------------------------- MODULE MarketRules -----------------------------
(***************************************************************************)
(* What the rules make of the indicators of a market: the signal scores    *)
(* (src/src/trading/signal_analyzer.py), the market summary and the        *)
(* breakout filter of the domain, the slippage estimate and the market     *)
(* beta.  Scores of signals are in halves of a point.                      *)
(***************************************************************************)
EXTENDS Indicators

CONSTANTS
    MaxSlippage,     \* SlippageConfig.MAX_SLIPPAGE_PCT, in hundredths of a percent
    BetaDays         \* lookback_days of beta and correlation (30)

ASSUME RulesAssumption == MaxSlippage \in Nat /\ BetaDays \in Nat \ {0, 1}

-----------------------------------------------------------------------------
(* Signals.  A rule is the points it gives to buying and to selling and    *)
(* the number of sentences it adds.                                        *)

Buy(points) == [buy |-> points, sell |-> 0, said |-> 1]
Sell(points) == [buy |-> 0, sell |-> points, said |-> 1]
Silent == [buy |-> 0, sell |-> 0, said |-> 0]
Remark == [Silent EXCEPT !.said = 1]
Unsaid(s) == [s EXCEPT !.said = 0]
Plus(s, t) == [buy |-> s.buy + t.buy, sell |-> s.sell + t.sell, said |-> s.said + t.said]
AllOf(rules) ==
    [buy |-> Total(LAMBDA i : rules[i].buy, 1, Len(rules)),
     sell |-> Total(LAMBDA i : rules[i].sell, 1, Len(rules)),
     said |-> Total(LAMBDA i : rules[i].said, 1, Len(rules))]

\* A comparison of two averages: what is not above, NaN too, counts as below.
Leads(r, s, points) ==
    IF ~TruthyOrNaN(r) \/ ~TruthyOrNaN(s) THEN Silent
    ELSE IF Above(r, s) THEN Buy(points) ELSE Sell(points)

\* Points for a reading under one limit or over another.
Extremes(r, low, high, points) ==
    IF Truthy(r) /\ Under(r, low) THEN Buy(points)
    ELSE IF Truthy(r) /\ Over(r, high) THEN Sell(points) ELSE Silent

Trend(d) ==
    LET price == {100 * d[Len(d)].close}
        ma == [i \in 1 .. 3 |-> Ma(d, MaPeriods[i])]
        histogram == Macd(d) - MacdSignal(d)
        rules == AllOf(<<
            Leads(ma[1], ma[2], 2), Leads(ma[2], ma[3], 2), Leads(price, ma[2], 1),
            Leads(Ema(d, EmaPeriods[1]), Ema(d, EmaPeriods[2]), 2),
            IF 0 \in {Macd(d), MacdSignal(d)} THEN Silent ELSE Leads({Macd(d)}, {MacdSignal(d)}, 3),
            Unsaid(IF histogram > 0 THEN Buy(1) ELSE IF histogram < 0 THEN Sell(1) ELSE Silent)>>)
        adx == Adx(d)
    IN IF ~Truthy(adx) \/ ~(Over(adx, 2500) \/ Under(adx, 2000)) THEN rules
       ELSE IF Under(adx, 2000) \/ rules.buy = rules.sell THEN Plus(rules, Remark)
       ELSE Plus(rules, IF rules.buy > rules.sell THEN Buy(1) ELSE Sell(1))

RsiRule(rsi) ==
    IF ~Truthy(rsi) THEN Silent
    ELSE IF Under(rsi, 3000) THEN Buy(4) ELSE IF Under(rsi, 4000) THEN Buy(2)
    ELSE IF Over(rsi, 7000) THEN Sell(4) ELSE IF Over(rsi, 6000) THEN Sell(2) ELSE Remark

StochasticRule(k, e) ==
    IF ~Truthy(k) \/ ~Truthy(e) THEN Silent
    ELSE IF Under(k, 2000) /\ Under(e, 2000) THEN Buy(3)
    ELSE IF Over(k, 8000) /\ Over(e, 8000) THEN Sell(3)
    ELSE IF Above(k, e) THEN Buy(1) ELSE Sell(1)

Momentum(d) ==
    LET n == Len(d)
    IN AllOf(<<RsiRule(Rsi(d, n)), StochasticRule(StochasticK(d, n), StochasticD(d)),
               Extremes(Mfi(d), 2000, 8000, 2), Extremes(WilliamsR(d), -8000, -2000, 2)>>)

Volatility(d) ==
    LET side == BandSide(d)
        price == d[Len(d)].close
    IN AllOf(<<
        IF side = "lower" THEN Buy(4) ELSE IF side = "upper" THEN Sell(4)
        ELSE IF side = "below" THEN Buy(1) ELSE Sell(1),
        IF WideBand(d) THEN Remark ELSE Silent,
        Extremes(Cci(d), -10000, 10000, 2),
        IF \E a \in Atr(d, Period) : a > 5 * price THEN Remark ELSE Silent>>)

VolumeRule(d) ==
    LET change == ObvChange(d)
    IN IF Over(change, 500) THEN Buy(2) ELSE IF Under(change, -500) THEN Sell(2) ELSE Silent

Advice(total) ==
    IF total > 6 THEN "strong_buy" ELSE IF total > 2 THEN "buy"
    ELSE IF total < -6 THEN "strong_sell" ELSE IF total < -2 THEN "sell" ELSE "hold"

Confidence(strength, said) ==
    IF strength >= 10 /\ said >= 8 THEN "high"
    ELSE IF strength >= 6 /\ said >= 5 THEN "medium"
    ELSE IF strength >= 2 THEN "low" ELSE "very_low"

Scores(d) == AllOf(<<Trend(d), Momentum(d), Volatility(d), VolumeRule(d)>>)
Verdict(sum) ==
    LET total == sum.buy - sum.sell
    IN [advice |-> Advice(total), total |-> total, confidence |-> Confidence(Abs(total), sum.said)]
AnalyzeSignals(d) == Verdict(Scores(d))

-----------------------------------------------------------------------------
(* Summary and filter.  i holds readings by name: price, atr, adx, rsi,    *)
(* histogram, volume (the ratio, in hundredths), band (hundredths); a      *)
(* missing one is {}.                                                      *)

Default(r, c) == IF r = {} THEN c ELSE CHOOSE x \in r : TRUE

\* ATR in thousandths of the price, rounded half to even.
AtrPercent(i) ==
    LET price == Default(i.price, 1)
        halves == (2000 * Default(i.atr, 0)) \div price
        rest == (2000 * Default(i.atr, 0)) % price
        tenths == halves \div 2
    IN tenths + (IF halves % 2 = 1 /\ (rest > 0 \/ tenths % 2 = 1) THEN 1 ELSE 0)

DetectRegime(i) ==
    LET adx == Default(i.adx, 0)
        histogram == Default(i.histogram, 0)
        rsi == Default(i.rsi, 5000)
    IN IF 100 * Default(i.atr, 0) > 4 * Default(i.price, 1) THEN "volatile"
       ELSE IF adx > 2500 /\ (histogram > 0 \/ rsi > 5500) THEN "trending_up"
       ELSE IF adx > 2500 /\ (histogram < 0 \/ rsi < 4500) THEN "trending_down"
       ELSE IF adx < 2000 THEN "ranging" ELSE "unknown"

DetectStrength(i) ==
    LET volume == Default(i.volume, 100)
        adx == Default(i.adx, 0)
    IN IF volume > 150 /\ adx > 2500 /\ Default(i.band, 50) > 80 THEN "strong"
       ELSE IF volume > 120 /\ adx > 2000 THEN "moderate"
       ELSE IF volume > 100 THEN "weak" ELSE "none"

\* A reading of zero is taken for a missing one.
Given(r) == r \ {0}

FromIndicators(i) ==
    [regime |-> DetectRegime(i), atr |-> AtrPercent(i), strength |-> DetectStrength(i),
     volume |-> Given(i.volume), rsi |-> Given(i.rsi)]

IsFavorableForEntry(s) ==
    /\ s.regime \in {"trending_up", "ranging"}
    /\ s.strength \notin {"none", "weak"}
    /\ ~Under(s.rsi, 3000) /\ ~Over(s.rsi, 7000)

\* What BreakoutFilter is built with.
RsiOverbought == 7000
RsiOversold == 3000

\* Wrong form: only strong breakouts of a rising market pass.
ChecksStrict(s) == <<
    [holds |-> ~Over(s.rsi, RsiOverbought), reason |-> "rsi_overbought"],
    [holds |-> s.regime = "trending_up", reason |-> "unfavorable_regime"],
    [holds |-> s.strength = "strong", reason |-> "weak_breakout"]>>

Checks(s) == <<
    [holds |-> ~Over(s.rsi, RsiOverbought), reason |-> "rsi_overbought"],
    [holds |-> ~Under(s.rsi, RsiOversold), reason |-> "rsi_oversold"],
    [holds |-> s.atr <= 50, reason |-> "high_volatility"],
    [holds |-> s.regime \in {"trending_up", "ranging"}, reason |-> "unfavorable_regime"],
    [holds |-> s.strength # "none", reason |-> "weak_breakout"],
    [holds |-> ~Under(s.volume, 80), reason |-> "low_volume"]>>

\* The first check that fails, or a pass.
FilterVerdict(s) ==
    LET failed == {k \in DOMAIN Checks(s) : ~Checks(s)[k].holds}
    IN IF failed = {} THEN "passed" ELSE Checks(s)[Min(failed)].reason

\* The points of the first step that x does not exceed.
Grade(x, steps) ==
    LET met == {k \in DOMAIN steps : x <= steps[k][1]}
    IN IF met = {} THEN 0 ELSE steps[Min(met)][2]

CalculateScore(s) ==
    LET regime == [trending_up |-> 25, ranging |-> 15, volatile |-> 5, trending_down |-> 0, unknown |-> 10]
        strength == [strong |-> 25, moderate |-> 18, weak |-> 8, none |-> 0]
        off == Abs(Default(s.rsi, 5000) - 5000)
        volume == 0 - Default(s.volume, 0)
    IN regime[s.regime] + strength[s.strength]
       + (IF s.rsi = {} THEN 12 ELSE Grade(off, <<<<1000, 25>>, <<2000, 18>>, <<3000, 10>>>>))
       + Grade(s.atr, <<<<20, 12>>, <<30, 8>>, <<40, 4>>>>)
       + (IF s.volume = {} THEN 6 ELSE Grade(volume, <<<<-200, 13>>, <<-150, 10>>, <<-100, 6>>>>))

\* The order of the sort, which is stable: the better score first.
Before(summaries, a, b) ==
    LET score(k) == CalculateScore(summaries[k])
    IN \/ score(a) > score(b)
       \/ score(a) = score(b) /\ a < b

\* What passes the filter, in that order.
FilterBatch(summaries, limit) ==
    LET passed == {k \in DOMAIN summaries : FilterVerdict(summaries[k]) = "passed"}
        ahead(k) == {j \in passed : Before(summaries, j, k)}
    IN [i \in 1 .. Min({limit, Cardinality(passed)}) |->
            summaries[CHOOSE k \in passed : Cardinality(ahead(k)) = i - 1]]

\* The share of the capital, in hundredths: the risk budget over the ATR, at most all.
SuggestedSize(s, budget) ==
    IF s.atr = 0 THEN 0 ELSE Min({100, (1000 * budget) \div s.atr})

-----------------------------------------------------------------------------
(* Slippage.  A side of the book is a sequence of levels [price, size],    *)
(* best first; the estimate is in hundredths of a percent.                 *)

NoLiquidity == [available |-> FALSE, slippage |-> Inf, levels |-> 0]
NoQuote == [available |-> FALSE, slippage |-> 0, levels |-> 0]

Upto(F(_), side, k) == Total(LAMBDA j : F(side[j]), 1, k)
Size(l) == l.size

\* A level without a price or without coins is passed over.
Fillable(l) == l.price > 0 /\ l.size > 0
Depth(l) == IF Fillable(l) THEN l.size ELSE 0
Worth(l) == IF Fillable(l) THEN l.price * l.size ELSE 0
Used(side, k) == Cardinality({j \in 1 .. k : Fillable(side[j])})

\* Fills whole levels while the amount is not reached, and part of the last one.
BuySlippage(asks, amount) ==
    LET enough == {k \in DOMAIN asks : Upto(Worth, asks, k) >= amount}
        k == Min(enough)
        rest == amount - Upto(Worth, asks, k - 1)
        volume == Upto(Depth, asks, k - 1) * asks[k].price + rest
        best == asks[1].price
    IN IF best <= 0 THEN NoQuote
       ELSE IF enough = {} THEN [NoLiquidity EXCEPT !.levels = Len(asks)]
       ELSE [available |-> TRUE, levels |-> Used(asks, k),
             slippage |-> (Hundred * (amount * asks[k].price - best * volume)) \div (best * volume)]

\* The caller passes the order's amount in KRW, which is read as an amount of coins.
SellSlippage(bids, amount) ==
    LET enough == {k \in DOMAIN bids : Upto(Depth, bids, k) >= amount}
        k == Min(enough)
        got == Upto(Worth, bids, k - 1) + bids[k].price * (amount - Upto(Depth, bids, k - 1))
        best == bids[1].price
    IN IF best <= 0 THEN NoQuote
       ELSE IF enough = {} THEN [NoLiquidity EXCEPT !.levels = Len(bids)]
       ELSE [available |-> TRUE, levels |-> Used(bids, k),
             slippage |-> (Hundred * (best * amount - got)) \div (best * amount)]

CalculateSlippage(book, side, amount) ==
    IF amount <= 0 THEN [available |-> TRUE, slippage |-> 0, levels |-> 0]
    ELSE IF book[side] = <<>> THEN NoLiquidity
    ELSE IF side = "asks" THEN BuySlippage(book.asks, amount) ELSE SellSlippage(book.bids, amount)

CheckLiquidityRisk(book, side, amount) ==
    LET s == CalculateSlippage(book, side, amount)
    IN [allowed |-> s.available /\ s.slippage <= MaxSlippage,
        caution |-> s.available /\ 2 * s.slippage > MaxSlippage]

-----------------------------------------------------------------------------
(* Beta: the returns, in whole percents, of the bars two markets share.    *)

Return(c, j) == Quot(100 * (c[j] - c[j - 1]), c[j - 1])
LastReturns(c) == [j \in 1 .. BetaDays |-> Return(c, Len(c) - BetaDays + j)]

\* BetaDays squared times the mean product of two deviations.
CoSum(r, s) ==
    BetaDays * Total(LAMBDA j : r[j] * s[j], 1, BetaDays)
    - Total(LAMBDA j : r[j], 1, BetaDays) * Total(LAMBDA j : s[j], 1, BetaDays)

\* The covariance of a sample over the variance of a population, in hundredths; a market
\* that does not move has beta one, and too few bars raise.
Beta(market, asset) ==
    LET r == LastReturns(market)
        s == LastReturns(asset)
    IN IF Len(market) <= BetaDays THEN {}
       ELSE IF CoSum(r, r) = 0 THEN {100}
       ELSE {Quot(100 * BetaDays * CoSum(r, s), (BetaDays - 1) * CoSum(r, r))}

Alpha(market, asset) ==
    {Return(asset, Len(asset)) - Quot(b * Return(market, Len(market)), 100) : b \in Beta(market, asset)}

AssessMarketRisk(btcReturn, correlation) ==
    IF btcReturn < -500 /\ correlation > 70 THEN "high"
    ELSE IF btcReturn < -300 /\ correlation > 50 THEN "medium" ELSE "low"
=============================================================================
