----------------------------- MODULE OrderPlans -----------------------------
(***************************************************************************)
(* How an order is laid out: the fill of the backtest's strategy through a *)
(* book, whole or split into equal parts, and the exits of the risk        *)
(* manager, fixed, by ATR, trailing and partial.                           *)
(***************************************************************************)
EXTENDS MarketRules

\* What n coins cost, or bring, level by level; beyond the book the last price holds.
FillCost(side, n) ==
    LET filled(j) == Max({0, Min({side[j].size, n - Upto(Size, side, j - 1)})})
        rest == Max({0, n - Upto(Size, side, Len(side))})
    IN Total(LAMBDA j : filled(j) * side[j].price, 1, Len(side)) + rest * side[Len(side)].price

\* split_order: no part is below the least size.
SplitCount(n, splits, least) ==
    Max({1, IF least > 0 THEN Min({splits, n \div least}) ELSE splits})

\* calculate_optimal_splits: the order in mean sizes of the first five levels.
OptimalSplits(side, n) ==
    LET top == Min({5, Len(side)})
        mean == Upto(Size, side, top)         \* times top
    IN IF side = <<>> \/ n * top <= mean THEN 1 ELSE Max({2, Min({(n * top) \div mean, 10})})

\* Wrong form: what is left over by the division is not ordered.
SplitCostLost(side, n, k) ==
    FillCost([j \in DOMAIN side |-> [side[j] EXCEPT !.size = k * @]], k * (n \div k))

\* Every part is filled through the book as it was: n / k coins, k times.
SplitCost(side, n, k) == FillCost([j \in DOMAIN side |-> [side[j] EXCEPT !.size = k * @]], n)

-----------------------------------------------------------------------------
(* Exits.  avg, prices and atr are in KRW, stops and targets in hundredths *)
(* of it; limits says which options of RiskLimits are on.                  *)

StopLossPrice(limits, avg, atr) == IF limits.byAtr THEN 100 * avg - 150 * atr ELSE 95 * avg
TakeProfitPrice(limits, avg, atr) == IF limits.byAtr THEN 100 * avg + 250 * atr ELSE 110 * avg

\* The highest price is kept by the manager, {} before the first.
NoTrail == [highest |-> {}, stop |-> {}, sold |-> FALSE]

\* Wrong form: the stop follows the price of the moment.
UpdateTrailingStopDown(t, limits, avg, price, atr) ==
    [t EXCEPT !.highest = {price},
              !.stop = {Max({StopLossPrice(limits, avg, atr), 100 * price - 200 * atr})}]

UpdateTrailingStop(t, limits, avg, price, atr) ==
    LET highest == Max(t.highest \cup {price})
    IN [t EXCEPT !.highest = {highest},
                 !.stop = {Max({StopLossPrice(limits, avg, atr), 100 * highest - 200 * atr})}]

CheckTrailingStop(t, limits, avg, price, atr) ==
    LET u == UpdateTrailingStop(t, limits, avg, price, atr)
    IN [u EXCEPT !.sold = \E stop \in u.stop : stop # 0 /\ 100 * price <= stop]

\* The state of the stop after each of the prices.
TrailAlong(limits, avg, atr, prices) ==
    LET after[i \in 0 .. Len(prices)] ==
            IF i = 0 THEN NoTrail ELSE CheckTrailingStop(after[i - 1], limits, avg, prices[i], atr)
    IN after

\* The share, in percent, that is sold of a position.
PartialTakeProfit(avg, price) ==
    CASE 100 * (price - avg) >= 10 * avg -> 100
      [] 100 * (price - avg) >= 5 * avg /\ 100 * (price - avg) < 10 * avg -> 50
      [] OTHER -> 0
=============================================================================
