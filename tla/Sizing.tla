------------------------------- MODULE Sizing -------------------------------
(***************************************************************************)
(* Fees, order sizes and exit prices (src/src/domain/services/             *)
(* fee_calculator.py, risk_calculator.py).  Money is in whole KRW, as the  *)
(* code rounds it; volumes are multiples of 1/Unit of a coin; rates are    *)
(* multiples of 1/Base.                                                    *)
(***************************************************************************)
EXTENDS Integers

CONSTANTS
    Base, Unit,
    FeeRate, MinFee,             \* fee_rate, min_fee
    StopLoss, TakeProfit,        \* the loss and the gain at which to exit
    MaxSize                      \* max_position_size

ASSUME SizingAssumption ==
    /\ Base \in Nat \ {0} /\ Unit \in Nat \ {0}
    /\ FeeRate \in Nat /\ FeeRate < Base /\ MinFee \in Nat
    /\ StopLoss \in 1 .. Base /\ TakeProfit \in Nat
    /\ MaxSize \in 1 .. Base

Larger(a, b) == IF a >= b THEN a ELSE b
Smaller(a, b) == IF a <= b THEN a ELSE b

\* a / b to the nearest whole number, halves upwards (ROUND_HALF_UP).
HalfUp(a, b) == (2 * a + b) \div (2 * b)

\* The rate of the amount, or the minimum, rounded to KRW.
Fee(amount) ==
    IF amount = 0 THEN 0 ELSE HalfUp(Larger(FeeRate * amount, Base * MinFee), Base)

\* Wrong form: the fee is not taken from the budget.
BuyAmountGross(budget) == [gross |-> budget, fee |-> Fee(budget)]

\* What a budget buys.  The minimum fee counts only when the rate is below it.
BuyAmount(budget) ==
    IF FeeRate * budget < Base * MinFee
    THEN IF budget <= MinFee THEN [gross |-> 0, fee |-> 0]
         ELSE [gross |-> budget - MinFee, fee |-> MinFee]
    ELSE LET gross == HalfUp(Base * budget, Base + FeeRate)
         IN [gross |-> gross, fee |-> Fee(gross)]

BuyableVolume(budget, price) == HalfUp(Unit * BuyAmount(budget).gross, price)

Gross(price, volume) == HalfUp(price * volume, Unit)
SellNet(price, volume) == Gross(price, volume) - Fee(Gross(price, volume))

\* The volume whose sale brings target; the minimum fee is no part of it.
SellVolumeForNet(target, price) == HalfUp(Base * Unit * target, (Base - FeeRate) * price)

-----------------------------------------------------------------------------
(* Averages are fractions [num, den].                                      *)

\* rate of gain below -x/Base, and at least x/Base.
LossOver(avg, price, x) == Base * (price * avg.den - avg.num) < -(x * avg.num)
LossAtLeast(avg, price, x) == Base * (price * avg.den - avg.num) <= -(x * avg.num)
GainAtLeast(avg, price, x) == Base * (price * avg.den - avg.num) >= x * avg.num

\* assess_position_risk: 3% is a constant of the code.
PositionRisk(avg, price) ==
    IF LossAtLeast(avg, price, StopLoss) THEN "critical"
    ELSE IF LossOver(avg, price, (3 * Base) \div 100) THEN "high"
    ELSE IF LossOver(avg, price, 0) THEN "medium" ELSE "low"

StopPrice(avg) == HalfUp(avg.num * (Base - StopLoss), avg.den * Base)

TakeProfitPrice(avg) == HalfUp(avg.num * (Base + TakeProfit), avg.den * Base)

MaxPositionSize(value) == HalfUp(MaxSize * value, Base)

\* Wrong form: the largest size is not applied.
RecommendedUncapped(value, risk) == HalfUp(risk * value, StopLoss)

\* The size at which the stop loses risk, and at most the largest.
RecommendedSize(value, risk) ==
    Smaller(HalfUp(risk * value, StopLoss), MaxPositionSize(value))

\* validate_trade_size: compares the exact share.
TradeSizeAllowed(amount, value) == Base * amount <= MaxSize * value
=============================================================================
