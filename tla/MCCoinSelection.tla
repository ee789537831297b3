-------------------------- MODULE MCCoinSelection ---------------------------
EXTENDS CoinSelection

CONSTANTS k1, k2, k3

MCListed == [c \in Coins |-> IF c = k3 THEN 3 ELSE 0]
MCSector == [c \in Coins |-> IF c = k3 THEN "meme" ELSE "defi"]

Good == [return |-> 3000, win_rate |-> 5000, profit_factor |-> 250, sharpe |-> 200, sortino |-> 250,
         calmar |-> 100, trades |-> 1200, ratio |-> 250,
         drawdown |-> 1000, losses |-> 300, volatility |-> 4000, holding |-> 12000]
Fair == [return |-> 1500, win_rate |-> 4000, profit_factor |-> 180, sharpe |-> 120, sortino |-> 140,
         calmar |-> 100, trades |-> 1200, ratio |-> 270,
         drawdown |-> 1200, losses |-> 300, volatility |-> 4000, holding |-> 12000]
FewTrades == [Good EXCEPT !.trades = 500]
Deep == [Good EXCEPT !.drawdown = 2800]
MCMetrics == {Fair, FewTrades, Deep}
=============================================================================
