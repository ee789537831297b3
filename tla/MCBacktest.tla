----------------------------- MODULE MCBacktest -----------------------------
EXTENDS Backtest

B(o, h, l, c, v, w, a) ==
    [open |-> o, high |-> h, low |-> l, close |-> c, volume |-> v, width |-> w, adx |-> a]

Calm == B(100, 102, 98, 100, 10, 10, 20)
Break == B(100, 112, 100, 110, 30, 9, 24)
Rally == B(112, 124, 110, 122, 20, 30, 30)
Drop == B(104, 105, 91, 92, 15, 30, 30)
Wide == B(101, 140, 88, 103, 12, 20, 25)
Weak == B(109, 112, 107, 110, 12, 12, 10)

MCHistories ==
    {<<Calm, Calm>> \o s : s \in [1 .. 5 -> {Calm, Break, Rally, Drop, Wide, Weak}]}
=============================================================================
