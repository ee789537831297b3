----------------------------- MODULE MCServices -----------------------------
(***************************************************************************)
(* Services on small inputs: short averages, a few kinds of answers, and   *)
(* markets made of a few levels.                                           *)
(***************************************************************************)
EXTENDS Services

MCMaPeriods == <<2, 3, 6>>
MCEmaPeriods == <<2, 4, 6>>
MCMacdSpans == <<2, 4, 2>>

Json(decision, confidence, number) ==
    [form |-> "json", decision |-> decision, confidence |-> confidence, number |-> number, words |-> {}]
Text(words) == [NoReply EXCEPT !.form = "text", !.words = words]

MCReplies ==
    {NoReply, Json("object", "high", 0), Json("other", "medium", 0), Json("buy", "high", 0),
     Json("buy", "number", 85), Json("sell", "low", 0), Json("sell", "object", 0)}
    \cup {Text(words) : words \in SUBSET {"buy", "don't buy", "sell"}}

MCResponses ==
    [decision : {"allow", "buy", "block", "wait", "other", "missing"}, confidence : {"int", "fraction", "word"},
     number : {40, 90, 120}]
    \cup [decision : {"raise"}, confidence : {"int"}, number : {0}]

MCRsi == {{}, {5000}, {7500}, {7501}}

\* A bar opens where the one before closed.
Bar(o, c, v) == [close |-> c, high |-> Max({o, c}) + 1, low |-> Min({o, c}) - 2, volume |-> v]
Bars == {[i \in 1 .. 8 |-> Bar(10 * s[Max({1, i - 1})], 10 * s[i], s[1 + (i % 8)])] : s \in [1 .. 8 -> {1, 2, 3}]}

MCReadings ==
    [price : {{100}}, atr : {{}, {2}, {4}, {5}}, adx : {{}, {1500}, {2200}, {3000}},
     rsi : {{}, {0}, {2500}, {5000}, {6500}, {8000}}, histogram : {{}, {-1}, {1}},
     volume : {{}, {0}, {110}, {130}, {200}}, band : {{}, {90}}]
Few ==
    {FromIndicators([price |-> {100}, atr |-> a, adx |-> {3000}, rsi |-> r, histogram |-> {1},
                     volume |-> v, band |-> {90}]) : a \in {{2}, {5}}, r \in {{}, {6500}, {8000}}, v \in {{130}, {200}}}

MCLevels == [price : {10, 11}, size : {1, 3}]
MCBooks == {b \in {[asks |-> <<x, y, z>>, bids |-> <<y, x>>] : x \in MCLevels, y \in MCLevels, z \in MCLevels} :
            b.asks[1].price <= b.asks[2].price /\ b.asks[2].price <= b.asks[3].price}

\* Histories of calls, of one kind of row each.
Call1(do) == [do |-> do, id |-> "a"]
Between == {Call1("later"), Call1("cleanup")}
Trade(at) == [do |-> "trade", id |-> "a", at |-> at]
TradeCalls == Between \cup {Trade(0), [Trade(2) EXCEPT !.id = "b"]}
OrderCalls ==
    Between \cup {[do |-> "order", id |-> i, sized |-> z] : i \in {"a"}, z \in BOOLEAN}
    \cup {[do |-> "update", id |-> "a", status |-> x] : x \in {"filled", "partially_filled", "open"}}
DecisionCalls == Between \cup {[do |-> "decision", id |-> "a", confidence |-> n] : n \in {0, 50}}
SnapshotCalls == Between \cup {[do |-> "snapshot", id |-> i] : i \in {"a"}}
KeyCalls == {Call1("later"), Call1("mark"), Call1("check"), Call1("sweep")}
\* A trade is saved after it happened.
After(calls, i) == Cardinality({k \in 1 .. i : calls[k].do = "later"})
Histories ==
    UNION {[1 .. 5 -> calls] : calls \in {OrderCalls, DecisionCalls, SnapshotCalls, KeyCalls}}
    \cup {h \in [1 .. 6 -> TradeCalls] : \A i \in 1 .. 6 : h[i].do = "trade" => h[i].at <= After(h, i)}
Days == [1 .. 7 -> {[do |-> "midnight"], [do |-> "save", pnl |-> -1], [do |-> "save", pnl |-> 2]}]

Coins == {[currency |-> x, free |-> f, locked |-> l, price |-> p] :
             x \in {"KRW", "BTC", "ETH"}, f \in {0, 2}, l \in {0, 1}, p \in {{}, {3}}}
Of(x) == {c \in Coins : c.currency = x}
Accounts == {{a, b, c} : a \in Of("KRW"), b \in Of("BTC"), c \in Of("ETH")}
MCAnswers == {[form |-> f, price |-> p, volume |-> v] : f \in {"order"}, p \in {{}, {0}, {4}}, v \in {{}, {0}, {3}}}
           \cup {[form |-> f, price |-> {0}, volume |-> {0}] : f \in {"raises", "none", "empty"}}
Exchanges == [account : Accounts, answer : MCAnswers, state : {"done", "cancel", "wait"}]

MCCandles == {b \in [open : 1 .. 4, high : 1 .. 4, low : 1 .. 4, close : 1 .. 4] :
              {b.open, b.close} \subseteq b.low .. b.high}
Exits == {x \in [bar : MCCandles, stop : 1 .. 4, target : 1 .. 4] : x.stop < x.target}

Paths == [limits : [byAtr : BOOLEAN], avg : {20}, atr : {1, 2}, prices : [1 .. 4 -> {17, 19, 20, 21, 22, 25}]]

MCMarkets ==
    [kind : {"bars"}, of : Bars] \cup [kind : {"readings"}, of : MCReadings]
    \cup [kind : {"batch"}, of : {<<x, y, z>> : x \in Few, y \in Few, z \in Few}]
    \cup [kind : {"book"}, of : MCBooks]
    \cup [kind : {"calls"}, of : Histories] \cup [kind : {"days"}, of : Days]
    \cup [kind : {"exchange"}, of : Exchanges] \cup [kind : {"exit"}, of : Exits]
    \cup [kind : {"prices"}, of : Paths]
=============================================================================
