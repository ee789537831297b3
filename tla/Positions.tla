----------------------------- MODULE Positions ------------------------------
(***************************************************************************)
(* Orders, their rows and the position they add up to                      *)
(* (src/src/domain/entities/trade.py, postgres_persistence_adapter.py,     *)
(* manage_position.py), under any caller: every method may be called at    *)
(* any time its arguments exist.  Rows are in the database, positions in a *)
(* dictionary of the adapter.  An order is an immutable value: fill,       *)
(* cancel and fail return a new one, and the old one can still be used.    *)
(* The caller here forgets no value until the process ends.                *)
(*                                                                         *)
(* One ticker.  Volumes are whole units; zero stands for None: for the     *)
(* volume of a market buy, which has an amount instead, and for the        *)
(* execution of an order that has none.                                    *)
(***************************************************************************)
EXTENDS Sizing, FiniteSets, Sequences

CONSTANTS
    Orders,        \* ids
    Prices, Volumes,
    Budgets, Targets, Values, Risks,  \* arguments of the calculators
    Written,       \* the statuses that the caller writes into rows
    MaxHeld,       \* bound of the orders that the caller holds at once
    MaxBooks,      \* bound of the trades
    MaxFaults      \* bound of restarts and of clean-ups

ASSUME PositionsAssumption ==
    /\ Prices \subseteq Nat \ {0} /\ Volumes \subseteq Nat \ {0}
    /\ Budgets \subseteq Nat /\ Targets \subseteq Nat
    /\ Values \subseteq Nat \ {0} /\ Risks \subseteq Nat
    /\ Written \subseteq {"pending", "open", "partially_filled", "filled", "cancelled", "failed"}
    /\ MaxHeld \in Nat /\ MaxBooks \in Nat /\ MaxFaults \in Nat

VARIABLES
    held,       \* the orders that the caller holds, several of one id among them
    row,        \* row[o]: its row, or NoRow
    position,   \* the entry of _positions, or NoPosition
    answer,     \* the last answer of a calculator, or NoAnswer
    fills,      \* executions that were given to fill by this process (history)
    booked,     \* trades of this process, in order (history)
    faults      \* restarts and clean-ups so far

vars == <<held, row, position, answer, fills, booked, faults>>

Open == {"pending", "open", "partially_filled"}
Terminal == {"filled", "cancelled", "failed"}
NoRow == [status |-> "none", side |-> "buy", volume |-> 0]

\* low and high: the prices of the buys since it was opened (history).
NoPosition == [volume |-> 0, num |-> 0, den |-> 1, low |-> 0, high |-> 0]
NoAnswer == [kind |-> "none"]

Holds == position # NoPosition

Init ==
    /\ held = {} /\ row = [o \in Orders |-> NoRow]
    /\ position = NoPosition
    /\ answer = NoAnswer
    /\ fills = {} /\ booked = <<>> /\ faults = 0

\* A method returns an order; those that the caller had are as they were.
Returns(new) ==
    /\ held' = held \cup {new} /\ Cardinality(held') <= MaxHeld
    /\ answer' = NoAnswer
    /\ UNCHANGED <<position, booked, faults>>

-----------------------------------------------------------------------------
(* Order.                                                                  *)

\* The id is a new uuid.
Create(o) ==
    /\ row[o] = NoRow /\ \A v \in held : v.id # o
    /\ \E side \in {"buy", "sell"}, volume \in Volumes \cup {0} :
         /\ side = "sell" => volume > 0
         /\ Returns([id |-> o, status |-> "pending", side |-> side, volume |-> volume,
                     price |-> 0, done |-> 0])
    /\ UNCHANGED <<row, fills>>

\* Raises for an order that is done.  Price and volume are what the caller says, whatever
\* was ordered; the order it is called on can be filled again.
Fill(v) ==
    /\ v.status \notin Terminal
    /\ \E price \in Prices, done \in Volumes :
         /\ Returns([v EXCEPT !.status = "filled", !.price = price, !.done = done])
         /\ fills' = fills \cup {[id |-> v.id, side |-> v.side, price |-> price, volume |-> done]}
    /\ UNCHANGED row

\* Raises for an order that is done; the new value has no execution.
Cancel(v) ==
    /\ v.status \notin Terminal
    /\ Returns([v EXCEPT !.status = "cancelled", !.price = 0, !.done = 0])
    /\ UNCHANGED <<row, fills>>

\* Looks at no status: of a filled order it makes a failed one without an execution.
Fail(v) ==
    /\ Returns([v EXCEPT !.status = "failed", !.price = 0, !.done = 0])
    /\ UNCHANGED <<row, fills>>

-----------------------------------------------------------------------------
(* The rows.                                                               *)

\* A row needs a volume: that of a market buy is refused by the database.  The id of a row
\* is unique.
SaveOrder(v) ==
    /\ row[v.id] = NoRow /\ v.volume > 0
    /\ row' = [row EXCEPT ![v.id] = [status |-> v.status, side |-> v.side, volume |-> v.volume]]
    /\ answer' = NoAnswer
    /\ UNCHANGED <<held, position, fills, booked, faults>>

\* A row has no execution to give back.
ToDomain(o, r) ==
    [id |-> o, status |-> IF r.status = "open" THEN "pending" ELSE r.status,
     side |-> r.side, volume |-> r.volume, price |-> 0, done |-> 0]

\* Writes any status and returns the order of the row; a failed commit changes nothing.
UpdateOrderStatus(o) ==
    /\ row[o] # NoRow
    /\ \E s \in Written :
         /\ row' = [row EXCEPT ![o].status = s]
         /\ Returns(ToDomain(o, row'[o]))
    /\ UNCHANGED fills

\* Rows beyond an age are deleted, whatever their status.
CleanupOldData ==
    /\ faults < MaxFaults /\ faults' = faults + 1
    /\ \E old \in SUBSET Orders \ {{}} :
         row' = [o \in Orders |-> IF o \in old THEN NoRow ELSE row[o]]
    /\ answer' = NoAnswer
    /\ UNCHANGED <<held, position, fills, booked>>

\* get_order and get_open_orders return the order of the row.
Reload(o) ==
    /\ row[o] # NoRow
    /\ Returns(ToDomain(o, row[o]))
    /\ UNCHANGED <<row, fills>>

-----------------------------------------------------------------------------
(* Trades and the position.                                                *)

\* Wrong form: the cost is divided by the volume before.
AddOldVolume(p, volume, price) ==
    [volume |-> p.volume + volume,
     num |-> p.num * p.volume + price * volume * p.den,
     den |-> p.den * p.volume,
     low |-> Smaller(p.low, price), high |-> Larger(p.high, price)]

Add(p, volume, price) ==
    [volume |-> p.volume + volume,
     num |-> p.num * p.volume + price * volume * p.den,
     den |-> p.den * (p.volume + volume),
     low |-> Smaller(p.low, price), high |-> Larger(p.high, price)]

Reduce(p, volume) == [p EXCEPT !.volume = @ - volume]

Opened(volume, price) ==
    [volume |-> volume, num |-> price, den |-> 1, low |-> price, high |-> price]

\* Wrong form: a sale of more than the position is refused.
AfterTradeStrict(p, side, volume, price) ==
    IF side = "buy" THEN IF p = NoPosition THEN Opened(volume, price) ELSE Add(p, volume, price)
    ELSE IF volume > p.volume THEN p
    ELSE IF volume = p.volume THEN NoPosition ELSE Reduce(p, volume)

\* update_position_from_trade: a sale without a position changes nothing, one of
\* more than the position closes it.
AfterTrade(p, side, volume, price) ==
    IF side = "buy" THEN IF p = NoPosition THEN Opened(volume, price) ELSE Add(p, volume, price)
    ELSE IF p = NoPosition \/ volume >= p.volume THEN NoPosition ELSE Reduce(p, volume)

\* Wrong form: a filled order need not have an execution.
IsTrade(v) == v.status = "filled"

\* from_order refuses other orders.
HasTrade(v) == v.status = "filled" /\ v.price > 0 /\ v.done > 0

\* A trade is made of the order and brought into the position, once or again.
Book(v) ==
    /\ HasTrade(v) /\ Len(booked) < MaxBooks
    /\ position' = AfterTrade(position, v.side, v.done, v.price)
    /\ booked' = Append(booked, [id |-> v.id, side |-> v.side, price |-> v.price,
                                 volume |-> v.done])
    /\ answer' = NoAnswer
    /\ UNCHANGED <<held, row, fills, faults>>

\* The process ends: the positions and the orders of the caller are gone, the rows stay.
Restart ==
    /\ faults < MaxFaults /\ faults' = faults + 1
    /\ position' = NoPosition /\ held' = {}
    /\ fills' = {} /\ booked' = <<>> /\ answer' = NoAnswer
    /\ UNCHANGED row

-----------------------------------------------------------------------------
(* The calculators answer and change nothing; they depend on no state, so  *)
(* they are asked at the start only (bound).                               *)

Answers(a) ==
    /\ answer = NoAnswer /\ held = {} /\ \A o \in Orders : row[o] = NoRow
    /\ answer' = a
    /\ UNCHANGED <<held, row, position, fills, booked, faults>>

\* calculate_buy_amount, calculate_buyable_volume.
QuoteBuy ==
    \E budget \in Budgets, price \in Prices :
        Answers([kind |-> "buy", budget |-> budget, amount |-> BuyAmount(budget),
                 price |-> price, volume |-> BuyableVolume(budget, price)])

\* calculate_sell_volume_for_net, calculate_sell_net_for_volume.
QuoteSell ==
    \E target \in Targets, price \in Prices :
        LET volume == SellVolumeForNet(target, price)
        IN Answers([kind |-> "sell", target |-> target, price |-> price,
                    net |-> SellNet(price, volume)])

\* calculate_recommended_position_size.
AdviseSize ==
    \E value \in Values, risk \in Risks :
        Answers([kind |-> "size", value |-> value, risk |-> risk,
                 size |-> RecommendedSize(value, risk)])

Next ==
    \/ \E o \in Orders : Create(o) \/ UpdateOrderStatus(o) \/ Reload(o)
    \/ \E v \in held : Fill(v) \/ Cancel(v) \/ Fail(v) \/ SaveOrder(v) \/ Book(v)
    \/ CleanupOldData \/ Restart
    \/ QuoteBuy \/ QuoteSell \/ AdviseSize

Spec == Init /\ [][Next]_vars

-----------------------------------------------------------------------------
\* The types of the state.
TypeOK ==
    /\ held \in SUBSET [id : Orders, status : Open \cup Terminal, side : {"buy", "sell"},
                        volume : Nat, price : Nat, done : Nat]
    /\ row \in [Orders -> [status : Open \cup Terminal \cup {"none"}, side : {"buy", "sell"},
                           volume : Nat]]
    /\ position \in [volume : Nat, num : Nat, den : Nat \ {0}, low : Nat, high : Nat]
    /\ Holds => position.volume > 0 /\ position.num > 0
    /\ fills \in SUBSET [id : Orders, side : {"buy", "sell"}, price : Prices, volume : Volumes]
    /\ faults \in 0 .. MaxFaults

\* The average entry price lies between the lowest and the highest price bought at since
\* the position was opened, through any additions and reductions.  (Position.add, reduce.)
AvgWithinPrices ==
    /\ position.low * position.den <= position.num
    /\ position.num <= position.high * position.den

Net(t) == IF t.side = "buy" THEN t.volume ELSE -t.volume
NetFrom[k \in Nat] == IF k = 0 \/ k > Len(booked) THEN 0 ELSE Net(booked[k]) + NetFrom[k + 1]

\* The position is the largest balance of the last trades, however many: it never goes
\* below zero and forgets nothing since.  (update_position_from_trade.)
PositionAddsUp ==
    /\ \A k \in 1 .. Len(booked) : NetFrom[k] <= position.volume
    /\ position.volume = 0 \/ \E k \in 1 .. Len(booked) : NetFrom[k] = position.volume

\* What is booked was executed, on the side of the order it names: no order that came back
\* from its row without an execution, and none that failed or was cancelled in between, makes
\* a trade.  (Trade.from_order, get_order, fail, cancel.)
BookedWereExecuted ==
    \A i \in DOMAIN booked : booked[i] \in fills

\* Without a minimum fee, a buy with its fee exceeds the budget by one KRW at most; with
\* one it may exceed it by more.  (calculate_buy_amount.)
BudgetExceededByOne ==
    answer.kind = "buy" /\ MinFee = 0 =>
        answer.amount.gross + answer.amount.fee <= answer.budget + 1

\* A buy with its fee does not exceed the budget.  (calculate_buy_amount.)
BudgetKept ==
    answer.kind = "buy" => answer.amount.gross + answer.amount.fee <= answer.budget

\* A sale for a net amount brings it, but for rounding.  (calculate_sell_volume_for_net.)
SellCoversTarget ==
    answer.kind = "sell" => answer.net + 2 + MinFee + answer.price \div Unit >= answer.target

\* A recommended size loses at the stop no more than the risk, and one KRW less passes the
\* check of the size; the size itself may not.  (calculate_recommended_position_size,
\* validate_trade_size.)
SizeWithinRisk ==
    answer.kind = "size" =>
        /\ (answer.size - 1) * StopLoss <= answer.risk * answer.value
        /\ TradeSizeAllowed(answer.size - 1, answer.value)

Rank(level) == CASE level = "low" -> 0 [] level = "medium" -> 1 [] level = "high" -> 2 [] OTHER -> 3

\* One KRW beyond an exit price the exit is due, one before it is not, and a lower price is
\* never less risky.  (assess_position_risk, should_stop_loss, should_take_profit,
\* calculate_stop_loss_price, calculate_take_profit_price.)
ExitPricesAgree ==
    Holds => \A price \in (StopPrice(position) - 2) .. (TakeProfitPrice(position) + 1) :
        /\ price < StopPrice(position) => PositionRisk(position, price) = "critical"
        /\ price > StopPrice(position) => PositionRisk(position, price) # "critical"
        /\ price < TakeProfitPrice(position) => ~GainAtLeast(position, price, TakeProfit)
        /\ price > TakeProfitPrice(position) => GainAtLeast(position, price, TakeProfit)
        /\ Rank(PositionRisk(position, price + 1)) <= Rank(PositionRisk(position, price))

\* The calculators agree with each other and with the rules they are computed from.
\* (FeeCalculator, RiskCalculator.)
CalculatorsAgree == SellCoversTarget /\ SizeWithinRisk /\ ExitPricesAgree
=============================================================================
