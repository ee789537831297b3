-------------------------- MODULE PositionsProofs ---------------------------
(***************************************************************************)
(* Proofs about Positions and Sizing: the types, the average price and the *)
(* balance of a position and what is booked of an order, for all prices,   *)
(* volumes and callers; and the rounding of the calculators.               *)
(***************************************************************************)
EXTENDS Positions, FiniteSetTheorems, WellFoundedInduction, TLAPS

\* Products of naturals: what the additions to a position need of them.
LEMMA Products ==
    ASSUME NEW a \in Nat, NEW b \in Nat
    PROVE  /\ a * b \in Nat
           /\ a > 0 /\ b > 0 => a * b > 0
  OBVIOUS

LEMMA ProductOrder ==
    ASSUME NEW a \in Nat, NEW b \in Nat, NEW c \in Nat, a <= b
    PROVE  a * c <= b * c
  OBVIOUS

\* A weighted mean lies between bounds of its parts.  (Position.add.)
LEMMA MeanAbove ==
    ASSUME NEW low \in Nat, NEW num \in Nat, NEW den \in Nat, NEW v \in Nat,
           NEW price \in Nat, NEW w \in Nat,
           low * den <= num
    PROVE  Smaller(low, price) * (den * (v + w)) <= num * v + price * w * den
<1> DEFINE m == Smaller(low, price)
<1>1. m \in Nat /\ m <= low /\ m <= price
  BY DEF Smaller
<1>2. m * den <= low * den
  BY <1>1, ProductOrder
<1>3. m * den \in Nat /\ low * den \in Nat /\ m * den <= num
  BY <1>1, <1>2, Products
<1>4. (m * den) * v <= num * v
  BY <1>3, ProductOrder
<1>5. w * den \in Nat
  BY Products
<1>6. m * (w * den) <= price * (w * den)
  BY <1>1, <1>5, ProductOrder
<1> HIDE DEF m
<1>7. m * (den * (v + w)) = (m * den) * v + m * (w * den)
  BY <1>1
<1>8. price * w * den = price * (w * den)
  OBVIOUS
<1>9. (m * den) * v \in Nat /\ num * v \in Nat /\ m * (w * den) \in Nat /\ price * (w * den) \in Nat
  BY <1>1, <1>3, <1>5, Products
<1>10. m * (den * (v + w)) <= num * v + price * w * den
  BY <1>4, <1>6, <1>7, <1>8, <1>9
<1> QED
  BY <1>10 DEF m

LEMMA MeanBelow ==
    ASSUME NEW high \in Nat, NEW num \in Nat, NEW den \in Nat, NEW v \in Nat,
           NEW price \in Nat, NEW w \in Nat,
           num <= high * den
    PROVE  num * v + price * w * den <= Larger(high, price) * (den * (v + w))
<1> DEFINE m == Larger(high, price)
<1>1. m \in Nat /\ high <= m /\ price <= m
  BY DEF Larger
<1>2. high * den <= m * den
  BY <1>1, ProductOrder
<1>3. m * den \in Nat /\ high * den \in Nat /\ num <= m * den
  BY <1>1, <1>2, Products
<1>4. num * v <= (m * den) * v
  BY <1>3, ProductOrder
<1>5. w * den \in Nat
  BY Products
<1>6. price * (w * den) <= m * (w * den)
  BY <1>1, <1>5, ProductOrder
<1> HIDE DEF m
<1>7. m * (den * (v + w)) = (m * den) * v + m * (w * den)
  BY <1>1
<1>8. price * w * den = price * (w * den)
  OBVIOUS
<1>9. (m * den) * v \in Nat /\ num * v \in Nat /\ m * (w * den) \in Nat /\ price * (w * den) \in Nat
  BY <1>1, <1>3, <1>5, Products
<1>10. num * v + price * w * den <= m * (den * (v + w))
  BY <1>4, <1>6, <1>7, <1>8, <1>9
<1> QED
  BY <1>10 DEF m

-----------------------------------------------------------------------------
PositionType == [volume : Nat, num : Nat, den : Nat \ {0}, low : Nat, high : Nat]

\* A position with its average between its prices.
Sound(p) ==
    /\ p \in PositionType
    /\ p # NoPosition => p.volume > 0 /\ p.num > 0
    /\ p.low * p.den <= p.num /\ p.num <= p.high * p.den

LEMMA NoPositionSound == Sound(NoPosition)
  BY DEF Sound, NoPosition, PositionType

LEMMA OpenedSound ==
    ASSUME NEW volume \in Nat \ {0}, NEW price \in Nat \ {0}
    PROVE  Sound(Opened(volume, price))
  BY DEF Sound, Opened, PositionType

LEMMA ReduceSound ==
    ASSUME NEW p, Sound(p), NEW volume \in Nat, volume < p.volume
    PROVE  Sound(Reduce(p, volume))
<1>1. p \in PositionType /\ p # NoPosition
  BY DEF Sound, NoPosition
<1>2. Reduce(p, volume) = [volume |-> p.volume - volume, num |-> p.num, den |-> p.den,
                           low |-> p.low, high |-> p.high]
  BY <1>1 DEF Reduce, PositionType
<1> QED
  BY <1>1, <1>2 DEF Sound, PositionType

LEMMA AddSound ==
    ASSUME NEW p, Sound(p), p # NoPosition, NEW volume \in Nat \ {0}, NEW price \in Nat \ {0}
    PROVE  Sound(Add(p, volume, price))
<1> DEFINE q == Add(p, volume, price)
<1>1. /\ p.volume \in Nat /\ p.volume > 0 /\ p.num \in Nat /\ p.num > 0
      /\ p.den \in Nat /\ p.den > 0 /\ p.low \in Nat /\ p.high \in Nat
      /\ p.low * p.den <= p.num /\ p.num <= p.high * p.den
  BY DEF Sound, PositionType
<1>2. /\ p.num * p.volume \in Nat /\ p.num * p.volume > 0
      /\ price * volume \in Nat
      /\ p.volume + volume \in Nat /\ p.volume + volume > 0
  BY <1>1, Products
<1>3. /\ price * volume * p.den \in Nat
      /\ p.den * (p.volume + volume) \in Nat /\ p.den * (p.volume + volume) > 0
  BY <1>1, <1>2, Products
<1>4. Smaller(p.low, price) \in Nat /\ Larger(p.high, price) \in Nat
  BY <1>1 DEF Smaller, Larger
<1>5. q \in PositionType /\ q.volume > 0 /\ q.num > 0
  BY <1>1, <1>2, <1>3, <1>4 DEF Add, PositionType
<1>6. q.low * q.den <= q.num
  BY <1>1, MeanAbove DEF Add
<1>7. q.num <= q.high * q.den
  BY <1>1, MeanBelow DEF Add
<1> QED
  BY <1>5, <1>6, <1>7 DEF Sound

LEMMA AfterTradeSound ==
    ASSUME NEW p, Sound(p), NEW side, NEW volume \in Nat \ {0}, NEW price \in Nat \ {0}
    PROVE  Sound(AfterTrade(p, side, volume, price))
<1>1. CASE side = "buy" /\ p = NoPosition
  BY <1>1, OpenedSound DEF AfterTrade
<1>2. CASE side = "buy" /\ p # NoPosition
  BY <1>2, AddSound DEF AfterTrade
<1>3. CASE side # "buy" /\ (p = NoPosition \/ volume >= p.volume)
  BY <1>3, NoPositionSound DEF AfterTrade
<1>4. CASE side # "buy" /\ ~(p = NoPosition \/ volume >= p.volume)
  <2>1. volume < p.volume
    BY <1>4 DEF Sound, PositionType
  <2> QED
    BY <1>4, <2>1, ReduceSound DEF AfterTrade
<1> QED
  BY <1>1, <1>2, <1>3, <1>4

-----------------------------------------------------------------------------
OrderType == [id : Orders, status : Open \cup Terminal, side : {"buy", "sell"}, volume : Nat,
              price : Nat, done : Nat]
FullRow == [status : Open \cup Terminal, side : {"buy", "sell"}, volume : Nat]
RowType == FullRow \cup {NoRow}
TradeType == [id : Orders, side : {"buy", "sell"}, price : Prices, volume : Volumes]

OrdersOK ==
    /\ held \in SUBSET OrderType /\ row \in [Orders -> RowType]
    /\ fills \in SUBSET TradeType /\ faults \in 0 .. MaxFaults

IInv == OrdersOK /\ Sound(position)

THEOREM InitInv == Init => IInv
<1> SUFFICES ASSUME Init PROVE IInv
  OBVIOUS
<1>1. OrdersOK
  BY PositionsAssumption DEF Init, OrdersOK, RowType
<1>2. Sound(position)
  BY NoPositionSound DEF Init
<1> QED
  BY <1>1, <1>2 DEF IInv

\* A method that returns an order and touches no row.
LEMMA ReturnsInv ==
    ASSUME IInv, NEW new \in OrderType, Returns(new), UNCHANGED row, fills' \in SUBSET TradeType
    PROVE  IInv'
  BY DEF Returns, IInv, OrdersOK, Sound

LEMMA CreateInv == ASSUME IInv, NEW o \in Orders, Create(o) PROVE IInv'
<1> PICK side \in {"buy", "sell"}, volume \in Volumes \cup {0} :
         Returns([id |-> o, status |-> "pending", side |-> side, volume |-> volume,
                  price |-> 0, done |-> 0])
  BY DEF Create
<1>1. [id |-> o, status |-> "pending", side |-> side, volume |-> volume, price |-> 0, done |-> 0]
        \in OrderType
  BY PositionsAssumption DEF OrderType, Open
<1> QED
  BY <1>1, ReturnsInv DEF Create, IInv, OrdersOK

\* What fill returns, and what cancel and fail return.
LEMMA FilledType ==
    ASSUME NEW v \in OrderType, NEW price \in Prices, NEW done \in Volumes
    PROVE  /\ [v EXCEPT !.status = "filled", !.price = price, !.done = done] \in OrderType
           /\ [id |-> v.id, side |-> v.side, price |-> price, volume |-> done] \in TradeType
  BY PositionsAssumption DEF OrderType, TradeType, Terminal

LEMMA UndoneType ==
    ASSUME NEW v \in OrderType, NEW s \in {"cancelled", "failed"}
    PROVE  [v EXCEPT !.status = s, !.price = 0, !.done = 0] \in OrderType
  BY DEF OrderType, Terminal

LEMMA FillInv == ASSUME IInv, NEW v \in held, Fill(v) PROVE IInv'
<1> PICK price \in Prices, done \in Volumes :
      /\ Returns([v EXCEPT !.status = "filled", !.price = price, !.done = done])
      /\ fills' = fills \cup {[id |-> v.id, side |-> v.side, price |-> price, volume |-> done]}
  BY DEF Fill
<1>1. v \in OrderType /\ fills \in SUBSET TradeType
  BY DEF IInv, OrdersOK
<1>2. fills' \in SUBSET TradeType
  BY <1>1, FilledType
<1> QED
  BY <1>1, <1>2, FilledType, ReturnsInv DEF Fill

LEMMA UndoneInv == ASSUME IInv, NEW v \in held, Cancel(v) \/ Fail(v) PROVE IInv'
<1> PICK s \in {"cancelled", "failed"} :
      /\ Returns([v EXCEPT !.status = s, !.price = 0, !.done = 0]) /\ UNCHANGED <<row, fills>>
  BY DEF Cancel, Fail
<1>1. v \in OrderType /\ fills \in SUBSET TradeType
  BY DEF IInv, OrdersOK
<1> QED
  BY <1>1, UndoneType, ReturnsInv

LEMMA RowOrder ==
    ASSUME NEW o \in Orders, NEW r \in FullRow
    PROVE  ToDomain(o, r) \in OrderType
  BY DEF ToDomain, FullRow, OrderType, Open, Terminal

LEMMA SaveInv == ASSUME IInv, NEW v \in held, SaveOrder(v) PROVE IInv'
<1>1. v \in OrderType
  BY DEF IInv, OrdersOK
<1>2. [status |-> v.status, side |-> v.side, volume |-> v.volume] \in RowType /\ v.id \in Orders
  BY <1>1 DEF OrderType, RowType, FullRow
<1> QED
  BY <1>2 DEF SaveOrder, IInv, OrdersOK, Sound

LEMMA UpdateInv == ASSUME IInv, NEW o \in Orders, UpdateOrderStatus(o) PROVE IInv'
<1> PICK s \in Written :
      row' = [row EXCEPT ![o].status = s] /\ Returns(ToDomain(o, row'[o]))
  BY DEF UpdateOrderStatus
<1>1. row[o] \in FullRow /\ s \in Open \cup Terminal
  BY PositionsAssumption DEF UpdateOrderStatus, IInv, OrdersOK, RowType, Open, Terminal
<1>2. row'[o] \in FullRow /\ row' \in [Orders -> RowType]
  BY <1>1 DEF IInv, OrdersOK, RowType, FullRow
<1>3. ToDomain(o, row'[o]) \in OrderType
  BY <1>2, RowOrder
<1> QED
  BY <1>2, <1>3 DEF UpdateOrderStatus, Returns, IInv, OrdersOK, Sound

LEMMA CleanupInv == ASSUME IInv, CleanupOldData PROVE IInv'
<1>1. faults' \in 0 .. MaxFaults
  BY PositionsAssumption DEF CleanupOldData, IInv, OrdersOK
<1>2. row' \in [Orders -> RowType]
  BY DEF CleanupOldData, IInv, OrdersOK, RowType
<1> QED
  BY <1>1, <1>2 DEF CleanupOldData, IInv, OrdersOK, Sound

LEMMA ReloadInv == ASSUME IInv, NEW o \in Orders, Reload(o) PROVE IInv'
<1>1. row[o] \in FullRow
  BY DEF Reload, IInv, OrdersOK, RowType
<1> QED
  BY <1>1, RowOrder, ReturnsInv DEF Reload, IInv, OrdersOK

LEMMA BookInv == ASSUME IInv, NEW v \in held, Book(v) PROVE IInv'
<1>1. v.price \in Nat \ {0} /\ v.done \in Nat \ {0}
  BY DEF Book, HasTrade, IInv, OrdersOK, OrderType
<1>2. Sound(position')
  BY <1>1, AfterTradeSound DEF Book, IInv
<1> QED
  BY <1>2 DEF Book, IInv, OrdersOK, Sound

LEMMA RestartInv == ASSUME IInv, Restart PROVE IInv'
<1>1. Sound(position')
  BY NoPositionSound DEF Restart
<1> QED
  BY <1>1, PositionsAssumption DEF Restart, IInv, OrdersOK, Sound

LEMMA AnswersInv == ASSUME IInv, UNCHANGED <<held, row, position, fills, booked, faults>> PROVE IInv'
  BY DEF IInv, OrdersOK, Sound

THEOREM NextInv == IInv /\ [Next]_vars => IInv'
<1> SUFFICES ASSUME IInv, [Next]_vars PROVE IInv'
  OBVIOUS
<1>1. ASSUME NEW o \in Orders, Create(o) PROVE IInv'
  BY <1>1, CreateInv
<1>2. ASSUME NEW o \in Orders, UpdateOrderStatus(o) PROVE IInv'
  BY <1>2, UpdateInv
<1>3. ASSUME NEW o \in Orders, Reload(o) PROVE IInv'
  BY <1>3, ReloadInv
<1>4. ASSUME NEW v \in held, Fill(v) PROVE IInv'
  BY <1>4, FillInv
<1>5. ASSUME NEW v \in held, Cancel(v) \/ Fail(v) PROVE IInv'
  BY <1>5, UndoneInv
<1>6. ASSUME NEW v \in held, SaveOrder(v) PROVE IInv'
  BY <1>6, SaveInv
<1>7. ASSUME NEW v \in held, Book(v) PROVE IInv'
  BY <1>7, BookInv
<1>8. CASE CleanupOldData
  BY <1>8, CleanupInv
<1>9. CASE Restart
  BY <1>9, RestartInv
<1>10. CASE QuoteBuy \/ QuoteSell \/ AdviseSize
  BY <1>10, AnswersInv DEF QuoteBuy, QuoteSell, AdviseSize, Answers
<1>11. CASE UNCHANGED vars
  BY <1>11, AnswersInv DEF vars
<1> QED
  BY <1>1, <1>2, <1>3, <1>4, <1>5, <1>6, <1>7, <1>8, <1>9, <1>10, <1>11 DEF Next

THEOREM AlwaysInv == Spec => []IInv
  BY InitInv, NextInv, PTL DEF Spec

\* The types of the state are kept, and no position is empty or free.
THEOREM TypeCorrect == Spec => []TypeOK
<1>1. ASSUME IInv PROVE TypeOK
  <2>1. /\ held \in SUBSET [id : Orders, status : Open \cup Terminal, side : {"buy", "sell"},
                            volume : Nat, price : Nat, done : Nat]
        /\ fills \in SUBSET [id : Orders, side : {"buy", "sell"}, price : Prices, volume : Volumes]
        /\ faults \in 0 .. MaxFaults
    BY <1>1 DEF IInv, OrdersOK, OrderType, TradeType
  <2>2. row \in [Orders -> [status : Open \cup Terminal \cup {"none"}, side : {"buy", "sell"},
                           volume : Nat]]
    BY <1>1 DEF IInv, OrdersOK, RowType, FullRow, NoRow
  <2> QED
    BY <1>1, <2>1, <2>2 DEF IInv, Sound, PositionType, TypeOK, Holds
<1> QED
  BY <1>1, AlwaysInv, PTL

\* Through any buys and sales the average entry price stays between the lowest and the
\* highest price bought at since the position was opened.
THEOREM AvgWithinPricesHolds == Spec => []AvgWithinPrices
<1>1. IInv => AvgWithinPrices
  BY DEF IInv, Sound, AvgWithinPrices
<1> QED
  BY <1>1, AlwaysInv, PTL

-----------------------------------------------------------------------------
\* What rounding to the nearest is: the quotient that misses by a half at most.
LEMMA HalfUpBound ==
    ASSUME NEW a \in Nat, NEW b \in Nat \ {0}
    PROVE  HalfUp(a, b) \in Nat /\ (2 * b) * HalfUp(a, b) <= 2 * a + b
<1> DEFINE x == 2 * a + b
           y == 2 * b
<1>1. x \in Nat /\ y \in Nat /\ y > 0
  OBVIOUS
<1> HIDE DEF x, y
<1>2. x \div y \in Nat /\ y * (x \div y) <= x
  BY <1>1
<1> QED
  BY <1>2 DEF x, y, HalfUp

\* The sum of a rounded amount and its rounded fee.  (calculate_buy_amount, calculate_fee.)
LEMMA BuyAmountWithin ==
    ASSUME NEW budget \in Nat, MinFee = 0
    PROVE  BuyAmount(budget).gross + BuyAmount(budget).fee <= budget + 1
<1> DEFINE G == HalfUp(Base * budget, Base + FeeRate)
           F == HalfUp(FeeRate * G, Base)
<1>1. /\ Base \in Nat /\ Base > 0 /\ FeeRate \in Nat /\ FeeRate < Base
      /\ Base * budget \in Nat /\ FeeRate * budget \in Nat
  BY SizingAssumption, Products
<1>2. G \in Nat /\ (2 * (Base + FeeRate)) * G <= 2 * (Base * budget) + (Base + FeeRate)
  BY <1>1, HalfUpBound
<1> HIDE DEF G
<1>3. FeeRate * G \in Nat /\ Base * G \in Nat
  BY <1>1, <1>2, Products
<1>4. F \in Nat /\ (2 * Base) * F <= 2 * (FeeRate * G) + Base
  BY <1>1, <1>3, HalfUpBound
<1> HIDE DEF F
<1>5. Base * F \in Nat
  BY <1>1, <1>4, Products
<1>6. G + F <= budget + 1
  <2>1. (2 * (Base + FeeRate)) * G = 2 * (Base * G) + 2 * (FeeRate * G)
    BY <1>1, <1>2
  <2>2. (2 * Base) * F = 2 * (Base * F)
    BY <1>1, <1>4
  <2>3. 2 * (Base * G) + 2 * (Base * F) < 2 * (Base * budget) + 3 * Base
    BY <1>1, <1>2, <1>3, <1>4, <1>5, <2>1, <2>2
  <2>4. Base * (2 * (G + F)) = 2 * (Base * G) + 2 * (Base * F)
    BY <1>1, <1>2, <1>4
  <2>5. Base * (2 * budget + 3) = 2 * (Base * budget) + 3 * Base
    BY <1>1
  <2>6. Base * (2 * (G + F)) < Base * (2 * budget + 3)
    BY <2>3, <2>4, <2>5
  <2>7. ~(2 * budget + 3 <= 2 * (G + F))
    <3> SUFFICES ASSUME 2 * budget + 3 <= 2 * (G + F) PROVE FALSE
      OBVIOUS
    <3>1. (2 * budget + 3) * Base <= (2 * (G + F)) * Base
      BY <1>1, <1>2, <1>4, ProductOrder
    <3> QED
      BY <1>1, <1>2, <1>4, <2>6, <3>1
  <2> QED
    BY <1>2, <1>4, <2>7
<1>7. Larger(FeeRate * G, Base * MinFee) = FeeRate * G
  BY <1>1, <1>3 DEF Larger
<1>8. Fee(G) = IF G = 0 THEN 0 ELSE F
  BY <1>7 DEF Fee, F
<1>9. ~(FeeRate * budget < Base * MinFee)
  BY <1>1
<1>10. BuyAmount(budget).gross = G /\ BuyAmount(budget).fee = Fee(G)
  BY <1>9 DEF BuyAmount, G
<1> QED
  BY <1>2, <1>4, <1>6, <1>8, <1>10

AnswerOK ==
    answer.kind = "buy" => answer.budget \in Nat /\ answer.amount = BuyAmount(answer.budget)

\* Without a minimum fee no budget is exceeded by more than one KRW, at any rate.
THEOREM BudgetExceededByOneHolds == Spec => []BudgetExceededByOne
<1>1. Init => AnswerOK
  BY DEF Init, NoAnswer, AnswerOK
<1>2. AnswerOK /\ [Next]_vars => AnswerOK'
  <2> SUFFICES ASSUME AnswerOK, [Next]_vars PROVE AnswerOK'
    OBVIOUS
  <2>1. CASE answer' = NoAnswer
    BY <2>1 DEF NoAnswer, AnswerOK
  <2>2. CASE UNCHANGED vars
    BY <2>2 DEF vars, AnswerOK
  <2>3. CASE QuoteBuy
    BY <2>3, PositionsAssumption DEF QuoteBuy, Answers, AnswerOK
  <2>4. CASE QuoteSell \/ AdviseSize
    BY <2>4 DEF QuoteSell, AdviseSize, Answers, AnswerOK
  <2> QED
    BY <2>1, <2>2, <2>3, <2>4 DEF Next, Create, Fill, Cancel, Fail, Returns, SaveOrder,
       UpdateOrderStatus, Reload, Book, CleanupOldData, Restart
<1>3. AnswerOK => BudgetExceededByOne
  BY BuyAmountWithin DEF AnswerOK, BudgetExceededByOne
<1> QED
  BY <1>1, <1>2, <1>3, PTL DEF Spec
-----------------------------------------------------------------------------
(* What is booked.                                                         *)

\* An order that shows an execution had it, and so had every trade that was made of one.
ExecutionsOK ==
    /\ \A v \in held : v.price > 0 =>
          [id |-> v.id, side |-> v.side, price |-> v.price, volume |-> v.done] \in fills
    /\ booked \in Seq(TradeType)
    /\ \A i \in DOMAIN booked : booked[i] \in fills

\* A step that books nothing, forgets no execution and returns no order with one.
LEMMA ExecutionsStay ==
    ASSUME ExecutionsOK, UNCHANGED booked, fills \subseteq fills',
           \A v \in held' : v \in held \/ v.price = 0
    PROVE  ExecutionsOK'
  BY DEF ExecutionsOK

\* So does a method that returns an order without an execution.
LEMMA ReturnsNone ==
    ASSUME ExecutionsOK, NEW new, Returns(new), new.price = 0, UNCHANGED fills
    PROVE  ExecutionsOK'
  BY ExecutionsStay DEF Returns

LEMMA FillExecutions ==
    ASSUME IInv, ExecutionsOK, NEW v \in held, Fill(v)
    PROVE  ExecutionsOK'
<1> PICK price \in Prices, done \in Volumes :
      /\ Returns([v EXCEPT !.status = "filled", !.price = price, !.done = done])
      /\ fills' = fills \cup {[id |-> v.id, side |-> v.side, price |-> price, volume |-> done]}
  BY DEF Fill
<1> DEFINE new == [v EXCEPT !.status = "filled", !.price = price, !.done = done]
<1>1. new.id = v.id /\ new.side = v.side /\ new.price = price /\ new.done = done
  BY DEF IInv, OrdersOK, OrderType
<1>2. held' = held \cup {new} /\ UNCHANGED booked
  BY DEF Returns
<1> HIDE DEF new
<1>3. ASSUME NEW w \in held', w.price > 0
      PROVE  [id |-> w.id, side |-> w.side, price |-> w.price, volume |-> w.done] \in fills'
  <2>1. CASE w \in held
    BY <1>3, <2>1 DEF ExecutionsOK
  <2>2. CASE w = new
    BY <1>1, <2>2
  <2> QED BY <1>2, <2>1, <2>2
<1> QED BY <1>2, <1>3 DEF ExecutionsOK

LEMMA BookExecutions ==
    ASSUME IInv, ExecutionsOK, NEW v \in held, Book(v)
    PROVE  ExecutionsOK'
<1> DEFINE trade == [id |-> v.id, side |-> v.side, price |-> v.price, volume |-> v.done]
<1>1. trade \in fills
  BY DEF Book, HasTrade, ExecutionsOK
<1>2. trade \in TradeType
  BY <1>1 DEF IInv, OrdersOK
<1>3. booked' = Append(booked, trade) /\ UNCHANGED <<held, fills>>
  BY DEF Book
<1> HIDE DEF trade
<1>4. booked' \in Seq(TradeType)
  BY <1>2, <1>3 DEF ExecutionsOK
<1>5. \A i \in DOMAIN booked' : (i \in DOMAIN booked /\ booked'[i] = booked[i]) \/ booked'[i] = trade
  BY <1>2, <1>3 DEF ExecutionsOK
<1> QED BY <1>1, <1>3, <1>4, <1>5 DEF ExecutionsOK

LEMMA ExecutionsStep ==
    ASSUME IInv, ExecutionsOK, [Next]_vars
    PROVE  ExecutionsOK'
<1>1. ASSUME NEW o \in Orders, Create(o) PROVE ExecutionsOK'
  BY <1>1, ReturnsNone DEF Create
<1>2. ASSUME NEW o \in Orders, UpdateOrderStatus(o) \/ Reload(o) PROVE ExecutionsOK'
  BY <1>2, ReturnsNone DEF UpdateOrderStatus, Reload, ToDomain
<1>3. ASSUME NEW v \in held, Fill(v) PROVE ExecutionsOK'
  BY <1>3, FillExecutions
<1>4. ASSUME NEW v \in held, Cancel(v) \/ Fail(v) PROVE ExecutionsOK'
  <2>1. PICK s \in {"cancelled", "failed"} :
          Returns([v EXCEPT !.status = s, !.price = 0, !.done = 0]) /\ UNCHANGED fills
    BY <1>4 DEF Cancel, Fail
  <2>2. [v EXCEPT !.status = s, !.price = 0, !.done = 0].price = 0
    BY DEF IInv, OrdersOK, OrderType
  <2> QED BY <2>1, <2>2, ReturnsNone
<1>5. ASSUME NEW v \in held, SaveOrder(v) PROVE ExecutionsOK'
  BY <1>5, ExecutionsStay DEF SaveOrder
<1>6. ASSUME NEW v \in held, Book(v) PROVE ExecutionsOK'
  BY <1>6, BookExecutions
<1>7. CASE Restart
  BY <1>7 DEF Restart, ExecutionsOK
<1>8. CASE CleanupOldData \/ QuoteBuy \/ QuoteSell \/ AdviseSize \/ UNCHANGED vars
  BY <1>8, ExecutionsStay DEF CleanupOldData, QuoteBuy, QuoteSell, AdviseSize, Answers, vars
<1> QED BY <1>1, <1>2, <1>3, <1>4, <1>5, <1>6, <1>7, <1>8 DEF Next

LEMMA AlwaysExecutions == Spec => [](IInv /\ ExecutionsOK)
<1>1. Init => ExecutionsOK
  BY DEF Init, ExecutionsOK
<1> QED BY <1>1, InitInv, NextInv, ExecutionsStep, PTL DEF Spec

\* Through any reloads, failures and repeated fills every booked trade is an execution that
\* was given to the order it names.  (Trade.from_order, get_order.)
THEOREM BookedWereExecutedHolds == Spec => []BookedWereExecuted
<1>1. ExecutionsOK => BookedWereExecuted
  BY DEF ExecutionsOK, BookedWereExecuted
<1> QED BY <1>1, AlwaysExecutions, PTL

-----------------------------------------------------------------------------
(* The balance of the trades: a recursion over the last trades, about which *)
(* a least counterexample takes the place of an induction.                  *)

LEMMA Least ==
    ASSUME NEW S \in SUBSET Nat, S # {}
    PROVE  \E m \in S : \A n \in S : m <= n
<1> DEFINE LessThan == {p \in Nat \X Nat : p[1] < p[2]}
<1>1. IsWellFoundedOn(LessThan, Nat)
  BY NatLessThanWellFounded DEF OpToRel
<1>2. \A u, v \in Nat : <<u, v>> \in LessThan <=> u < v
  OBVIOUS
<1> HIDE DEF LessThan
<1>3. PICK m \in S : \A d \in S : <<d, m>> \notin LessThan
  BY <1>1, WFMin
<1>4. ASSUME NEW d \in S PROVE m <= d
  <2>1. d \in Nat /\ m \in Nat /\ <<d, m>> \notin LessThan
    BY <1>3
  <2> QED BY <1>2, <2>1
<1> QED BY <1>4

\* The recursion of NetFrom, for the trades after the first `from'.
Balances(n, trades, from) ==
    \A k \in Nat : k = 0 \/ k > from =>
        n[k] = IF k = 0 \/ k > Len(trades) THEN 0 ELSE Net(trades[k]) + n[k + 1]

LEMMA NetType ==
    ASSUME NEW t \in TradeType
    PROVE  Net(t) \in Int
<1>1. t.volume \in Volumes
  BY DEF TradeType
<1>2. t.volume \in Nat
  BY <1>1, PositionsAssumption
<1> QED BY <1>2 DEF Net

LEMMA BalancesExist ==
    ASSUME NEW trades \in Seq(TradeType)
    PROVE  \E n \in [Nat -> Int] : Balances(n, trades, 0)
<1> DEFINE Bad == {m \in Nat : m <= Len(trades) /\ ~ \E n \in [Nat -> Int] : Balances(n, trades, Len(trades) - m)}
<1>0. Len(trades) \in Nat /\ Len(trades) - Len(trades) = 0
  OBVIOUS
<1>1. ASSUME Bad # {} PROVE FALSE
  <2>1. PICK m \in Bad : \A k \in Bad : m <= k
    BY <1>1, Least
  <2>2. CASE m = 0
    <3>1. Balances([k \in Nat |-> 0], trades, Len(trades) - 0)
      BY DEF Balances
    <3>2. [k \in Nat |-> 0] \in [Nat -> Int]
      OBVIOUS
    <3> QED BY <2>1, <2>2, <3>1, <3>2
  <2>3. CASE m # 0
    <3>1. m - 1 \in Nat /\ m - 1 <= Len(trades) /\ m - 1 \notin Bad
      <4>1. m \in Nat /\ m <= Len(trades) /\ \A k \in Bad : m <= k
        BY <2>1
      <4> HIDE DEF Bad
      <4> QED BY <1>0, <2>3, <4>1
    <3>2. PICK n \in [Nat -> Int] : Balances(n, trades, Len(trades) - (m - 1))
      BY <3>1
    <3> DEFINE at == Len(trades) - (m - 1)
               sum == Net(trades[at]) + n[at + 1]
               next == [n EXCEPT ![at] = sum]
    <3>3. at \in 1 .. Len(trades) /\ Len(trades) - m = at - 1 /\ at \in Nat /\ at + 1 \in Nat
      BY <1>0, <2>1, <2>3
    <3>4. sum \in Int
      <4>1. trades[at] \in TradeType
        BY <3>3
      <4>2. Net(trades[at]) \in Int /\ n[at + 1] \in Int
        BY <3>3, <4>1, NetType
      <4> QED BY <4>2
    <3>5. Balances(n, trades, at)
      BY <3>2
    <3> HIDE DEF at
    <3>6. next \in [Nat -> Int] /\ next[at] = sum /\ \A k \in Nat : k # at => next[k] = n[k]
      BY <3>3, <3>4
    <3>7. next[at + 1] = n[at + 1]
      BY <3>3, <3>6
    <3> HIDE DEF next
    <3>8. ASSUME NEW k \in Nat, k = 0 \/ k > at - 1
          PROVE  next[k] = IF k = 0 \/ k > Len(trades) THEN 0 ELSE Net(trades[k]) + next[k + 1]
      <4>1. CASE k = at
        <5>1. k # 0 /\ ~(k > Len(trades))
          BY <3>3, <4>1
        <5> QED BY <3>6, <3>7, <4>1, <5>1
      <4>2. CASE k # at
        <5>1. (k = 0 \/ k > at) /\ k + 1 \in Nat
          BY <3>3, <3>8, <4>2
        <5>2. n[k] = IF k = 0 \/ k > Len(trades) THEN 0 ELSE Net(trades[k]) + n[k + 1]
          BY <3>5, <5>1 DEF Balances
        <5>3. k # 0 => k + 1 # at
          BY <3>3, <5>1
        <5> QED BY <3>6, <4>2, <5>1, <5>2, <5>3
      <4> QED BY <4>1, <4>2
    <3>9. Balances(next, trades, Len(trades) - m)
      BY <3>3, <3>8 DEF Balances
    <3> QED BY <2>1, <3>6, <3>9
  <2> QED BY <2>2, <2>3
<1>2. Len(trades) \notin Bad
  BY <1>1
<1> QED BY <1>0, <1>2

\* Balances agree on the same trades, and those with one more trade differ by that trade.
LEMMA BalancesOfMore ==
    ASSUME NEW trades \in Seq(TradeType), NEW t \in TradeType,
           NEW n \in [Nat -> Int], Balances(n, trades, 0),
           NEW q \in [Nat -> Int], Balances(q, Append(trades, t), 0)
    PROVE  /\ q[Len(trades) + 1] = Net(t)
           /\ \A k \in 1 .. Len(trades) : q[k] = n[k] + Net(t)
<1> DEFINE L == Len(trades)
           more == Append(trades, t)
<1>1. /\ L \in Nat /\ Len(more) = L + 1 /\ more[L + 1] = t
      /\ \A k \in 1 .. L : more[k] = trades[k] /\ trades[k] \in TradeType
  OBVIOUS
<1>2. Net(t) \in Int
  BY NetType
<1>3. \A k \in Nat : n[k] = IF k = 0 \/ k > L THEN 0 ELSE Net(trades[k]) + n[k + 1]
  BY DEF Balances
<1>8. Balances(q, more, 0)
  OBVIOUS
<1> HIDE DEF more, L
<1>4. \A k \in Nat : q[k] = IF k = 0 \/ k > L + 1 THEN 0 ELSE Net(more[k]) + q[k + 1]
  BY <1>1, <1>8 DEF Balances
<1>5. q[L + 1] = Net(t)
  <2>1. L + 1 \in Nat /\ L + 2 \in Nat /\ q[(L + 1) + 1] = 0
    BY <1>1, <1>4
  <2> QED BY <1>1, <1>2, <1>4, <2>1
<1> DEFINE Bad == {m \in Nat : m < L /\ q[L - m] # n[L - m] + Net(t)}
<1>6. ASSUME Bad # {} PROVE FALSE
  <2>1. PICK m \in Bad : \A k \in Bad : m <= k
    BY <1>6, Least
  <2> DEFINE at == L - m
  <2>2. at \in 1 .. L /\ at \in Nat /\ at + 1 \in Nat /\ q[at] # n[at] + Net(t)
    BY <1>1, <2>1
  <2>3. Net(trades[at]) \in Int /\ more[at] = trades[at]
    BY <1>1, <2>2, NetType
  <2>4. q[at] = Net(trades[at]) + q[at + 1] /\ n[at] = Net(trades[at]) + n[at + 1]
    <3>1. at # 0 /\ ~(at > L) /\ ~(at > L + 1)
      BY <1>1, <2>2
    <3> HIDE DEF at
    <3>2. q[at] = Net(more[at]) + q[at + 1]
      BY <1>4, <2>2, <3>1
    <3>3. n[at] = Net(trades[at]) + n[at + 1]
      BY <1>3, <2>2, <3>1
    <3> QED BY <2>3, <3>2, <3>3
  <2>5. q[at + 1] = n[at + 1] + Net(t)
    <3>1. CASE m = 0
      <4>1. at = L
        BY <1>1, <3>1
      <4>2. n[L + 1] = 0
        BY <1>1, <1>3
      <4> QED BY <1>2, <1>5, <4>1, <4>2
    <3>2. CASE m # 0
      <4>1. m - 1 \in Nat /\ m - 1 < L /\ m - 1 \notin Bad /\ L - (m - 1) = at + 1
        <5>1. m \in Nat /\ m < L /\ \A k \in Bad : m <= k
          BY <2>1
        <5> HIDE DEF Bad
        <5> QED BY <1>1, <3>2, <5>1
      <4>2. q[L - (m - 1)] = n[L - (m - 1)] + Net(t)
        BY <4>1
      <4> QED BY <4>1, <4>2
    <3> QED BY <3>1, <3>2
  <2>6. n[at + 1] \in Int /\ q[at + 1] \in Int
    BY <2>2
  <2> HIDE DEF at
  <2> QED BY <1>2, <2>2, <2>3, <2>4, <2>5, <2>6
<1>7. ASSUME NEW k \in 1 .. L PROVE q[k] = n[k] + Net(t)
  <2>1. L - k \in Nat /\ L - k < L /\ L - (L - k) = k
    BY <1>1
  <2>2. L - k \notin Bad
    BY <1>6
  <2> QED BY <2>1, <2>2
<1> QED BY <1>5, <1>7 DEF L

LEMMA BalancesType ==
    ASSUME NEW trades \in Seq(TradeType), NEW n, Balances(n, trades, 0)
    PROVE  \A k \in Nat : n[k] \in Int
<1> DEFINE L == Len(trades)
           Bad == {m \in Nat : m < L /\ n[L - m] \notin Int}
<1>1. /\ L \in Nat
      /\ \A k \in Nat : n[k] = IF k = 0 \/ k > L THEN 0 ELSE Net(trades[k]) + n[k + 1]
  BY DEF Balances
<1>2. \A k \in 1 .. L : Net(trades[k]) \in Int
  BY NetType
<1> HIDE DEF L
<1>3. ASSUME Bad # {} PROVE FALSE
  <2>1. PICK m \in Bad : \A k \in Bad : m <= k
    BY <1>3, Least
  <2>2. m \in Nat /\ m < L /\ n[L - m] \notin Int
    BY <2>1
  <2>3. L - m \in 1 .. L /\ n[L - m] = Net(trades[L - m]) + n[L - m + 1]
    BY <1>1, <2>2
  <2>4. n[L - m + 1] \in Int
    <3>1. CASE m = 0
      BY <1>1, <3>1
    <3>2. CASE m # 0
      <4>1. m - 1 \in Nat /\ m - 1 < L /\ L - (m - 1) = L - m + 1
        BY <1>1, <2>2, <3>2
      <4>2. m - 1 \notin Bad
        <5> HIDE DEF Bad
        <5> QED BY <2>1, <2>2, <4>1
      <4> QED BY <4>1, <4>2
    <3> QED BY <3>1, <3>2
  <2> QED BY <1>2, <2>2, <2>3, <2>4
<1>4. ASSUME NEW k \in Nat PROVE n[k] \in Int
  <2>1. CASE k = 0 \/ k > L
    BY <1>1, <2>1
  <2>2. CASE k \in 1 .. L
    <3>1. L - k \in Nat /\ L - k < L /\ L - (L - k) = k
      BY <1>1, <2>2
    <3>2. L - k \notin Bad
      BY <1>3
    <3> QED BY <3>1, <3>2
  <2> QED BY <1>1, <2>1, <2>2
<1> QED BY <1>4

\* A recursive definition over the trades has these balances.
LEMMA RecursionBalances ==
    ASSUME NEW trades \in Seq(TradeType), NEW net,
           net = CHOOSE n : n = [k \in Nat |-> IF k = 0 \/ k > Len(trades) THEN 0
                                               ELSE Net(trades[k]) + n[k + 1]]
    PROVE  net \in [Nat -> Int] /\ Balances(net, trades, 0)
<1> DEFINE Is(n) == n = [k \in Nat |-> IF k = 0 \/ k > Len(trades) THEN 0 ELSE Net(trades[k]) + n[k + 1]]
<1>1. PICK n \in [Nat -> Int] : Balances(n, trades, 0)
  BY BalancesExist
<1>2. Is(n)
  BY <1>1 DEF Balances
<1>3. net = CHOOSE f : Is(f)
  OBVIOUS
<1>4. Is(net)
  BY <1>2, <1>3
<1>5. Balances(net, trades, 0)
  BY <1>4 DEF Balances
<1>6. \A k \in Nat : net[k] \in Int
  BY <1>5, BalancesType
<1>7. net = [k \in Nat |-> net[k]]
  BY <1>4
<1> HIDE DEF Is
<1> QED BY <1>5, <1>6, <1>7

-----------------------------------------------------------------------------
Settles(sum, balance, len) ==
    /\ \A k \in 1 .. len : balance[k] <= sum
    /\ sum = 0 \/ \E k \in 1 .. len : balance[k] = sum

\* The volume of the position after a trade.
LEMMA VolumeAfter ==
    ASSUME NEW p, Sound(p), NEW side \in {"buy", "sell"}, NEW volume \in Nat \ {0}, NEW price \in Nat \ {0}
    PROVE  AfterTrade(p, side, volume, price).volume =
             IF side = "buy" THEN p.volume + volume
             ELSE IF volume >= p.volume THEN 0 ELSE p.volume - volume
<1>1. p \in PositionType /\ (p = NoPosition => p.volume = 0)
  BY DEF Sound, NoPosition
<1>2. CASE side = "buy"
  BY <1>1, <1>2 DEF AfterTrade, Opened, Add, PositionType
<1>3. CASE side = "sell" /\ (p = NoPosition \/ volume >= p.volume)
  <2>1. AfterTrade(p, side, volume, price).volume = 0
    BY <1>3 DEF AfterTrade, NoPosition
  <2>2. volume >= p.volume
    BY <1>1, <1>3
  <2> QED BY <1>3, <2>1, <2>2
<1>4. CASE side = "sell" /\ ~(p = NoPosition \/ volume >= p.volume)
  BY <1>1, <1>4 DEF AfterTrade, Reduce, PositionType
<1> QED BY <1>2, <1>3, <1>4

\* One more trade moves the position and the balances alike.
LEMMA SettlesMore ==
    ASSUME NEW len \in Nat, NEW n \in [Nat -> Int], NEW q \in [Nat -> Int],
           NEW v \in Nat, NEW w \in Nat, NEW net \in Int, Settles(v, n, len),
           w = IF v + net > 0 THEN v + net ELSE 0,
           q[len + 1] = net, \A k \in 1 .. len : q[k] = n[k] + net
    PROVE  Settles(w, q, len + 1)
<1>1. ASSUME NEW k \in 1 .. len + 1 PROVE q[k] <= w
  <2>1. CASE k = len + 1
    BY <2>1
  <2>2. CASE k # len + 1
    <3>1. k \in 1 .. len /\ n[k] \in Int
      BY <2>2
    <3>2. n[k] <= v /\ q[k] = n[k] + net
      BY <3>1 DEF Settles
    <3> QED BY <3>1, <3>2
  <2> QED BY <2>1, <2>2
<1>2. ASSUME w # 0 PROVE \E k \in 1 .. len + 1 : q[k] = w
  <2>1. w = v + net
    BY <1>2
  <2>2. CASE v = 0
    <3>1. len + 1 \in 1 .. len + 1 /\ q[len + 1] = w
      BY <2>1, <2>2
    <3> QED BY <3>1
  <2>3. CASE v # 0
    <3>1. PICK k \in 1 .. len : n[k] = v
      BY <2>3 DEF Settles
    <3>2. k \in 1 .. len + 1 /\ q[k] = w
      BY <2>1, <3>1
    <3> QED BY <3>2
  <2> QED BY <2>2, <2>3
<1> QED BY <1>1, <1>2 DEF Settles

LEMMA AddsUpStep ==
    ASSUME IInv, ExecutionsOK, PositionAddsUp, [Next]_vars
    PROVE  PositionAddsUp'
<1>0. booked \in Seq(TradeType) /\ booked' \in Seq(TradeType)
  BY ExecutionsStep DEF ExecutionsOK
<1>1. CASE position' = position /\ booked' = booked
  BY <1>1 DEF PositionAddsUp, NetFrom, Net
<1>2. ASSUME NEW v \in held, Book(v) PROVE PositionAddsUp'
  <2> DEFINE trade == [id |-> v.id, side |-> v.side, price |-> v.price, volume |-> v.done]
  <2>1. /\ v.price \in Nat \ {0} /\ v.done \in Nat \ {0} /\ v.side \in {"buy", "sell"}
        /\ booked' = Append(booked, trade)
        /\ position' = AfterTrade(position, v.side, v.done, v.price)
        /\ trade \in TradeType
    BY <1>2 DEF Book, HasTrade, ExecutionsOK, IInv, OrdersOK, OrderType
  <2>2. trade \in TradeType /\ Net(trade) \in Int
        /\ Net(trade) = IF v.side = "buy" THEN v.done ELSE 0 - v.done
    BY <2>1 DEF TradeType, Net
  <2> HIDE DEF trade
  <2>3. NetFrom \in [Nat -> Int] /\ Balances(NetFrom, booked, 0)
    BY <1>0, RecursionBalances DEF NetFrom
  <2>4. NetFrom' \in [Nat -> Int] /\ Balances(NetFrom', booked', 0)
    BY <1>0, RecursionBalances DEF NetFrom
  <2>5. /\ NetFrom'[Len(booked) + 1] = Net(trade)
        /\ \A k \in 1 .. Len(booked) : NetFrom'[k] = NetFrom[k] + Net(trade)
    BY <1>0, <2>1, <2>2, <2>3, <2>4, BalancesOfMore
  <2>6. position.volume \in Nat /\ Sound(position)
    BY DEF IInv, Sound, PositionType
  <2>7. position'.volume = IF position.volume + Net(trade) > 0 THEN position.volume + Net(trade) ELSE 0
    <3>1. position'.volume = IF v.side = "buy" THEN position.volume + v.done
                             ELSE IF v.done >= position.volume THEN 0 ELSE position.volume - v.done
      BY <2>1, <2>6, VolumeAfter
    <3> QED BY <2>1, <2>2, <2>6, <3>1
  <2>8. position'.volume \in Nat /\ Len(booked) \in Nat /\ Len(booked') = Len(booked) + 1
    BY <1>0, <2>1, <2>2, <2>6, <2>7
  <2>9. Settles(position.volume, NetFrom, Len(booked))
    BY DEF PositionAddsUp, Settles
  <2>10. Settles(position'.volume, NetFrom', Len(booked) + 1)
    BY <2>2, <2>3, <2>4, <2>5, <2>6, <2>7, <2>8, <2>9, SettlesMore
  <2> QED BY <2>8, <2>10 DEF PositionAddsUp, Settles
<1>3. CASE Restart
  BY <1>3 DEF Restart, PositionAddsUp, NoPosition
<1>4. ASSUME NEW o \in Orders, Create(o) \/ UpdateOrderStatus(o) \/ Reload(o)
      PROVE  position' = position /\ booked' = booked
  BY <1>4 DEF Create, Returns, UpdateOrderStatus, Reload
<1>6. ASSUME NEW v \in held, Fill(v) \/ Cancel(v) \/ Fail(v) \/ SaveOrder(v)
      PROVE  position' = position /\ booked' = booked
  BY <1>6 DEF Fill, Cancel, Fail, Returns, SaveOrder
<1>5. CASE CleanupOldData \/ QuoteBuy \/ QuoteSell \/ AdviseSize \/ UNCHANGED vars
  BY <1>1, <1>5 DEF CleanupOldData, QuoteBuy, QuoteSell, AdviseSize, Answers, vars
<1> QED BY <1>1, <1>2, <1>3, <1>4, <1>5, <1>6 DEF Next

\* After any trades, of more than is held or with nothing held too, the position is the
\* largest balance of the last of them.  (update_position_from_trade.)
THEOREM PositionAddsUpHolds == Spec => []PositionAddsUp
<1>1. Init => PositionAddsUp
  BY DEF Init, PositionAddsUp, NoPosition
<1>2. Init => IInv /\ ExecutionsOK
  BY InitInv DEF Init, ExecutionsOK
<1>3. IInv /\ ExecutionsOK /\ PositionAddsUp /\ [Next]_vars
        => (IInv /\ ExecutionsOK /\ PositionAddsUp)'
  BY NextInv, ExecutionsStep, AddsUpStep
<1> QED BY <1>1, <1>2, <1>3, PTL DEF Spec

-----------------------------------------------------------------------------
(* The calculators.                                                        *)

LEMMA ScaleInt ==
    ASSUME NEW a \in Int, NEW b \in Int, NEW c \in Nat, a <= b
    PROVE  a * c <= b * c
  OBVIOUS

LEMMA ProductsInt ==
    ASSUME NEW a \in Int, NEW b \in Int
    PROVE  a * b \in Int
  OBVIOUS

\* The nearest whole number misses by a half at most, on both sides.
LEMMA HalfUpNear ==
    ASSUME NEW a \in Nat, NEW b \in Nat \ {0}
    PROVE  /\ HalfUp(a, b) \in Nat
           /\ 2 * (b * HalfUp(a, b)) <= 2 * a + b
           /\ 2 * (b * HalfUp(a, b)) > 2 * a - b
<1> DEFINE x == 2 * a + b
           y == 2 * b
           h == x \div y
<1>1. x \in Nat /\ y \in Nat /\ y > 0
  OBVIOUS
<1>2. h \in Nat /\ y * h <= x /\ x < y * h + y
  <2> HIDE DEF x, y
  <2> QED BY <1>1
<1> HIDE DEF h
<1>3. y * h = 2 * (b * h) /\ b * h \in Nat
  BY <1>2
<1>4. HalfUp(a, b) = h
  BY DEF HalfUp, h
<1>5. 2 * (b * h) <= 2 * a + b /\ 2 * a + b < 2 * (b * h) + 2 * b
  BY <1>2, <1>3
<1> QED BY <1>2, <1>3, <1>4, <1>5

\* What a whole number below, or above, the nearest is to the fraction.
LEMMA HalfUpSides ==
    ASSUME NEW a \in Nat, NEW b \in Nat \ {0}, NEW k \in Int
    PROVE  /\ k < HalfUp(a, b) => b * k < a
           /\ k > HalfUp(a, b) => b * k > a
<1> DEFINE h == HalfUp(a, b)
<1>1. h \in Nat /\ 2 * (b * h) <= 2 * a + b /\ 2 * (b * h) > 2 * a - b
  BY HalfUpNear
<1> HIDE DEF h
<1>2. b * k \in Int /\ b * h \in Int
  BY <1>1
<1>3. ASSUME k < h PROVE b * k < a
  <2>1. k <= h - 1 /\ h - 1 \in Int
    BY <1>1, <1>3
  <2>2. k * b <= (h - 1) * b
    BY <2>1, ScaleInt
  <2>3. b * k <= b * h - b
    BY <1>1, <2>2
  <2> QED BY <1>1, <1>2, <2>3
<1>4. ASSUME k > h PROVE b * k > a
  <2>1. h + 1 <= k /\ h + 1 \in Int
    BY <1>1, <1>4
  <2>2. (h + 1) * b <= k * b
    BY <2>1, ScaleInt
  <2>3. b * h + b <= b * k
    BY <1>1, <2>2
  <2> QED BY <1>1, <1>2, <2>3
<1> QED BY <1>3, <1>4 DEF h

\* The rounding of a sale: of the volume, of its gross and of its fee.
LEMMA SaleRounded ==
    ASSUME NEW B \in Nat \ {0}, NEW U \in Nat \ {0}, NEW E \in Nat, NEW F \in Nat, B = E + F,
           NEW p \in Nat, NEW t \in Nat, NEW v \in Nat, NEW g \in Nat, NEW fee \in Nat,
           NEW m \in Nat, NEW q \in Nat,
           2 * ((E * p) * v) > 2 * ((B * U) * t) - E * p,
           2 * (U * g) >= 2 * (p * v) - U,
           2 * (B * fee) <= 2 * (F * g) + 2 * (B * m) + B,
           p <= (q + 1) * U
    PROVE  g - fee + 2 + m + q >= t
<1> DEFINE S == B * U
<1>1. S \in Nat /\ S > 0
  BY Products
<1>2. 2 * (S * g) - 2 * ((F * U) * g) >= 2 * ((E * p) * v) - U * E
  <2>1. (2 * (p * v) - U) * E <= (2 * (U * g)) * E
    BY ScaleInt
  <2>2. (2 * (p * v) - U) * E = 2 * ((E * p) * v) - U * E
    OBVIOUS
  <2>3. (2 * (U * g)) * E = 2 * (S * g) - 2 * ((F * U) * g)
    OBVIOUS
  <2> QED BY <2>1, <2>2, <2>3
<1>3. 2 * (S * fee) <= 2 * ((F * U) * g) + 2 * (S * m) + S
  <2>1. (2 * (B * fee)) * U <= (2 * (F * g) + 2 * (B * m) + B) * U
    BY ScaleInt
  <2>2. (2 * (B * fee)) * U = 2 * (S * fee)
    OBVIOUS
  <2>3. (2 * (F * g) + 2 * (B * m) + B) * U = 2 * ((F * U) * g) + 2 * (S * m) + S
    OBVIOUS
  <2> QED BY <2>1, <2>2, <2>3
<1>4. E * p <= S * q + S
  <2>1. E * p <= B * p
    <3>1. E <= B
      OBVIOUS
    <3> QED BY <3>1, ProductOrder
  <2>2. p * B <= ((q + 1) * U) * B
    BY ScaleInt
  <2>3. ((q + 1) * U) * B = S * q + S /\ p * B = B * p
    OBVIOUS
  <2> QED BY <2>1, <2>2, <2>3
<1>5. U * E <= S
  <2>1. E * U <= B * U
    BY ProductOrder
  <2> QED BY <2>1
<1> DEFINE epv == (E * p) * v
           fug == (F * U) * g
           ep == E * p
           ue == U * E
<1>6. /\ S * g \in Nat /\ fug \in Nat /\ epv \in Nat /\ S * fee \in Nat /\ S * m \in Nat
      /\ S * q \in Nat /\ S * t \in Nat /\ ep \in Nat /\ ue \in Nat
  BY <1>1, Products
<1>7. 2 * epv > 2 * (S * t) - ep
  OBVIOUS
<1> HIDE DEF epv, fug, S, ep, ue
<1>8. 2 * (S * g) - 2 * (S * fee) > 2 * (S * t) - S * q - 3 * S - 2 * (S * m)
  <2>1. 2 * (S * g) - 2 * fug >= 2 * epv - ue
    BY <1>2 DEF epv, fug, ue
  <2>2. 2 * (S * fee) <= 2 * fug + 2 * (S * m) + S
    BY <1>3 DEF fug
  <2>3. ep <= S * q + S /\ ue <= S
    BY <1>4, <1>5 DEF ep, ue
  <2> QED BY <1>1, <1>6, <1>7, <2>1, <2>2, <2>3
<1> DEFINE k == 2 * g - 2 * fee - 2 * t + q + 3 + 2 * m
<1>9. S * k > 0
  <2>1. S * k = 2 * (S * g) - 2 * (S * fee) - 2 * (S * t) + S * q + 3 * S + 2 * (S * m)
    BY <1>1
  <2> QED BY <1>1, <1>6, <1>8, <2>1
<1>10. k \in Int
  OBVIOUS
<1>11. k > 0
  <2> HIDE DEF k
  <2>1. ASSUME k <= 0 PROVE FALSE
    <3>1. k * S <= 0 * S
      BY <1>1, <1>10, <2>1, ScaleInt
    <3> QED BY <1>1, <1>9, <1>10, <3>1
  <2> QED BY <1>10, <2>1
<1> QED BY <1>11

\* A sale brings its target but for the minimum fee, two KRW and a step of the volume.
LEMMA SaleCovers ==
    ASSUME NEW target \in Nat, NEW price \in Nat \ {0}
    PROVE  SellNet(price, SellVolumeForNet(target, price)) + 2 + MinFee + price \div Unit >= target
<1> DEFINE E == Base - FeeRate
           v == SellVolumeForNet(target, price)
           g == Gross(price, v)
           q == price \div Unit
           fee == Fee(g)
<1>1. /\ Base \in Nat \ {0} /\ Unit \in Nat \ {0} /\ FeeRate \in Nat /\ MinFee \in Nat
      /\ E \in Nat \ {0} /\ Base = E + FeeRate
  BY SizingAssumption
<1>2. q \in Nat /\ price <= (q + 1) * Unit
  <2>1. q \in Nat /\ Unit * q <= price /\ price < Unit * q + Unit
    BY <1>1
  <2> HIDE DEF q
  <2>2. (q + 1) * Unit = Unit * q + Unit
    BY <1>1, <2>1
  <2> QED BY <1>1, <2>1, <2>2
<1> HIDE DEF q
<1>3. v \in Nat /\ 2 * ((E * price) * v) > 2 * ((Base * Unit) * target) - E * price
  <2>1. (Base * Unit) * target \in Nat /\ E * price \in Nat \ {0}
    BY <1>1, Products
  <2>2. v = HalfUp((Base * Unit) * target, E * price)
    BY DEF SellVolumeForNet
  <2> QED BY <2>1, <2>2, HalfUpNear
<1> HIDE DEF v
<1>4. g \in Nat /\ 2 * (Unit * g) >= 2 * (price * v) - Unit
  <2>1. price * v \in Nat
    BY <1>3, Products
  <2>2. g = HalfUp(price * v, Unit)
    BY DEF Gross
  <2> HIDE DEF g
  <2>3. g \in Nat /\ 2 * (Unit * g) > 2 * (price * v) - Unit
    BY <1>1, <2>1, <2>2, HalfUpNear
  <2>4. Unit * g \in Nat
    BY <1>1, <2>3, Products
  <2> QED BY <1>1, <2>1, <2>3, <2>4
<1> HIDE DEF g
<1>5. fee \in Nat /\ 2 * (Base * fee) <= 2 * (FeeRate * g) + 2 * (Base * MinFee) + Base
  <2> DEFINE most == Larger(FeeRate * g, Base * MinFee)
  <2>1. FeeRate * g \in Nat /\ Base * MinFee \in Nat
    BY <1>1, <1>4, Products
  <2>2. most \in Nat /\ most <= FeeRate * g + Base * MinFee
    BY <2>1 DEF Larger
  <2> HIDE DEF most
  <2>3. CASE g = 0
    BY <1>1, <2>1, <2>3 DEF Fee
  <2>4. CASE g # 0
    <3>1. fee = HalfUp(most, Base)
      BY <2>4 DEF Fee, most
    <3> HIDE DEF fee
    <3>2. fee \in Nat /\ 2 * (Base * fee) <= 2 * most + Base
      BY <1>1, <2>2, <3>1, HalfUpNear
    <3>3. Base * fee \in Nat
      BY <1>1, <3>2, Products
    <3> QED BY <1>1, <2>1, <2>2, <3>2, <3>3 DEF fee
  <2> QED BY <2>3, <2>4
<1>6. SellNet(price, v) = g - fee
  BY DEF SellNet, g, fee
<1> HIDE DEF fee, E
<1>7. g - fee + 2 + MinFee + q >= target
  BY <1>1, <1>2, <1>3, <1>4, <1>5, SaleRounded
<1>8. SellNet(price, SellVolumeForNet(target, price)) + 2 + MinFee + price \div Unit
        = g - fee + 2 + MinFee + q
  BY <1>6 DEF v, q
<1> QED BY <1>7, <1>8

\* One KRW less than the recommended size is within the risk and passes the check.
LEMMA SizeWithin ==
    ASSUME NEW value \in Nat \ {0}, NEW risk \in Nat
    PROVE  /\ (RecommendedSize(value, risk) - 1) * StopLoss <= risk * value
           /\ TradeSizeAllowed(RecommendedSize(value, risk) - 1, value)
<1> DEFINE byRisk == HalfUp(risk * value, StopLoss)
           byShare == MaxPositionSize(value)
           less == RecommendedSize(value, risk) - 1
<1>1. /\ Base \in Nat \ {0} /\ StopLoss \in Nat \ {0} /\ MaxSize \in Nat
      /\ risk * value \in Nat /\ MaxSize * value \in Nat
  BY SizingAssumption, Products
<1>2. byRisk \in Nat /\ byShare \in Nat
  BY <1>1, HalfUpNear DEF MaxPositionSize
<1> HIDE DEF byRisk
<1>3. less \in Int /\ less < byRisk /\ less < byShare
  BY <1>2 DEF RecommendedSize, Smaller, byRisk
<1> HIDE DEF byShare, less
<1>4. StopLoss * less < risk * value
  BY <1>1, <1>3, HalfUpSides DEF byRisk
<1>5. Base * less < MaxSize * value
  BY <1>1, <1>3, HalfUpSides DEF byShare, MaxPositionSize
<1>6. StopLoss * less \in Int /\ Base * less \in Int /\ less * StopLoss = StopLoss * less
  BY <1>1, <1>3
<1>7. less * StopLoss <= risk * value /\ Base * less <= MaxSize * value
  BY <1>1, <1>4, <1>5, <1>6
<1> QED BY <1>7 DEF less, TradeSizeAllowed

\* Against an exit price, and as the price rises, a position is as risky as it should be.
LEMMA ExitsDue ==
    ASSUME NEW p, Sound(p), p # NoPosition, NEW price \in Int
    PROVE  /\ price < StopPrice(p) => PositionRisk(p, price) = "critical"
           /\ price > StopPrice(p) => PositionRisk(p, price) # "critical"
           /\ price < TakeProfitPrice(p) => ~GainAtLeast(p, price, TakeProfit)
           /\ price > TakeProfitPrice(p) => GainAtLeast(p, price, TakeProfit)
           /\ Rank(PositionRisk(p, price + 1)) <= Rank(PositionRisk(p, price))
<1> DEFINE N == p.num
           D == p.den
           b == D * Base
           gain(x) == Base * (x * D - N)
           third == (3 * Base) \div 100
<1>1. /\ N \in Nat /\ D \in Nat \ {0} /\ Base \in Nat \ {0} /\ StopLoss \in Nat /\ TakeProfit \in Nat
      /\ Base - StopLoss \in Nat
  BY SizingAssumption DEF Sound, PositionType
<1>2. third \in Nat
  BY <1>1
<1> HIDE DEF N, D, third
<1>3. b \in Nat \ {0} /\ N * (Base - StopLoss) \in Nat /\ N * (Base + TakeProfit) \in Nat
  BY <1>1, Products
<1>4. \A x \in Int : gain(x) = b * x - Base * N
  BY <1>1
<1>5. N * (Base - StopLoss) = Base * N - StopLoss * N /\ N * (Base + TakeProfit) = Base * N + TakeProfit * N
  BY <1>1
<1>6. Base * N \in Int /\ StopLoss * N \in Nat /\ TakeProfit * N \in Nat /\ third * N \in Nat
  BY <1>1, <1>2, Products
<1>7. \A x \in Int : b * x \in Int /\ b * (x + 1) = b * x + b
  BY <1>3
<1>8. /\ \A x : LossAtLeast(p, x, StopLoss) <=> gain(x) <= -(StopLoss * N)
      /\ \A x : LossOver(p, x, third) <=> gain(x) < -(third * N)
      /\ \A x : LossOver(p, x, 0) <=> gain(x) < -(0 * N)
      /\ \A x : GainAtLeast(p, x, TakeProfit) <=> gain(x) >= TakeProfit * N
  BY DEF LossAtLeast, LossOver, GainAtLeast, N, D
<1>9. /\ StopPrice(p) = HalfUp(N * (Base - StopLoss), b)
      /\ TakeProfitPrice(p) = HalfUp(N * (Base + TakeProfit), b)
  BY DEF StopPrice, TakeProfitPrice, N, D
<1> HIDE DEF b, gain
<1>10. /\ price < StopPrice(p) => b * price < N * (Base - StopLoss)
       /\ price > StopPrice(p) => b * price > N * (Base - StopLoss)
       /\ price < TakeProfitPrice(p) => b * price < N * (Base + TakeProfit)
       /\ price > TakeProfitPrice(p) => b * price > N * (Base + TakeProfit)
  BY <1>3, <1>9, HalfUpSides
<1>11. gain(price) = b * price - Base * N /\ b * price \in Int
  BY <1>4, <1>7
<1> DEFINE sl == StopLoss * N
           tp == TakeProfit * N
           bn == Base * N
           bp == b * price
<1>12. /\ price < StopPrice(p) => LossAtLeast(p, price, StopLoss)
       /\ price > StopPrice(p) => ~LossAtLeast(p, price, StopLoss)
       /\ price < TakeProfitPrice(p) => ~GainAtLeast(p, price, TakeProfit)
       /\ price > TakeProfitPrice(p) => GainAtLeast(p, price, TakeProfit)
  <2>1. sl \in Nat /\ tp \in Nat /\ bn \in Int /\ bp \in Int /\ gain(price) = bp - bn
    BY <1>6, <1>11
  <2>2. /\ N * (Base - StopLoss) = bn - sl /\ N * (Base + TakeProfit) = bn + tp
        /\ LossAtLeast(p, price, StopLoss) <=> gain(price) <= -sl
        /\ GainAtLeast(p, price, TakeProfit) <=> gain(price) >= tp
    BY <1>5, <1>8
  <2>3. /\ price < StopPrice(p) => bp < N * (Base - StopLoss)
        /\ price > StopPrice(p) => bp > N * (Base - StopLoss)
        /\ price < TakeProfitPrice(p) => bp < N * (Base + TakeProfit)
        /\ price > TakeProfitPrice(p) => bp > N * (Base + TakeProfit)
    BY <1>10
  <2> HIDE DEF sl, tp, bn, bp
  <2> QED BY <2>1, <2>2, <2>3
<1>13. /\ price < StopPrice(p) => PositionRisk(p, price) = "critical"
       /\ price > StopPrice(p) => PositionRisk(p, price) # "critical"
  BY <1>12 DEF PositionRisk
<1>14. gain(price) \in Int /\ gain(price + 1) \in Int /\ gain(price) <= gain(price + 1)
  <2>1. price + 1 \in Int /\ gain(price + 1) = b * (price + 1) - Base * N /\ b * (price + 1) = b * price + b
    BY <1>4, <1>7
  <2> QED BY <1>3, <1>6, <1>11, <2>1
<1>15. /\ LossAtLeast(p, price + 1, StopLoss) => LossAtLeast(p, price, StopLoss)
       /\ LossOver(p, price + 1, third) => LossOver(p, price, third)
       /\ LossOver(p, price + 1, 0) => LossOver(p, price, 0)
  <2> DEFINE low == gain(price)
             high == gain(price + 1)
             x == -(StopLoss * N)
             y == -(third * N)
             z == -(0 * N)
  <2>1. x \in Int /\ y \in Int /\ z \in Int
    BY <1>1, <1>6
  <2>2. low \in Int /\ high \in Int /\ low <= high
    BY <1>14
  <2>3. /\ LossAtLeast(p, price + 1, StopLoss) <=> high <= x
        /\ LossAtLeast(p, price, StopLoss) <=> low <= x
        /\ LossOver(p, price + 1, third) <=> high < y
        /\ LossOver(p, price, third) <=> low < y
        /\ LossOver(p, price + 1, 0) <=> high < z
        /\ LossOver(p, price, 0) <=> low < z
    BY <1>8
  <2> HIDE DEF low, high, x, y, z
  <2> QED BY <2>1, <2>2, <2>3
<1>16. \A x : Rank(PositionRisk(p, x)) =
          IF LossAtLeast(p, x, StopLoss) THEN 3 ELSE IF LossOver(p, x, third) THEN 2
          ELSE IF LossOver(p, x, 0) THEN 1 ELSE 0
  <2>1. Rank("critical") = 3 /\ Rank("high") = 2 /\ Rank("medium") = 1 /\ Rank("low") = 0
    BY DEF Rank
  <2> QED BY <2>1 DEF PositionRisk, third
<1>17. Rank(PositionRisk(p, price + 1)) <= Rank(PositionRisk(p, price))
  BY <1>15, <1>16
<1> QED BY <1>12, <1>13, <1>17

LEMMA ExitPricesInt ==
    ASSUME NEW p, Sound(p), p # NoPosition
    PROVE  StopPrice(p) \in Nat /\ TakeProfitPrice(p) \in Nat
<1>1. /\ p.num \in Nat /\ p.den \in Nat \ {0} /\ Base \in Nat \ {0} /\ TakeProfit \in Nat
      /\ Base - StopLoss \in Nat
  BY SizingAssumption DEF Sound, PositionType
<1>2. p.den * Base \in Nat \ {0} /\ p.num * (Base - StopLoss) \in Nat /\ p.num * (Base + TakeProfit) \in Nat
  BY <1>1, Products
<1> QED BY <1>2, HalfUpNear DEF StopPrice, TakeProfitPrice

\* What the calculators were asked, and what they answered.
QuoteOK ==
    /\ answer.kind = "sell" => /\ answer.target \in Nat /\ answer.price \in Nat \ {0}
                               /\ answer.net = SellNet(answer.price, SellVolumeForNet(answer.target, answer.price))
    /\ answer.kind = "size" => /\ answer.value \in Nat \ {0} /\ answer.risk \in Nat
                               /\ answer.size = RecommendedSize(answer.value, answer.risk)

\* At any rate, fee, loss and price the calculators agree with the rules they are computed
\* from: a sale brings its target but for rounding, a size stays within the risk, and an exit
\* is due beyond its price and not before.  (FeeCalculator, RiskCalculator.)
THEOREM CalculatorsAgreeHolds == Spec => []CalculatorsAgree
<1>1. Init => QuoteOK
  BY DEF Init, NoAnswer, QuoteOK
<1>2. QuoteOK /\ [Next]_vars => QuoteOK'
  <2> SUFFICES ASSUME QuoteOK, [Next]_vars PROVE QuoteOK'
    OBVIOUS
  <2>1. CASE answer' = NoAnswer
    BY <2>1 DEF NoAnswer, QuoteOK
  <2>2. CASE UNCHANGED vars
    BY <2>2 DEF vars, QuoteOK
  <2>3. CASE QuoteBuy
    BY <2>3 DEF QuoteBuy, Answers, QuoteOK
  <2>4. CASE QuoteSell
    BY <2>4, PositionsAssumption DEF QuoteSell, Answers, QuoteOK
  <2>5. CASE AdviseSize
    BY <2>5, PositionsAssumption DEF AdviseSize, Answers, QuoteOK
  <2> QED
    BY <2>1, <2>2, <2>3, <2>4, <2>5 DEF Next, Create, Fill, Cancel, Fail, Returns, SaveOrder,
       UpdateOrderStatus, Reload, Book, CleanupOldData, Restart
<1>3. QuoteOK /\ IInv => CalculatorsAgree
  <2> SUFFICES ASSUME QuoteOK, IInv PROVE CalculatorsAgree
    OBVIOUS
  <2>1. SellCoversTarget
    BY SaleCovers DEF QuoteOK, SellCoversTarget
  <2>2. SizeWithinRisk
    BY SizeWithin DEF QuoteOK, SizeWithinRisk
  <2>3. ExitPricesAgree
    <3>1. CASE Holds
      <4>1. Sound(position) /\ position # NoPosition
        BY <3>1 DEF IInv, Holds
      <4>2. StopPrice(position) \in Nat /\ TakeProfitPrice(position) \in Nat
        BY <4>1, ExitPricesInt
      <4>3. \A price \in (StopPrice(position) - 2) .. (TakeProfitPrice(position) + 1) : price \in Int
        BY <4>2
      <4> QED BY <4>1, <4>3, ExitsDue DEF ExitPricesAgree
    <3>2. CASE ~Holds
      BY <3>2 DEF ExitPricesAgree
    <3> QED BY <3>1, <3>2
  <2> QED BY <2>1, <2>2, <2>3 DEF CalculatorsAgree
<1> QED BY <1>1, <1>2, <1>3, AlwaysInv, PTL DEF Spec
=============================================================================
