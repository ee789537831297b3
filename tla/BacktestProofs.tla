--------------------------- MODULE BacktestProofs ---------------------------
(***************************************************************************)
(* What holds of a backtest run for every history, capital, fee and        *)
(* parameter: the state is well typed, the books add up, no order fills    *)
(* at a price its bar did not trade at, no position outlives its stop,     *)
(* what the strategy tracks is what the portfolio holds, no signal looks   *)
(* ahead, and the report says what the trades did.                         *)
(***************************************************************************)
EXTENDS Backtest, FiniteSetTheorems, WellFoundedInduction, TLAPS

-----------------------------------------------------------------------------
(* Sums: induction over the sets a sum is taken of, by a least             *)
(* counterexample.                                                         *)

\* A set of natural numbers that is not empty has a least element.
LEMMA Least ==
    ASSUME NEW S \in SUBSET Nat, S # {}
    PROVE  \E m \in S : \A n \in S : m <= n
<1> DEFINE LessThan == {p \in Nat \X Nat : p[1] < p[2]}
<1>1. IsWellFoundedOn(LessThan, Nat)
  BY NatLessThanWellFounded DEF OpToRel
<1>2. \A u, v \in Nat : <<u, v>> \in LessThan <=> u < v
  OBVIOUS
<1> HIDE DEF LessThan
<1>3. PICK m \in S : \A d \in S : <<d, m>> \notin LessThan
  BY <1>1, WFMin
<1>4. \A d \in S : m <= d
  <2> TAKE d \in S
  <2>1. d \in Nat /\ m \in Nat /\ <<d, m>> \notin LessThan
    BY <1>3
  <2>2. ~(d < m)
    BY <1>2, <2>1
  <2> QED BY <2>1, <2>2
<1> QED BY <1>4

\* The element of a set that a sum takes first.
One(s) == CHOOSE x \in s : TRUE

\* g sums f over the sets of a collection.
Sums(g, f, D) == g = [s \in D |-> IF s = {} THEN 0 ELSE f[One(s)] + g[s \ {One(s)}]]

LEMMA SumIs ==
    ASSUME NEW f
    PROVE  SumFunction(f) = (CHOOSE g : Sums(g, f, SUBSET DOMAIN f))[DOMAIN f]
BY DEF SumFunction, SumFunctionOnSet, FoldFunctionOnSet, MapThenFoldSet, Sums, One

LEMMA SmallerSet ==
    ASSUME NEW S, IsFiniteSet(S), NEW s \in SUBSET S, s # {}
    PROVE  /\ One(s) \in s /\ s \ {One(s)} \in SUBSET S
           /\ Cardinality(s) \in Nat /\ Cardinality(s \ {One(s)}) = Cardinality(s) - 1
           /\ Cardinality(s) > 0
<1>1. One(s) \in s
  BY DEF One
<1>2. IsFiniteSet(s) /\ Cardinality(s) \in Nat
  BY FS_Subset, FS_CardinalityType
<1>3. Cardinality(s \ {One(s)}) = Cardinality(s) - 1 /\ IsFiniteSet(s \ {One(s)})
  BY <1>1, <1>2, FS_RemoveElement
<1>4. Cardinality(s \ {One(s)}) \in Nat
  BY <1>3, FS_CardinalityType
<1> QED BY <1>1, <1>2, <1>3, <1>4

Upto(S, n) == {s \in SUBSET S : Cardinality(s) <= n}

\* Sums over the sets of at most n elements exist, for every n.
LEMMA SumsExist ==
    ASSUME NEW f, IsFiniteSet(DOMAIN f)
    PROVE  \A n \in Nat : \E g : Sums(g, f, Upto(DOMAIN f, n))
<1> DEFINE S == DOMAIN f
           Bad == {n \in Nat : ~ \E g : Sums(g, f, Upto(S, n))}
<1> SUFFICES ASSUME Bad # {} PROVE FALSE
  OBVIOUS
<1>1. PICK n \in Bad : \A k \in Bad : n <= k
  BY Least
<1>2. \A s \in SUBSET S : Cardinality(s) \in Nat /\ (Cardinality(s) = 0 <=> s = {})
  BY FS_Subset, FS_CardinalityType, FS_EmptySet
<1>3. CASE n = 0
  <2> DEFINE g == [s \in Upto(S, 0) |-> 0]
  <2>1. \A s \in Upto(S, 0) : s = {}
    BY <1>2 DEF Upto
  <2>2. Sums(g, f, Upto(S, 0))
    BY <2>1 DEF Sums
  <2> QED BY <1>3, <2>2
<1>4. CASE n # 0
  <2>1. n - 1 \in Nat /\ n - 1 \notin Bad
    BY <1>1, <1>4
  <2>2. PICK g : Sums(g, f, Upto(S, n - 1))
    BY <2>1
  <2> DEFINE h == [s \in Upto(S, n) |-> IF s = {} THEN 0 ELSE f[One(s)] + g[s \ {One(s)}]]
  <2>3. \A s \in Upto(S, n) : s # {} => s \ {One(s)} \in Upto(S, n - 1) /\ s \ {One(s)} \in Upto(S, n)
    <3> SUFFICES ASSUME NEW s \in Upto(S, n), s # {}
                 PROVE  s \ {One(s)} \in Upto(S, n - 1) /\ s \ {One(s)} \in Upto(S, n)
      OBVIOUS
    <3>1. s \in SUBSET S /\ Cardinality(s) <= n /\ n \in Nat
      BY DEF Upto
    <3> QED BY <3>1, SmallerSet DEF Upto
  <2>4. \A s \in Upto(S, n - 1) : s \in Upto(S, n) /\ g[s] = h[s]
    <3> TAKE s \in Upto(S, n - 1)
    <3>1. s \in Upto(S, n)
      BY <1>2, <2>1 DEF Upto
    <3>2. g[s] = IF s = {} THEN 0 ELSE f[One(s)] + g[s \ {One(s)}]
      BY <2>2 DEF Sums
    <3> QED BY <3>1, <3>2
  <2>5. \A s \in Upto(S, n) : h[s] = IF s = {} THEN 0 ELSE f[One(s)] + h[s \ {One(s)}]
    BY <2>3, <2>4
  <2>6. h = [s \in Upto(S, n) |-> IF s = {} THEN 0 ELSE f[One(s)] + h[s \ {One(s)}]]
    <3>1. h = [s \in Upto(S, n) |-> h[s]]
      OBVIOUS
    <3> HIDE DEF h
    <3> QED BY <2>5, <3>1
  <2> HIDE DEF h
  <2>7. Sums(h, f, Upto(S, n))
    BY <2>6 DEF Sums
  <2> QED BY <2>7
<1> QED BY <1>3, <1>4

\* The sum of a finite function is a recursion over the sets of its domain.
LEMMA SumDef ==
    ASSUME NEW f, IsFiniteSet(DOMAIN f)
    PROVE  \E g : /\ SumFunction(f) = g[DOMAIN f]
                  /\ \A s \in SUBSET DOMAIN f :
                        g[s] = IF s = {} THEN 0 ELSE f[One(s)] + g[s \ {One(s)}]
<1> DEFINE S == DOMAIN f
           g == CHOOSE g : Sums(g, f, SUBSET S)
<1>1. Upto(S, Cardinality(S)) = SUBSET S
  <2>1. \A s \in SUBSET S : Cardinality(s) <= Cardinality(S)
    BY FS_Subset
  <2> QED BY <2>1 DEF Upto
<1>2. Cardinality(S) \in Nat
  BY FS_CardinalityType
<1>3. \E h : Sums(h, f, SUBSET S)
  <2>1. \E h : Sums(h, f, Upto(S, Cardinality(S)))
    BY <1>2, SumsExist
  <2> QED BY <1>1, <2>1
<1>4. Sums(g, f, SUBSET S)
  BY <1>3
<1>5. SumFunction(f) = g[DOMAIN f]
  BY SumIs
<1> HIDE DEF g
<1> QED BY <1>4, <1>5 DEF Sums

\* A sum of numbers of a set that is closed under addition is one of them.
LEMMA SumType ==
    ASSUME NEW X, 0 \in X, \A a, b \in X : a + b \in X,
           NEW S, IsFiniteSet(S), NEW f \in [S -> X]
    PROVE  SumFunction(f) \in X
<1>1. PICK g : /\ SumFunction(f) = g[S]
               /\ \A s \in SUBSET S : g[s] = IF s = {} THEN 0 ELSE f[One(s)] + g[s \ {One(s)}]
  <2>1. DOMAIN f = S
    OBVIOUS
  <2>2. IsFiniteSet(DOMAIN f)
    BY <2>1
  <2>3. \E g : /\ SumFunction(f) = g[DOMAIN f]
               /\ \A s \in SUBSET DOMAIN f :
                     g[s] = IF s = {} THEN 0 ELSE f[One(s)] + g[s \ {One(s)}]
    BY <2>2, SumDef
  <2> QED BY <2>1, <2>3
<1> DEFINE Bad == {n \in Nat : \E s \in SUBSET S : Cardinality(s) = n /\ g[s] \notin X}
<1>2. ASSUME Bad # {} PROVE FALSE
  <2>1. PICK n \in Bad : \A k \in Bad : n <= k
    BY <1>2, Least
  <2>2. PICK s \in SUBSET S : Cardinality(s) = n /\ g[s] \notin X
    BY <2>1
  <2>3. s # {} /\ g[s] = f[One(s)] + g[s \ {One(s)}]
    BY <1>1, <2>2
  <2>4. /\ One(s) \in S /\ s \ {One(s)} \in SUBSET S
        /\ Cardinality(s \ {One(s)}) = n - 1 /\ n > 0
    BY <2>2, <2>3, SmallerSet
  <2>5. n - 1 \in Nat /\ n - 1 \notin Bad
    BY <2>1, <2>4
  <2>6. g[s \ {One(s)}] \in X
    BY <2>4, <2>5
  <2> QED BY <2>2, <2>3, <2>4, <2>6
<1>3. S \in SUBSET S /\ Cardinality(S) \in Nat
  BY FS_CardinalityType
<1>4. g[S] \in X
  BY <1>2, <1>3
<1> QED BY <1>1, <1>4

LEMMA SumInt ==
    ASSUME NEW S, IsFiniteSet(S), NEW f \in [S -> Int]
    PROVE  SumFunction(f) \in Int
<1>1. 0 \in Int /\ \A a, b \in Int : a + b \in Int
  OBVIOUS
<1> QED BY <1>1, SumType, Zenon

-----------------------------------------------------------------------------
(* The operators of the strategy.                                          *)

LEMMA MaxPair ==
    ASSUME NEW a \in Int, NEW b \in Int
    PROVE  /\ Max({a, b}) \in {a, b} /\ Max({a, b}) >= a /\ Max({a, b}) >= b
           /\ Max({a, b}) \in Int
BY DEF Max

LEMMA MinPair ==
    ASSUME NEW a \in Int, NEW b \in Int
    PROVE  /\ Min({a, b}) \in {a, b} /\ Min({a, b}) <= a /\ Min({a, b}) <= b
           /\ Min({a, b}) \in Int
BY DEF Min

LEMMA AbsType ==
    ASSUME NEW a \in Int
    PROVE  Abs(a) \in Int
BY MaxPair, 0 - a \in Int DEF Abs

LEMMA Quotient ==
    ASSUME NEW a \in Int, NEW b \in Nat, b > 0
    PROVE  a \div b \in Int /\ (a >= 0 => a \div b >= 0)
OBVIOUS

Bars == [open : Nat, high : Nat, low : Nat, close : Nat, volume : Nat, width : Nat, adx : Nat]

\* What a history promises of each of its bars.
LEMMA BarType ==
    ASSUME NEW d \in Histories, NEW j \in 1 .. Len(d)
    PROVE  /\ d \in Seq(Bars) /\ Len(d) \in Nat /\ d[j] \in Bars
           /\ 0 < d[j].low /\ d[j].low <= d[j].open /\ d[j].open <= d[j].high
           /\ d[j].low <= d[j].close /\ d[j].close <= d[j].high
<1>1. d \in Seq(Bars) /\ DOMAIN d = 1 .. Len(d) /\ Len(d) \in Nat
  BY BacktestAssumption DEF Bars
<1>2. d[j] \in Bars
  BY <1>1
<1> QED BY <1>1, <1>2, BacktestAssumption

LEMMA TrueRangeType ==
    ASSUME NEW d \in Histories, NEW j \in 1 .. Len(d)
    PROVE  TrueRange(d, j) \in Int
<1>1. d[j].high \in Int /\ d[j].low \in Int /\ d[j].high - d[j].low \in Int
  BY BarType DEF Bars
<1>2. CASE j = 1
  <2>1. TrueRange(d, j) = Max({d[j].high - d[j].low, d[j].high - d[j].low})
    BY <1>2 DEF TrueRange
  <2> QED BY <1>1, <2>1, MaxPair
<1>3. CASE j # 1
  <2> DEFINE c == d[j - 1].close
             x == d[j].high - d[j].low
             y == Abs(d[j].high - c)
             z == Abs(d[j].low - c)
  <2>1. j - 1 \in 1 .. Len(d)
    BY <1>3, BarType
  <2>2. c \in Int
    <3>1. d[j - 1] \in Bars
      BY <2>1, BarType
    <3> QED BY <3>1 DEF Bars
  <2>3. d[j].high - c \in Int /\ d[j].low - c \in Int
    BY <1>1, <2>2
  <2>4. y \in Int /\ z \in Int
    BY <2>3, AbsType
  <2>5. TrueRange(d, j) = Max({x, y, z})
    <3>1. ({x} \cup UNION {{Abs(d[j].high - e), Abs(d[j].low - e)} : e \in {c}}) = {x, y, z}
      OBVIOUS
    <3> QED BY <1>3, <3>1 DEF TrueRange
  <2> HIDE DEF x, y, z
  <2>6. x \in Int
    BY <1>1 DEF x
  <2>7. \E m \in {x, y, z} : \A n \in {x, y, z} : m >= n
    BY <2>4, <2>6
  <2>8. Max({x, y, z}) \in {x, y, z}
    BY <2>7 DEF Max
  <2> QED BY <2>4, <2>5, <2>6, <2>8
<1> QED BY <1>2, <1>3

LEMMA AtrType ==
    ASSUME NEW d \in Histories, NEW n \in 1 .. Len(d), Ready(n)
    PROVE  Atr(d, n) \in Int
<1> DEFINE S == (n - AtrPeriod + 1) .. n
           f == [j \in S |-> TrueRange(d, j)]
<1>1. /\ AtrPeriod \in Nat /\ AtrPeriod > 0 /\ n \in Nat /\ Len(d) \in Nat
      /\ n - AtrPeriod >= 0
  BY StrategyAssumption, BarType DEF Ready
<1>2. S \subseteq 1 .. Len(d)
  BY <1>1
<1>3. \A j \in S : TrueRange(d, j) \in Int
  BY <1>2, TrueRangeType
<1>4. IsFiniteSet(S)
  <2>1. n - AtrPeriod + 1 \in Int /\ n \in Int
    BY <1>1
  <2> QED BY <2>1, FS_Interval
<1>5. f \in [S -> Int]
  BY <1>3
<1>6. Atr(d, n) = SumFunction(f) \div AtrPeriod
  BY DEF Atr
<1> HIDE DEF f, S
<1>7. SumFunction(f) \in Int
  BY <1>4, <1>5, SumInt
<1>8. \A a \in Int : a \div AtrPeriod \in Int
  BY <1>1
<1> QED BY <1>6, <1>7, <1>8

Signals == [action : {"none", "buy", "sell"}, price : Nat, stop : Int, take : Int]

\* A signal to buy names a price.
LEMMA BuySignalType ==
    ASSUME NEW d \in Histories, NEW n \in 1 .. Len(d)
    PROVE  /\ BuySignal(d, n) \in Signals
           /\ BuySignal(d, n) = None \/ /\ BuySignal(d, n).action = "buy"
                                        /\ BuySignal(d, n).price > 0
                                        /\ Ready(n)
<1>1. CASE BuySignal(d, n) = None
  BY <1>1 DEF None, Signals
<1>2. CASE BuySignal(d, n) # None
  <2> DEFINE g == Ready(n) /\ TrendFilter(d, n) /\ Squeeze(d, n) /\ Breakout(d, n) /\ VolumeConfirmed(d, n)
             s == [action |-> "buy", price |-> d[n].close,
                   stop |-> d[n].close - StopAtr * Atr(d, n), take |-> d[n].close + TakeAtr * Atr(d, n)]
  <2>1. BuySignal(d, n) = (IF g THEN s ELSE None)
    BY DEF BuySignal
  <2>2. g
    BY <1>2, <2>1
  <2>3. Ready(n) /\ BuySignal(d, n) = s
    BY <2>1, <2>2
  <2>4. Atr(d, n) \in Int
    BY <2>3, AtrType
  <2>5. d[n].close \in Nat /\ d[n].close > 0
    <3>1. d[n] \in Bars /\ 0 < d[n].low /\ d[n].low <= d[n].close
      BY BarType
    <3> QED BY <3>1 DEF Bars
  <2>6. StopAtr \in Nat /\ TakeAtr \in Nat
    BY StrategyAssumption
  <2>7. d[n].close - StopAtr * Atr(d, n) \in Int /\ d[n].close + TakeAtr * Atr(d, n) \in Int
    BY <2>4, <2>5, <2>6
  <2>8. s \in Signals /\ s.action = "buy" /\ s.price > 0
    BY <2>5, <2>7 DEF Signals
  <2> QED BY <2>3, <2>8
<1> QED BY <1>1, <1>2

\* A purchase is of a lot at least, and no division of its sizing is by zero.
LEMMA SizeType ==
    ASSUME NEW s \in Signals, s.price > 0, NEW equity \in Nat
    PROVE  Size(s, equity) \in Nat /\ Size(s, equity) > 0
<1> DEFINE fifty == 50 * s.price
           away == 1000 * (s.price - s.stop)
           fifteen == 15 * s.price
           floor == Min({fifty, away})
           risk == Max({fifteen, floor})
           bySize == (20 * equity) \div risk
           most == (30 * equity) \div (100 * s.price)
           least == (5 * equity) \div (100 * s.price)
           stopped == Max({least, Min({bySize, most})})
           plain == equity \div (10 * s.price)
           lots == IF s.stop > 0 THEN stopped ELSE plain
<1>1. Size(s, equity) = Max({1, lots})
  BY DEF Size
<1>2. s.price \in Nat /\ s.stop \in Int
  BY DEF Signals
<1>3. floor \in Int
  <2>1. fifty \in Int /\ away \in Int
    BY <1>2
  <2> HIDE DEF fifty, away
  <2> QED BY <2>1, MinPair
<1>4. risk \in Nat /\ risk > 0
  <2>1. fifteen \in Int /\ fifteen > 0
    BY <1>2
  <2> HIDE DEF floor, fifteen
  <2>2. risk \in Int /\ risk >= fifteen
    BY <1>3, <2>1, MaxPair
  <2> HIDE DEF risk
  <2> QED BY <2>1, <2>2
<1> HIDE DEF floor, risk
<1>5. bySize \in Int
  BY <1>4, Quotient, 20 * equity \in Int
<1>6. most \in Int /\ least \in Int /\ plain \in Int
  <2>1. 100 * s.price \in Nat /\ 100 * s.price > 0 /\ 10 * s.price \in Nat /\ 10 * s.price > 0
    BY <1>2
  <2>2. 30 * equity \in Int /\ 5 * equity \in Int /\ equity \in Int
    OBVIOUS
  <2> QED BY <2>1, <2>2, Quotient
<1> HIDE DEF bySize, most, least, plain
<1>7. stopped \in Int
  <2>1. Min({bySize, most}) \in Int
    BY <1>5, <1>6, MinPair
  <2> QED BY <1>6, <2>1, MaxPair
<1> HIDE DEF stopped
<1>8. lots \in Int
  BY <1>6, <1>7
<1> HIDE DEF lots
<1> QED BY <1>1, <1>8, MaxPair

LEMMA StopOfType ==
    ASSUME NEW s \in Signals
    PROVE  StopOf(s) \in Int
<1>1. s.price \in Nat /\ s.stop \in Int
  BY DEF Signals
<1>2. (985 * s.price) \div 1000 \in Int
  BY <1>1
<1> QED BY <1>1, <1>2 DEF StopOf

-----------------------------------------------------------------------------
(* No operator of the strategy looks beyond its bar: two histories that    *)
(* agree up to a bar give the same signal there.                           *)

Agree(d, e, n) == \A j \in 1 .. n : d[j] = e[j]

LEMMA TrueRangeLocal ==
    ASSUME NEW d, NEW e, NEW n \in Nat, Agree(d, e, n), NEW j \in 1 .. n
    PROVE  TrueRange(d, j) = TrueRange(e, j)
<1>1. d[j] = e[j]
  BY DEF Agree
<1>2. CASE j = 1
  BY <1>1, <1>2 DEF TrueRange
<1>3. CASE j # 1
  <2>1. j - 1 \in 1 .. n
    BY <1>3
  <2>2. d[j - 1] = e[j - 1]
    BY <2>1 DEF Agree
  <2> QED BY <1>1, <2>2 DEF TrueRange
<1> QED BY <1>2, <1>3

LEMMA AtrLocal ==
    ASSUME NEW d, NEW e, NEW n \in Nat, Agree(d, e, n), AtrPeriod <= n
    PROVE  Atr(d, n) = Atr(e, n)
<1> DEFINE S == (n - AtrPeriod + 1) .. n
<1>1. S \subseteq 1 .. n
  BY StrategyAssumption
<1>2. \A j \in S : TrueRange(d, j) = TrueRange(e, j)
  BY <1>1, TrueRangeLocal
<1> HIDE DEF S
<1>3. [j \in S |-> TrueRange(d, j)] = [j \in S |-> TrueRange(e, j)]
  BY <1>2
<1> QED BY <1>3 DEF Atr, S

LEMMA ObvLocal ==
    ASSUME NEW d, NEW e, NEW n \in Nat, Agree(d, e, n), NEW k \in 1 .. n
    PROVE  Obv(d, k) = Obv(e, k)
<1> DEFINE step(h, j) == IF h[j].close > h[j - 1].close THEN h[j].volume
                         ELSE IF h[j].close < h[j - 1].close THEN 0 - h[j].volume
                         ELSE 0
<1>1. d[1] = e[1]
  BY DEF Agree
<1>2. \A j \in 2 .. k : step(d, j) = step(e, j)
  <2> TAKE j \in 2 .. k
  <2>1. j \in 1 .. n /\ j - 1 \in 1 .. n
    OBVIOUS
  <2>2. d[j] = e[j] /\ d[j - 1] = e[j - 1]
    BY <2>1 DEF Agree
  <2> QED BY <2>2
<1>3. Obv(d, k) = d[1].volume + SumFunction([j \in 2 .. k |-> step(d, j)])
  BY DEF Obv
<1>4. Obv(e, k) = e[1].volume + SumFunction([j \in 2 .. k |-> step(e, j)])
  BY DEF Obv
<1> HIDE DEF step
<1>5. [j \in 2 .. k |-> step(d, j)] = [j \in 2 .. k |-> step(e, j)]
  BY <1>2
<1> QED BY <1>1, <1>3, <1>4, <1>5

LEMMA KValueLocal ==
    ASSUME NEW d, NEW e, NEW n \in Nat, Agree(d, e, n), Window <= n
    PROVE  KValue(d, n) = KValue(e, n)
<1> DEFINE S == (n - Window + 1) .. n
           noise(h, j) == 10 - (10 * Abs(h[j].open - h[j].close)) \div (h[j].high - h[j].low)
           mean(h) == SumFunction([j \in S |-> noise(h, j)])
           flat(h) == ~DynamicK \/ \E j \in S : h[j].high = h[j].low
<1>1. \A j \in S : d[j] = e[j]
  BY StrategyAssumption DEF Agree
<1>2. [j \in S |-> noise(d, j)] = [j \in S |-> noise(e, j)]
  <2>1. \A j \in S : noise(d, j) = noise(e, j)
    BY <1>1
  <2> HIDE DEF noise, S
  <2> QED BY <2>1
<1>3. mean(d) = mean(e)
  BY <1>2
<1>4. flat(d) = flat(e)
  BY <1>1
<1>5. KValue(d, n) = IF flat(d) THEN KTenths ELSE Max({3, Min({7, mean(d) \div Window})})
  BY DEF KValue
<1>6. KValue(e, n) = IF flat(e) THEN KTenths ELSE Max({3, Min({7, mean(e) \div Window})})
  BY DEF KValue
<1> HIDE DEF mean, flat
<1> QED BY <1>3, <1>4, <1>5, <1>6

LEMMA TrendFilterLocal ==
    ASSUME NEW d, NEW e, NEW n \in Nat \ {0}, Agree(d, e, n)
    PROVE  TrendFilter(d, n) = TrendFilter(e, n)
<1> DEFINE S == (n - TrendPeriod + 1) .. n
<1>1. CASE n < TrendPeriod
  BY <1>1 DEF TrendFilter
<1>2. CASE ~(n < TrendPeriod)
  <2>1. \A j \in S : d[j] = e[j]
    BY <1>2, StrategyAssumption DEF Agree
  <2>2. d[n] = e[n]
    BY DEF Agree
  <2> HIDE DEF S
  <2>3. [j \in S |-> d[j].close] = [j \in S |-> e[j].close]
    BY <2>1
  <2> QED BY <2>2, <2>3 DEF TrendFilter, S
<1> QED BY <1>1, <1>2

LEMMA SqueezeLocal ==
    ASSUME NEW d, NEW e, NEW n \in Nat \ {0}, Agree(d, e, n)
    PROVE  Squeeze(d, n) = Squeeze(e, n)
<1>1. CASE n < Window
  BY <1>1, StrategyAssumption DEF Squeeze
<1>2. CASE n >= Window
  <2> DEFINE from == Max({Window, n - Window + 1})
             late == Max({Window, n - RecentBars + 1})
             S == from .. n
             R == late .. n
             sum(h) == SumFunction([j \in S |-> h[j].width])
             recent(h) == {h[j].width : j \in R}
             narrow(h) == 10 * Min(recent(h)) * Cardinality(S) < 8 * sum(h)
             before(h) == \E j \in {n - 1, n - 2} : j >= Window /\ h[j].width * Cardinality(S) < sum(h)
             calm(h) == n - 1 >= AdxFrom /\ h[n - 1].adx < 25
  <2>0. /\ Window \in Nat \ {0} /\ AdxFrom \in Nat \ {0} /\ RecentBars \in Nat
        /\ n - Window + 1 \in Int /\ n - RecentBars + 1 \in Int /\ Window \in Int
    BY StrategyAssumption
  <2>1. from \in Int /\ from >= 1 /\ late \in Int /\ late >= 1
    <3>1. \A x \in Int : Max({Window, x}) \in Int /\ Max({Window, x}) >= Window
      BY <2>0, MaxPair
    <3>2. from \in Int /\ from >= Window /\ late \in Int /\ late >= Window
      BY <2>0, <3>1
    <3> HIDE DEF from, late
    <3> QED BY <2>0, <3>2
  <2> HIDE DEF from, late
  <2>2. \A j \in S : d[j] = e[j]
    BY <2>1 DEF Agree
  <2>3. \A j \in R : d[j] = e[j]
    BY <2>1 DEF Agree
  <2>4. [j \in S |-> d[j].width] = [j \in S |-> e[j].width]
    BY <2>2
  <2>5. sum(d) = sum(e)
    BY <2>4
  <2>6. recent(d) = recent(e)
    BY <2>3
  <2>7. narrow(d) = narrow(e)
    BY <2>5, <2>6
  <2>8. \A j \in {n - 1, n - 2} : j >= Window => d[j] = e[j]
    <3> SUFFICES ASSUME NEW j \in {n - 1, n - 2}, j >= Window PROVE d[j] = e[j]
      OBVIOUS
    <3>1. j \in 1 .. n
      BY <2>0
    <3> QED BY <3>1 DEF Agree
  <2>9. before(d) = before(e)
    BY <2>5, <2>8
  <2>10. calm(d) = calm(e)
    <3>1. n - 1 >= AdxFrom => n - 1 \in 1 .. n
      BY <2>0
    <3>2. n - 1 >= AdxFrom => d[n - 1] = e[n - 1]
      BY <3>1 DEF Agree
    <3> QED BY <3>2
  <2>11. Squeeze(d, n) = (n >= Window /\ (narrow(d) \/ before(d) \/ calm(d)))
    BY DEF Squeeze, from, late
  <2>12. Squeeze(e, n) = (n >= Window /\ (narrow(e) \/ before(e) \/ calm(e)))
    BY DEF Squeeze, from, late
  <2> HIDE DEF narrow, before, calm
  <2> QED BY <2>7, <2>9, <2>10, <2>11, <2>12
<1> QED BY <1>1, <1>2, StrategyAssumption

LEMMA BreakoutLocal ==
    ASSUME NEW d, NEW e, NEW n \in Nat \ {0}, Agree(d, e, n), Window <= n
    PROVE  Breakout(d, n) = Breakout(e, n)
<1>0. Donchian \in Nat \ {0}
  BY StrategyAssumption
<1>1. CASE ~(n > Donchian)
  BY <1>1 DEF Breakout
<1>2. CASE n > Donchian
  <2>1. n - 1 \in 1 .. n /\ n \in 1 .. n
    BY <1>0, <1>2
  <2>2. d[n] = e[n] /\ d[n - 1] = e[n - 1]
    BY <2>1 DEF Agree
  <2>3. KValue(d, n) = KValue(e, n)
    BY KValueLocal
  <2>4. DonchianHigh(d, n) = DonchianHigh(e, n)
    <3>1. \A j \in (n - Donchian) .. (n - 1) : d[j] = e[j]
      BY <1>0, <1>2 DEF Agree
    <3>2. {d[j].high : j \in (n - Donchian) .. (n - 1)} = {e[j].high : j \in (n - Donchian) .. (n - 1)}
      BY <3>1
    <3> QED BY <3>2 DEF DonchianHigh
  <2> QED BY <2>2, <2>3, <2>4 DEF Breakout
<1> QED BY <1>1, <1>2

LEMMA VolumeConfirmedLocal ==
    ASSUME NEW d, NEW e, NEW n \in Nat \ {0}, Agree(d, e, n)
    PROVE  VolumeConfirmed(d, n) = VolumeConfirmed(e, n)
<1>0. Window \in Nat \ {0} /\ ObvShort \in Nat \ {0} /\ ObvShort <= Window
  BY StrategyAssumption
<1>1. CASE ~(n > Window)
  BY <1>1 DEF VolumeConfirmed
<1>2. CASE n > Window
  <2> DEFINE L == (n - Window + 1) .. n
             S == (n - ObvShort + 1) .. n
             V == (n - Window) .. (n - 1)
             from == n - ObvShort
             long(h) == SumFunction([j \in L |-> Obv(h, j)])
             short(h) == SumFunction([j \in S |-> Obv(h, j)])
             volume(h) == SumFunction([j \in V |-> h[j].volume])
             above(h) == Obv(h, n) * Window > long(h)
  <2>1. L \subseteq 1 .. n /\ S \subseteq 1 .. n /\ V \subseteq 1 .. n
        /\ from \in 1 .. n /\ from + 1 \in 1 .. n /\ n \in 1 .. n
    BY <1>0, <1>2
  <2> HIDE DEF L, S, V, from
  <2>2. \A j \in 1 .. n : Obv(d, j) = Obv(e, j)
    BY ObvLocal
  <2>3. [j \in L |-> Obv(d, j)] = [j \in L |-> Obv(e, j)]
    BY <2>1, <2>2
  <2>4. [j \in S |-> Obv(d, j)] = [j \in S |-> Obv(e, j)]
    BY <2>1, <2>2
  <2>5. [j \in V |-> d[j].volume] = [j \in V |-> e[j].volume]
    BY <2>1 DEF Agree
  <2>6. long(d) = long(e) /\ short(d) = short(e) /\ volume(d) = volume(e)
    BY <2>3, <2>4, <2>5
  <2>7. /\ d[n] = e[n] /\ d[from + 1] = e[from + 1]
        /\ Obv(d, n) = Obv(e, n) /\ Obv(d, from) = Obv(e, from) /\ Obv(d, from + 1) = Obv(e, from + 1)
    BY <2>1, <2>2 DEF Agree
  <2> DEFINE Says(h) == /\ n > Window
                        /\ \/ 2 * h[n].volume * Window > 3 * volume(h)
                           \/ above(h) /\ short(h) * Window > long(h) * ObvShort
                           \/ above(h) /\ Obv(h, n) > Obv(h, from)
                           \/ h[n].close > h[from + 1].close /\ Obv(h, n) > Obv(h, from + 1)
  <2>8. VolumeConfirmed(d, n) = Says(d)
    BY DEF VolumeConfirmed, L, S, V, from
  <2>9. VolumeConfirmed(e, n) = Says(e)
    BY DEF VolumeConfirmed, L, S, V, from
  <2> HIDE DEF long, short, volume
  <2>10. Says(d) = Says(e)
    BY <2>6, <2>7
  <2> QED BY <2>8, <2>9, <2>10
<1> QED BY <1>1, <1>2

LEMMA BuySignalLocal ==
    ASSUME NEW d, NEW e, NEW n \in Nat \ {0}, Agree(d, e, n)
    PROVE  BuySignal(d, n) = BuySignal(e, n)
<1>1. CASE ~Ready(n)
  BY <1>1 DEF BuySignal
<1>2. CASE Ready(n)
  <2>1. Window <= n /\ AtrPeriod <= n
    BY <1>2, StrategyAssumption DEF Ready
  <2>2. Atr(d, n) = Atr(e, n)
    BY <2>1, AtrLocal
  <2>3. /\ TrendFilter(d, n) = TrendFilter(e, n) /\ Squeeze(d, n) = Squeeze(e, n)
        /\ Breakout(d, n) = Breakout(e, n) /\ VolumeConfirmed(d, n) = VolumeConfirmed(e, n)
    BY <2>1, TrendFilterLocal, SqueezeLocal, BreakoutLocal, VolumeConfirmedLocal
  <2>4. d[n] = e[n]
    BY DEF Agree
  <2> QED BY <2>2, <2>3, <2>4 DEF BuySignal
<1> QED BY <1>1, <1>2

-----------------------------------------------------------------------------
(* The inductive invariant.                                                *)

Holdings == [size : Nat, entry : Nat, fee : Nat, bar : Nat, price : Nat, stop : Int]
Levels == [set : BOOLEAN, stop : Int, take : Int]
Tracks == [entry : Int, stop : Int, take : Int, bar : Nat]
Orders == [side : {"buy", "sell"}, bar : Nat, price : Nat]

\* The loop: where the run is.
Loop ==
    /\ data \in Histories /\ initial \in Capitals /\ intrabar \in BOOLEAN /\ nextOpen \in BOOLEAN
    /\ i \in 1 .. Len(data)
    /\ phase \in {"exit", "fill", "signal", "value", "analyze", "done"}
    /\ curve \in Seq(Int) /\ Len(curve) = IF phase \in {"analyze", "done"} THEN i ELSE i - 1

\* The portfolio: what a flat account and a held position look like, and what they cost.
Account ==
    /\ cash \in Nat /\ profit \in Int
    /\ pos \in Holdings /\ pos.bar <= i
    /\ exits \in Levels
    /\ ~Held => pos = NoPosition
    /\ Held => exits.set
    /\ CashAccounted

\* The orders alternate, so their number tells whether there is a position.
Booked ==
    /\ orders \in Seq(Orders)
    /\ \A k \in DOMAIN orders : orders[k].bar \in 1 .. i
    /\ Held <=> Len(orders) % 2 = 1
    /\ FillsWithinBar

\* The order that waits for the next open fits the portfolio.
Waiting ==
    /\ pending \in Signals
    /\ pending.action = "none" => pending = None
    /\ phase = "signal" \/ ~nextOpen => pending = None
    /\ pending.action = "buy" => ~Held /\ pending.price > 0
    /\ pending.action = "sell" => Held

\* The bars of a held position whose close was looked at, and whose low was.
Closes(n) == (IF nextOpen THEN pos.bar ELSE pos.bar + 1) .. n
Lows(n) == (pos.bar + 1) .. n

\* There are bars to come.
Going == phase \in {"exit", "fill", "signal"} \/ (phase = "value" /\ i < Len(data))
Looked == IF phase = "value" THEN i ELSE i - 1
Touched == IF phase = "exit" THEN i - 1 ELSE i

\* What is tracked is the position, or what is about to be one, under the stop of its
\* signal; every close so far was above that.
Tracking ==
    /\ track \in Tracks /\ track.bar <= i
    /\ track # NoTrack => Ready(i) /\ track.bar > 0
    /\ pending.action = "buy" => track # NoTrack /\ track.stop = pending.stop
    /\ Going /\ Held /\ pending.action # "sell" =>
          /\ track # NoTrack /\ track.stop = pos.stop
          /\ \A j \in Closes(Looked) : data[j].close > pos.stop

\* StopHonoured, in every phase.
Stopping ==
    /\ Held /\ phase \in {"signal", "value"} => \A j \in Closes(i - 1) : data[j].close > pos.stop
    /\ Held /\ intrabar /\ phase \in {"exit", "fill", "signal", "value"} =>
          \A j \in Lows(Touched) : data[j].low > exits.stop

IInv == Loop /\ Account /\ Booked /\ Waiting /\ Tracking /\ Stopping /\ TrackingInSync

-----------------------------------------------------------------------------
(* What the portfolio does with an order, told apart from how.             *)

Spent == pos.size * pos.entry * 100 + pos.fee

Filled(side, price) == orders' = Append(orders, [side |-> side, bar |-> i, price |-> price])

Idle == UNCHANGED <<cash, pos, profit, exits, orders>>

Bought(s, price) ==
    /\ ~Held /\ Spent' \in Nat /\ cash' = cash - Spent' /\ cash' \in Nat /\ profit' = profit
    /\ pos' \in Holdings /\ pos'.size > 0 /\ pos'.bar = i /\ pos'.stop = s.stop
    /\ exits' \in Levels /\ exits'.set
    /\ Filled("buy", price)

Sold(price) ==
    /\ Held /\ Spent \in Nat /\ cash' \in Nat /\ profit' \in Int
    /\ cash' - profit' = cash - profit + Spent
    /\ pos' = NoPosition /\ exits' = NoExits
    /\ Filled("sell", price)

\* A bar has traded at a price.
Traded(price) == price \in Nat /\ data[i].low <= price /\ price <= data[i].high

LEMMA Here ==
    ASSUME Loop
    PROVE  /\ data[i] \in Bars /\ i \in Nat /\ i >= 1 /\ Len(data) \in Nat /\ i <= Len(data)
           /\ data[i].open \in Nat /\ data[i].high \in Nat /\ data[i].low \in Nat
           /\ data[i].close \in Nat
           /\ 0 < data[i].low /\ data[i].low <= data[i].open /\ data[i].open <= data[i].high
           /\ data[i].low <= data[i].close /\ data[i].close <= data[i].high
<1>1. data \in Histories /\ i \in 1 .. Len(data)
  BY DEF Loop
<1>2. /\ data[i] \in Bars /\ Len(data) \in Nat
      /\ 0 < data[i].low /\ data[i].low <= data[i].open /\ data[i].open <= data[i].high
      /\ data[i].low <= data[i].close /\ data[i].close <= data[i].high
  BY <1>1, BarType
<1> QED BY <1>1, <1>2 DEF Bars

LEMMA Products ==
    ASSUME NEW a \in Nat, NEW b \in Nat
    PROVE  a * b \in Nat
OBVIOUS

LEMMA Rates ==
    /\ Fee \in 0 .. 99 /\ Slip \in 0 .. 99 /\ Capitals \subseteq Nat
    /\ Fee \in Nat /\ 100 + Slip \in Nat /\ 100 - Fee \in Nat
BY BacktestAssumption

LEMMA Open ==
    ASSUME Loop, Account, ~Held, NEW s \in Signals, s.price > 0, NEW price \in Nat,
           OpenPosition(s, price), profit' = profit
    PROVE  Idle \/ Bought(s, price)
<1> DEFINE paid == price * (100 + Slip)
           size == Size(s, Equity \div Scale)
           fee == size * paid * Fee
<1>1. paid \in Nat
  BY Rates, Products
<1>2. Equity \div Scale \in Nat
  <2>1. Equity = cash
    BY DEF Account, Equity, NoPosition, Scale
  <2>2. cash \in Nat
    BY DEF Account
  <2>3. Equity \div 10000 \in Nat
    BY <2>1, <2>2
  <2> QED BY <2>3 DEF Scale
<1> HIDE DEF paid
<1>3. size \in Nat /\ size > 0
  BY <1>2, SizeType
<1> HIDE DEF size
<1>4. size * paid \in Nat
  BY <1>1, <1>3
<1> DEFINE worth == size * paid
<1>5. worth \in Nat /\ size * paid * 100 = worth * 100 /\ size * paid * Fee = worth * Fee
      /\ Cost(size, paid) = worth * (100 + Fee)
  BY <1>4 DEF Cost
<1> HIDE DEF worth
<1>6. Fee \in Nat
  BY Rates
<1>7. fee \in Nat /\ Cost(size, paid) = worth * 100 + fee /\ Cost(size, paid) \in Nat
  BY <1>5, <1>6
<1>8. paid \div 100 \in Nat
  BY <1>1
<1>9. CASE Cost(size, paid) > cash
  <2>1. UNCHANGED <<cash, pos, orders, exits>>
    BY <1>9 DEF OpenPosition, paid, size
  <2> QED BY <2>1 DEF Idle
<1>10. CASE ~(Cost(size, paid) > cash)
  <2> HIDE DEF fee
  <2>1. /\ cash' = cash - Cost(size, paid)
        /\ pos' = [size |-> size, entry |-> paid, fee |-> fee,
                   bar |-> i, price |-> (paid \div 100), stop |-> s.stop]
        /\ exits' = [set |-> TRUE, stop |-> StopOf(s), take |-> s.take]
        /\ Filled("buy", price)
    BY <1>10 DEF OpenPosition, paid, size, fee, Order, Filled
  <2>2. i \in Nat /\ s.stop \in Int /\ s.take \in Int /\ StopOf(s) \in Int
    BY Here, StopOfType DEF Signals
  <2>3. pos' \in Holdings /\ pos'.size > 0 /\ pos'.bar = i /\ pos'.stop = s.stop
    BY <1>1, <1>3, <1>7, <1>8, <2>1, <2>2 DEF Holdings
  <2>4. exits' \in Levels /\ exits'.set
    BY <2>1, <2>2 DEF Levels
  <2>5. Spent' = Cost(size, paid)
    <3>1. Spent' = size * paid * 100 + fee
      BY <2>1 DEF Spent
    <3> QED BY <1>5, <1>7, <3>1
  <2>6. cash' = cash - Spent' /\ Spent' \in Nat /\ cash' \in Nat
    <3>1. cash \in Nat
      BY DEF Account
    <3> QED BY <1>7, <1>10, <2>1, <2>5, <3>1
  <2> QED BY <2>1, <2>3, <2>4, <2>6 DEF Bought
<1> QED BY <1>9, <1>10

LEMMA Close ==
    ASSUME Loop, Account, Held, NEW price \in Nat, NEW slip \in 0 .. 99,
           ClosePosition(price, slip)
    PROVE  Sold(price)
<1> DEFINE paid == price * (100 - slip)
           net == Proceeds(pos.size, paid)
<1>1. paid \in Nat
  <2>1. 100 - slip \in Nat
    OBVIOUS
  <2> QED BY <2>1, Products
<1>2. pos.size \in Nat /\ pos.entry \in Nat /\ pos.fee \in Nat
  BY DEF Account, Holdings
<1> HIDE DEF paid
<1>3. net \in Nat
  <2>1. pos.size * paid \in Nat
    BY <1>1, <1>2, Products
  <2> QED BY <2>1, Rates, Products DEF Proceeds
<1> HIDE DEF net
<1>4. Spent \in Nat
  BY <1>2 DEF Spent
<1>5. /\ cash' = cash + net /\ profit' = profit + net - Spent
      /\ pos' = NoPosition /\ exits' = NoExits /\ Filled("sell", price)
  BY DEF ClosePosition, paid, net, Spent, Order, Filled
<1>6. cash \in Nat /\ profit \in Int
  BY DEF Account
<1>7. cash' \in Nat /\ profit' \in Int /\ cash' - profit' = cash - profit + Spent
  BY <1>3, <1>4, <1>5, <1>6
<1> QED BY <1>4, <1>5, <1>7 DEF Sold

\* _execute_order does nothing, buys or sells.
LEMMA Executed ==
    ASSUME Loop, Account, NEW s \in Signals, NEW price \in Nat, Execute(s, price),
           s.action = "buy" => ~Held /\ s.price > 0
    PROVE  \/ Idle /\ (s.action = "buy" \/ ~Held)
           \/ s.action = "buy" /\ Bought(s, price)
           \/ s.action = "sell" /\ Sold(price)
<1>1. CASE s.action = "buy" /\ OpenPosition(s, price) /\ UNCHANGED <<closed, profit>>
  BY <1>1, Open
<1>2. CASE s.action = "sell" /\ Held /\ ClosePosition(price, Slip)
  BY <1>2, Close, Rates
<1>3. CASE s.action = "sell" /\ ~Held /\ UNCHANGED <<cash, pos, closed, profit, exits, orders>>
  BY <1>3 DEF Idle
<1> QED BY <1>1, <1>2, <1>3 DEF Execute

LEMMA AccountKept ==
    ASSUME Loop, Account, UNCHANGED <<data, initial, i>>, NEW s, NEW price,
           Idle \/ Bought(s, price) \/ Sold(price)
    PROVE  Account'
<1>1. CASE Idle
  BY <1>1 DEF Idle, Account, CashAccounted, Held
<1>2. CASE Bought(s, price)
  <2>1. Spent = 0
    BY <1>2 DEF Bought, Account, Spent, NoPosition
  <2>2. cash = initial * Scale + profit - Spent
    BY DEF Account, CashAccounted, Spent
  <2>3. initial * Scale \in Nat
    <3>1. initial \in Nat
      BY Rates DEF Loop
    <3> QED BY <3>1 DEF Scale
  <2>4. cash' = initial' * Scale + profit' - Spent'
    <3>1. profit \in Int
      BY DEF Account
    <3> QED BY <1>2, <2>1, <2>2, <2>3, <3>1 DEF Bought
  <2>5. CashAccounted'
    BY <2>4 DEF CashAccounted, Spent
  <2>6. Held' /\ pos'.bar <= i'
    BY <1>2, Here DEF Bought, Held
  <2> QED BY <1>2, <2>5, <2>6 DEF Account, Bought
<1>3. CASE Sold(price)
  <2>1. Spent' = 0 /\ ~Held' /\ pos' \in Holdings /\ pos'.bar = 0 /\ exits' \in Levels
    BY <1>3 DEF Sold, Spent, NoPosition, Held, Holdings, NoExits, Levels
  <2>2. cash = initial * Scale + profit - Spent
    BY DEF Account, CashAccounted, Spent
  <2>3. initial * Scale \in Nat
    <3>1. initial \in Nat
      BY Rates DEF Loop
    <3> QED BY <3>1 DEF Scale
  <2>4. cash' = initial' * Scale + profit' - Spent'
    <3>1. cash \in Nat /\ profit \in Int
      BY DEF Account
    <3> QED BY <1>3, <2>1, <2>2, <2>3, <3>1 DEF Sold
  <2>5. CashAccounted'
    BY <2>4 DEF CashAccounted, Spent
  <2>6. pos'.bar <= i'
    BY <2>1, Here
  <2> QED BY <1>3, <2>1, <2>5, <2>6 DEF Account, Sold
<1> QED BY <1>1, <1>2, <1>3

LEMMA BookedKept ==
    ASSUME Loop, Account, Booked, UNCHANGED <<data, initial, i>>, NEW s, NEW price,
           Traded(price), Idle \/ Bought(s, price) \/ Sold(price)
    PROVE  Booked'
<1>1. CASE Idle
  BY <1>1 DEF Idle, Booked, FillsWithinBar, Held
<1>2. ASSUME NEW side \in {"buy", "sell"}, Filled(side, price),
             Held' <=> ~Held, side = IF Held' THEN "buy" ELSE "sell"
      PROVE  Booked'
  <2> DEFINE o == [side |-> side, bar |-> i, price |-> price]
             n == Len(orders)
  <2>1. o \in Orders /\ o.bar = i /\ o.price = price /\ o.side = side
    BY <1>2, Here DEF Orders, Traded
  <2>2. orders \in Seq(Orders) /\ n \in Nat
    BY DEF Booked
  <2> HIDE DEF o
  <2>3. /\ orders' = Append(orders, o) /\ orders' \in Seq(Orders) /\ Len(orders') = n + 1
        /\ orders'[n + 1] = o /\ \A k \in 1 .. n : orders'[k] = orders[k]
    BY <1>2, <2>1, <2>2 DEF Filled, o
  <2>4. DOMAIN orders' = 1 .. n + 1 /\ DOMAIN orders = 1 .. n
    BY <2>2, <2>3
  <2>5. Held <=> n % 2 = 1
    BY DEF Booked
  <2>6. n % 2 \in {0, 1} /\ (n + 1) % 2 = 1 - (n % 2)
    BY <2>2
  <2>7. Held' <=> (n + 1) % 2 = 1
    BY <1>2, <2>5, <2>6
  <2>8. side = IF (n + 1) % 2 = 1 THEN "buy" ELSE "sell"
    BY <1>2, <2>7
  <2>9. \A k \in 1 .. n : /\ orders[k].bar \in 1 .. i
                          /\ data[orders[k].bar].low <= orders[k].price
                          /\ orders[k].price <= data[orders[k].bar].high
                          /\ orders[k].side = IF k % 2 = 1 THEN "buy" ELSE "sell"
    BY <2>4 DEF Booked, FillsWithinBar
  <2>10. \A k \in DOMAIN orders' :
            /\ orders'[k].bar \in 1 .. i
            /\ data[orders'[k].bar].low <= orders'[k].price
            /\ orders'[k].price <= data[orders'[k].bar].high
            /\ orders'[k].side = IF k % 2 = 1 THEN "buy" ELSE "sell"
    <3> SUFFICES ASSUME NEW k \in 1 .. n + 1
                 PROVE  /\ orders'[k].bar \in 1 .. i
                        /\ data[orders'[k].bar].low <= orders'[k].price
                        /\ orders'[k].price <= data[orders'[k].bar].high
                        /\ orders'[k].side = IF k % 2 = 1 THEN "buy" ELSE "sell"
      BY <2>4
    <3>1. CASE k = n + 1
      <4>1. i \in 1 .. i
        BY Here
      <4> QED BY <2>1, <2>3, <2>8, <3>1, <4>1 DEF Traded
    <3>2. CASE k # n + 1
      <4>1. k \in 1 .. n
        BY <2>2, <3>2
      <4> QED BY <2>3, <2>9, <4>1
    <3> QED BY <3>1, <3>2
  <2>11. FillsWithinBar'
    BY <2>10 DEF FillsWithinBar
  <2> QED BY <2>3, <2>7, <2>10, <2>11 DEF Booked
<1>3. CASE Bought(s, price)
  <2>1. Held' /\ ~Held /\ Filled("buy", price)
    BY <1>3 DEF Bought, Held
  <2> QED BY <1>2, <2>1
<1>4. CASE Sold(price)
  <2>1. ~Held' /\ Held /\ Filled("sell", price)
    BY <1>4 DEF Sold, Held, NoPosition
  <2> QED BY <1>2, <2>1
<1> QED BY <1>1, <1>3, <1>4

-----------------------------------------------------------------------------
(* The initial states and the steps.                                       *)

LEMMA InitIInv ==
    ASSUME Init
    PROVE  IInv
<1>1. Len(data) \in Nat /\ Len(data) >= 1
  <2>1. data \in Seq(Bars) /\ data # <<>>
    BY BacktestAssumption DEF Init, Bars
  <2> QED BY <2>1
<1>2. Loop
  BY <1>1 DEF Init, Loop
<1>3. initial \in Nat
  BY Rates DEF Init
<1>4. Account
  BY <1>3 DEF Init, Account, CashAccounted, Held, NoPosition, Holdings, NoExits, Levels, Scale
<1>5. Booked
  BY DEF Init, Booked, FillsWithinBar, Held, NoPosition
<1>6. Waiting
  BY DEF Init, Waiting, None, Signals, Held, NoPosition
<1>7. Tracking /\ Stopping /\ TrackingInSync
  BY DEF Init, Tracking, Stopping, TrackingInSync, Held, NoPosition, NoTrack, Tracks, None
<1> QED BY <1>2, <1>4, <1>5, <1>6, <1>7 DEF IInv

LEMMA ExitPriceTraded ==
    ASSUME Loop, exits \in Levels, StopHit \/ TakeHit
    PROVE  Traded(ExitPrice)
<1> DEFINE open == data[i].open
           low == data[i].low
           high == data[i].high
           stop == exits.stop
           take == exits.take
<1>1. /\ open \in Nat /\ low \in Nat /\ high \in Nat /\ stop \in Int /\ take \in Int
      /\ low <= open /\ open <= high
  BY Here DEF Levels
<1>2. ExitPrice = (IF low <= stop THEN Min({stop, open}) ELSE Max({take, open}))
  BY DEF ExitPrice, StopHit, Bar
<1>3. low <= stop \/ high >= take
  BY DEF StopHit, TakeHit, Bar
<1> SUFFICES ExitPrice \in Nat /\ low <= ExitPrice /\ ExitPrice <= high
  BY DEF Traded
<1> HIDE DEF open, low, high, stop, take
<1>4. CASE low <= stop
  <2>1. Min({stop, open}) \in {stop, open} /\ Min({stop, open}) <= open
    BY <1>1, MinPair
  <2> QED BY <1>1, <1>2, <1>4, <2>1
<1>5. CASE ~(low <= stop)
  <2>1. Max({take, open}) \in {take, open} /\ Max({take, open}) >= open
    BY <1>1, MaxPair
  <2> QED BY <1>1, <1>2, <1>3, <1>5, <2>1
<1> QED BY <1>4, <1>5

LEMMA CheckExitKeeps ==
    ASSUME IInv, CheckExit
    PROVE  IInv'
<1>1. /\ UNCHANGED <<data, initial, intrabar, nextOpen, i, track, curve>>
      /\ phase = "exit" /\ phase' = "fill"
  BY DEF CheckExit, args
<1>2. Loop /\ Account /\ Booked /\ Waiting /\ Tracking /\ Stopping
  BY DEF IInv
<1>3. Loop'
  BY <1>1, <1>2 DEF Loop
<1>4. TrackingInSync'
  BY <1>1 DEF TrackingInSync
<1>5. CASE intrabar /\ Held /\ exits.set /\ (StopHit \/ TakeHit)
  <2>1. ClosePosition(ExitPrice, 0) /\ pending' = None
    BY <1>5 DEF CheckExit
  <2>2. Traded(ExitPrice)
    BY <1>2, <1>5, ExitPriceTraded DEF Account
  <2>3. Sold(ExitPrice)
    BY <1>2, <1>5, <2>1, <2>2, Close DEF Traded
  <2>4. Account' /\ Booked'
    BY <1>1, <1>2, <2>2, <2>3, AccountKept, BookedKept
  <2>5. ~Held'
    BY <2>3 DEF Sold, Held, NoPosition
  <2>6. Waiting'
    BY <2>1, <2>5 DEF Waiting, None, Signals
  <2>7. Tracking' /\ Stopping'
    BY <1>1, <1>2, <2>1, <2>5 DEF Tracking, Stopping, None
  <2> QED BY <1>3, <1>4, <2>4, <2>6, <2>7 DEF IInv
<1>6. CASE ~(intrabar /\ Held /\ exits.set /\ (StopHit \/ TakeHit))
  <2>1. UNCHANGED <<cash, pos, profit, exits, orders, pending>>
    BY <1>6 DEF CheckExit
  <2>2. Idle /\ Held' = Held
    BY <2>1 DEF Idle, Held
  <2>3. Traded(data[i].close)
    BY <1>2, Here DEF Traded
  <2>4. Account' /\ Booked'
    BY <1>1, <1>2, <2>2, <2>3, AccountKept, BookedKept
  <2>5. Waiting'
    BY <1>1, <1>2, <2>1, <2>2 DEF Waiting
  <2>6. Tracking'
    BY <1>1, <1>2, <2>1, <2>2 DEF Tracking, Going, Looked, Closes, Ready
  <2>7. Stopping'
    <3>1. Held /\ intrabar => data[i].low > exits.stop
      BY <1>2, <1>6, Here DEF StopHit, Bar, Account, Levels
    <3>2. Held /\ intrabar => \A j \in Lows(i - 1) : data[j].low > exits.stop
      BY <1>1, <1>2 DEF Stopping, Touched
    <3>3. \A j \in Lows(i) : j = i \/ j \in Lows(i - 1)
      BY <1>2, Here DEF Account, Holdings, Lows
    <3>4. Lows(Touched)' = Lows(i)
      BY <1>1, <2>1 DEF Lows, Touched
    <3>5. Held /\ intrabar => \A j \in Lows(i) : data[j].low > exits.stop
      BY <3>1, <3>2, <3>3
    <3>6. Held' /\ intrabar' => \A j \in Lows(Touched)' : data'[j].low > exits'.stop
      BY <1>1, <2>1, <2>2, <3>4, <3>5
    <3> QED BY <1>1, <3>6 DEF Stopping
  <2> QED BY <1>3, <1>4, <2>4, <2>5, <2>6, <2>7 DEF IInv
<1> QED BY <1>5, <1>6

LEMMA FillPendingKeeps ==
    ASSUME IInv, FillPending
    PROVE  IInv'
<1>1. /\ UNCHANGED <<data, initial, intrabar, nextOpen, i, track, curve>>
      /\ phase = "fill" /\ phase' = "signal" /\ pending' = None
  BY DEF FillPending, args
<1>2. Loop /\ Account /\ Booked /\ Waiting /\ Tracking /\ Stopping
  BY DEF IInv
<1>3. Loop'
  BY <1>1, <1>2 DEF Loop
<1>4. TrackingInSync'
  BY <1>1 DEF TrackingInSync
<1>5. Waiting'
  BY <1>1 DEF Waiting, None, Signals
<1>6. Traded(data[i].open)
  BY <1>2, Here DEF Traded
<1>7. \/ Idle /\ (pending = None \/ ~Held)
      \/ nextOpen /\ pending.action = "buy" /\ Bought(pending, data[i].open)
      \/ Sold(data[i].open)
  <2>1. CASE nextOpen /\ pending # None
    <3>1. Execute(pending, data[i].open)
      BY <2>1 DEF FillPending, Bar
    <3>2. pending \in Signals /\ (pending.action = "buy" => ~Held /\ pending.price > 0)
      BY <1>2 DEF Waiting
    <3>3. data[i].open \in Nat
      BY <1>2, Here
    <3> QED BY <1>2, <2>1, <3>1, <3>2, <3>3, Executed
  <2>2. CASE ~(nextOpen /\ pending # None)
    <3>1. Idle
      BY <2>2 DEF FillPending, Idle
    <3>2. pending = None
      BY <1>2, <2>2 DEF Waiting
    <3> QED BY <3>1, <3>2
  <2> QED BY <2>1, <2>2
<1>8. Account' /\ Booked'
  BY <1>1, <1>2, <1>6, <1>7, AccountKept, BookedKept
<1>9. Tracking' /\ Stopping'
  <2>1. track' \in Tracks /\ track'.bar <= i' /\ (track' # NoTrack => Ready(i') /\ track'.bar > 0)
    BY <1>1, <1>2 DEF Tracking
  <2>2. pending'.action = "none"
    BY <1>1 DEF None
  <2>3. Looked' = i - 1 /\ Touched' = i /\ Looked = i - 1 /\ Touched = i /\ Going
    BY <1>1 DEF Looked, Touched, Going
  <2>4. CASE Idle /\ (pending = None \/ ~Held)
    <3>1. Held' = Held /\ pos' = pos /\ exits' = exits
      BY <2>4 DEF Idle, Held
    <3>2. CASE ~Held
      BY <1>1, <2>1, <2>2, <3>1, <3>2 DEF Tracking, Stopping
    <3>3. CASE Held
      <4>1. pending.action # "sell"
        BY <2>4, <3>3 DEF None
      <4>2. /\ track # NoTrack /\ track.stop = pos.stop
            /\ \A j \in Closes(i - 1) : data[j].close > pos.stop
        BY <1>2, <2>3, <3>3, <4>1 DEF Tracking
      <4>3. intrabar => \A j \in Lows(i) : data[j].low > exits.stop
        BY <1>1, <1>2, <2>3, <3>3 DEF Stopping
      <4>4. Closes(Looked)' = Closes(i - 1) /\ Closes(i - 1)' = Closes(i - 1) /\ Lows(Touched)' = Lows(i)
        BY <1>1, <2>3, <3>1 DEF Closes, Lows
      <4>5. Tracking'
        BY <1>1, <2>1, <2>2, <3>1, <4>2, <4>4 DEF Tracking
      <4>6. Stopping'
        BY <1>1, <3>1, <4>2, <4>3, <4>4 DEF Stopping
      <4> QED BY <4>5, <4>6
    <3> QED BY <3>2, <3>3
  <2>5. CASE nextOpen /\ pending.action = "buy" /\ Bought(pending, data[i].open)
    <3>1. track # NoTrack /\ track.stop = pending.stop
      BY <1>2, <2>5 DEF Tracking
    <3>2. pos'.bar = i /\ pos'.stop = pending.stop /\ nextOpen' /\ i \in Nat
      BY <1>1, <1>2, <2>5, Here DEF Bought
    <3>3. Closes(Looked)' = {} /\ Closes(i - 1)' = {} /\ Lows(Touched)' = {}
      BY <1>1, <2>3, <3>2 DEF Closes, Lows
    <3>4. Tracking'
      BY <1>1, <2>1, <2>2, <3>1, <3>2, <3>3 DEF Tracking
    <3>5. Stopping'
      BY <3>3 DEF Stopping
    <3> QED BY <3>4, <3>5
  <2>6. CASE Sold(data[i].open)
    <3>1. ~Held'
      BY <2>6 DEF Sold, Held, NoPosition
    <3> QED BY <2>1, <2>2, <3>1 DEF Tracking, Stopping
  <2> QED BY <1>7, <2>4, <2>5, <2>6
<1> QED BY <1>3, <1>4, <1>5, <1>8, <1>9 DEF IInv

\* What generate_signal may say, and what it means that it says nothing of a position.
LEMMA SignalType ==
    ASSUME Loop, Account
    PROVE  /\ Signal \in Signals
           /\ \/ Signal = None
              \/ ~Held /\ Signal.action = "buy" /\ Signal.price > 0 /\ Ready(i)
              \/ Held /\ Signal.action = "sell" /\ Ready(i)
           /\ Held /\ Ready(i) /\ Signal = None => ~MustSell(data, i, Tracked)
<1>1. data \in Histories /\ i \in 1 .. Len(data)
  BY DEF Loop
<1>2. CASE ~Held
  <2>1. Signal = BuySignal(data, i)
    BY <1>2 DEF Signal
  <2> QED BY <1>1, <1>2, <2>1, BuySignalType
<1>3. CASE Held
  <2>1. SellSignal(data, i) \in Signals /\ SellSignal(data, i).action = "sell"
    <3>1. data[i].close \in Nat
      BY Here
    <3>2. SellSignal(data, i) = [action |-> "sell", price |-> data[i].close, stop |-> 0, take |-> 0]
      BY DEF SellSignal
    <3> QED BY <3>1, <3>2 DEF Signals
  <2>2. Signal = IF Ready(i) /\ MustSell(data, i, Tracked) THEN SellSignal(data, i) ELSE None
    BY <1>3 DEF Signal
  <2>3. None \in Signals /\ None.action = "none"
    BY DEF None, Signals
  <2>4. SellSignal(data, i) # None
    BY <2>1, <2>3
  <2> QED BY <1>3, <2>1, <2>2, <2>3, <2>4
<1> QED BY <1>2, <1>3

\* What the strategy tracks once it has decided.
LEMMA TrackAfterIs ==
    ASSUME Loop, Account, Tracking, Held => track # NoTrack
    PROVE  /\ Signal.action = "sell" => TrackAfter(Signal) = NoTrack
           /\ Signal.action = "buy" =>
                 TrackAfter(Signal) = [entry |-> Signal.price, stop |-> Signal.stop,
                                       take |-> Signal.take, bar |-> i]
           /\ Signal = None => TrackAfter(Signal) = IF Held THEN track ELSE NoTrack
<1>1. Signal.action = "sell" => TrackAfter(Signal) = NoTrack
  BY Zenon DEF TrackAfter
<1>2. Signal.action = "buy" =>
          TrackAfter(Signal) = [entry |-> Signal.price, stop |-> Signal.stop,
                                take |-> Signal.take, bar |-> i]
  BY Zenon DEF TrackAfter
<1>3. ASSUME Signal = None
      PROVE  TrackAfter(Signal) = IF Held THEN track ELSE NoTrack
  <2>1. Signal.action # "sell" /\ Signal.action # "buy"
    BY <1>3 DEF None
  <2>2. TrackAfter(Signal) = IF Ready(i) THEN Tracked ELSE track
    BY <2>1, Zenon DEF TrackAfter
  <2>3. Tracked = IF Held THEN track ELSE NoTrack
    BY DEF Tracked
  <2>4. ~Ready(i) => track = NoTrack
    BY DEF Tracking
  <2> QED BY <2>2, <2>3, <2>4
<1> QED BY <1>1, <1>2, <1>3

LEMMA DecideKeeps ==
    ASSUME IInv, Decide
    PROVE  IInv'
<1> DEFINE s == Signal
<1>1. /\ UNCHANGED <<data, initial, intrabar, nextOpen, i, curve>>
      /\ phase = "signal" /\ phase' = "value" /\ track' = TrackAfter(s)
  BY DEF Decide, args
<1>2. Loop /\ Account /\ Booked /\ Waiting /\ Tracking /\ Stopping
  BY DEF IInv
<1>3. Loop'
  BY <1>1, <1>2 DEF Loop
<1>4. Traded(data[i].close) /\ data[i].close \in Nat /\ i \in Nat /\ i >= 1 /\ Len(data) \in Nat
  BY <1>2, Here DEF Traded
<1>5. pending = None
  BY <1>1, <1>2 DEF Waiting
<1>6. /\ Held => /\ track # NoTrack /\ track.stop = pos.stop
                 /\ \A j \in Closes(i - 1) : data[j].close > pos.stop
  <2>1. Going /\ Looked = i - 1 /\ pending.action # "sell"
    BY <1>1, <1>5 DEF Going, Looked, None
  <2> QED BY <1>2, <2>1 DEF Tracking
<1>7. Held /\ intrabar => \A j \in Lows(i) : data[j].low > exits.stop
  <2>1. Touched = i
    BY <1>1 DEF Touched
  <2> QED BY <1>1, <1>2, <2>1 DEF Stopping
<1>8. /\ s \in Signals
      /\ \/ s = None
         \/ ~Held /\ s.action = "buy" /\ s.price > 0 /\ Ready(i)
         \/ Held /\ s.action = "sell" /\ Ready(i)
      /\ Held /\ Ready(i) /\ s = None => ~MustSell(data, i, Tracked)
  BY <1>2, SignalType
<1>9. /\ s.action = "sell" => track' = NoTrack
      /\ s.action = "buy" =>
            track' = [entry |-> s.price, stop |-> s.stop, take |-> s.take, bar |-> i]
      /\ s = None => track' = IF Held THEN track ELSE NoTrack
  BY <1>1, <1>2, <1>6, TrackAfterIs
<1>10. IF nextOpen
       THEN pending' = (IF i < Len(data) THEN s ELSE None) /\ Idle
       ELSE /\ pending' = None
            /\ IF s = None THEN Idle ELSE Execute(s, data[i].close)
  BY <1>5 DEF Decide, Idle, Bar
<1> HIDE DEF s
<1>11. NoTrack \in Tracks /\ NoTrack.bar = 0 /\ None \in Signals /\ None.action = "none"
  BY DEF NoTrack, Tracks, None, Signals
<1>12. track' \in Tracks /\ track'.bar <= i /\ (track' # NoTrack => Ready(i) /\ track'.bar > 0)
  <2>1. CASE s = None
    BY <1>2, <1>4, <1>9, <1>11, <2>1 DEF Tracking
  <2>2. CASE s.action = "buy"
    BY <1>4, <1>8, <1>9, <1>11, <2>2 DEF Tracks, Signals
  <2>3. CASE s.action = "sell"
    BY <1>4, <1>9, <1>11, <2>3
  <2> QED BY <1>8, <2>1, <2>2, <2>3
<1>13. \/ Idle /\ (nextOpen \/ s = None \/ s.action = "buy")
       \/ ~nextOpen /\ s.action = "buy" /\ Bought(s, data[i].close)
       \/ ~nextOpen /\ s.action = "sell" /\ Sold(data[i].close)
  <2>1. CASE nextOpen
    BY <1>10, <2>1
  <2>2. CASE ~nextOpen /\ s = None
    BY <1>10, <2>2
  <2>3. CASE ~nextOpen /\ s # None
    <3>1. Execute(s, data[i].close)
      BY <1>10, <2>3
    <3>2. s.action = "buy" => ~Held /\ s.price > 0
      BY <1>8, <1>11
    <3>3. s.action \in {"buy", "sell"} /\ (s.action = "sell" => Held)
      BY <1>8, <1>11, <2>3
    <3> QED BY <1>2, <1>4, <1>8, <2>3, <3>1, <3>2, <3>3, Executed
  <2> QED BY <2>1, <2>2, <2>3
<1>14. Account' /\ Booked'
  BY <1>1, <1>2, <1>4, <1>13, AccountKept, BookedKept
<1>15. pending' = None \/ (pending' = s /\ nextOpen /\ i < Len(data) /\ Idle)
  BY <1>10
<1>16. Waiting'
  <2>1. CASE pending' = None
    BY <1>1, <1>11, <2>1 DEF Waiting
  <2>2. CASE pending' = s /\ nextOpen /\ Idle
    <3>1. Held' = Held
      BY <2>2 DEF Idle, Held
    <3> QED BY <1>1, <1>8, <1>11, <2>2, <3>1 DEF Waiting
  <2> QED BY <1>15, <2>1, <2>2
<1>17. Looked' = i /\ Touched' = i /\ (Going' <=> i < Len(data))
  BY <1>1 DEF Looked, Touched, Going
<1>18. ASSUME Held, s = None
       PROVE  /\ track' # NoTrack /\ track'.stop = pos.stop
              /\ \A j \in Closes(i) : data[j].close > pos.stop
  <2>1. track # NoTrack /\ track.stop = pos.stop /\ track' = track /\ Ready(i) /\ Tracked = track
    BY <1>2, <1>6, <1>9, <1>18 DEF Tracking, Tracked
  <2>2. ~(data[i].close <= track.stop)
    BY <1>8, <1>18, <2>1 DEF MustSell
  <2>3. data[i].close > pos.stop
    BY <1>2, <1>4, <2>1, <2>2 DEF Account, Holdings
  <2>4. \A j \in Closes(i) : j = i \/ j \in Closes(i - 1)
    BY <1>2, <1>4 DEF Closes, Account, Holdings
  <2> QED BY <1>6, <1>18, <2>1, <2>3, <2>4
<1>19. Tracking' /\ Stopping' /\ TrackingInSync'
  <2>1. CASE Idle /\ ~Held
    <3>1. ~Held'
      BY <2>1 DEF Idle, Held
    <3>2. s = None \/ s.action = "buy"
      BY <1>8, <2>1
    <3>3. pending'.action = "buy" => s.action = "buy" /\ pending' = s
      BY <1>11, <1>15
    <3>4. Tracking'
      <4>1. s.action = "buy" => track'.stop = s.stop /\ track' # NoTrack
        BY <1>4, <1>9, <1>11
      <4> QED BY <1>1, <1>12, <3>1, <3>3, <4>1 DEF Tracking
    <3>5. Stopping'
      BY <3>1 DEF Stopping
    <3>6. TrackingInSync'
      <4>1. CASE s = None
        <5>1. track' = NoTrack /\ track'.bar # i' /\ pending' = None
          BY <1>1, <1>4, <1>9, <1>11, <1>15, <2>1, <4>1
        <5> QED BY <1>11, <3>1, <5>1 DEF TrackingInSync, Refused
      <4>2. CASE s.action = "buy"
        <5>1. track' # NoTrack /\ track'.bar = i'
          BY <1>1, <1>4, <1>9, <1>11, <4>2
        <5>2. i' < Len(data') => pending'.action = "buy" \/ ~nextOpen'
          BY <1>1, <1>10, <4>2
        <5> QED BY <3>1, <5>1, <5>2 DEF TrackingInSync, Refused
      <4> QED BY <3>2, <4>1, <4>2
    <3> QED BY <3>4, <3>5, <3>6
  <2>2. CASE Idle /\ Held
    <3>1. Held' /\ pos' = pos /\ exits' = exits
      BY <2>2 DEF Idle, Held
    <3>2. /\ Closes(Looked)' = Closes(i) /\ Closes(i - 1)' = Closes(i - 1) /\ Lows(Touched)' = Lows(i)
      BY <1>1, <1>17, <3>1 DEF Closes, Lows
    <3>3. Stopping'
      BY <1>1, <1>6, <1>7, <2>2, <3>1, <3>2 DEF Stopping
    <3>4. s = None \/ (s.action = "sell" /\ nextOpen)
      <4>1. ~Bought(s, data[i].close)
        BY <2>2 DEF Bought
      <4>2. ~Sold(data[i].close)
        BY <3>1 DEF Sold, Held, NoPosition
      <4>3. s = None \/ s.action = "sell"
        BY <1>8, <2>2
      <4>4. nextOpen \/ s = None \/ s.action = "buy"
        BY <1>13, <4>1, <4>2
      <4> QED BY <4>3, <4>4
    <3>5. CASE s = None
      <4>1. pending' = None
        BY <1>15, <3>5
      <4>2. Tracking'
        BY <1>1, <1>11, <1>12, <1>18, <2>2, <3>1, <3>2, <3>5, <4>1 DEF Tracking
      <4>3. TrackingInSync'
        BY <1>11, <1>18, <2>2, <3>1, <3>5, <4>1 DEF TrackingInSync
      <4> QED BY <3>3, <4>2, <4>3
    <3>6. CASE s.action = "sell" /\ nextOpen
      <4>1. track' = NoTrack /\ (Going' => pending' = s) /\ (pending'.action # "buy")
        BY <1>9, <1>10, <1>11, <1>17, <3>6
      <4>2. Tracking'
        BY <1>1, <1>12, <3>6, <4>1 DEF Tracking
      <4>3. TrackingInSync'
        BY <1>1, <1>17, <3>1, <3>6, <4>1 DEF TrackingInSync, Refused
      <4> QED BY <3>3, <4>2, <4>3
    <3> QED BY <3>4, <3>5, <3>6
  <2>3. CASE ~nextOpen /\ s.action = "buy" /\ Bought(s, data[i].close)
    <3>1. Held' /\ pos'.bar = i /\ pos'.stop = s.stop /\ ~nextOpen' /\ pending' = None
      BY <1>1, <1>10, <2>3 DEF Bought, Held
    <3>2. track' # NoTrack /\ track'.stop = s.stop
      BY <1>4, <1>9, <1>11, <2>3
    <3>3. Closes(Looked)' = {} /\ Closes(i - 1)' = {} /\ Lows(Touched)' = {}
      BY <1>1, <1>4, <1>17, <3>1 DEF Closes, Lows
    <3>4. Tracking'
      BY <1>1, <1>11, <1>12, <3>1, <3>2, <3>3 DEF Tracking
    <3>5. Stopping'
      BY <3>3 DEF Stopping
    <3>6. TrackingInSync'
      BY <1>11, <3>1, <3>2 DEF TrackingInSync
    <3> QED BY <3>4, <3>5, <3>6
  <2>4. CASE ~nextOpen /\ s.action = "sell" /\ Sold(data[i].close)
    <3>1. ~Held' /\ pending' = None /\ track' = NoTrack
      BY <1>9, <1>10, <2>4 DEF Sold, Held, NoPosition
    <3>2. track'.bar # i'
      BY <1>1, <1>4, <1>11, <3>1
    <3>3. Tracking' /\ Stopping'
      BY <1>1, <1>11, <1>12, <3>1 DEF Tracking, Stopping
    <3>4. TrackingInSync'
      BY <1>11, <3>1, <3>2 DEF TrackingInSync, Refused
    <3> QED BY <3>3, <3>4
  <2> QED BY <1>13, <2>1, <2>2, <2>3, <2>4
<1> QED BY <1>3, <1>14, <1>16, <1>19 DEF IInv

LEMMA ValueKeeps ==
    ASSUME IInv, Value
    PROVE  IInv'
<1>1. /\ UNCHANGED <<data, initial, intrabar, nextOpen, cash, profit, pending, exits, track, orders>>
      /\ phase = "value"
      /\ pos' = IF Held THEN [pos EXCEPT !.price = data[i].close] ELSE pos
      /\ curve' = Append(curve, cash + pos.size * data[i].close * Scale)
  BY DEF Value, args, Bar
<1>2. Loop /\ Account /\ Booked /\ Waiting /\ Tracking /\ Stopping
  BY DEF IInv
<1>3. /\ i \in Nat /\ i >= 1 /\ Len(data) \in Nat /\ i <= Len(data) /\ data[i].close \in Nat
  BY <1>2, Here
<1>4. \/ i = Len(data) /\ phase' = "analyze" /\ i' = i
      \/ i < Len(data) /\ phase' = "exit" /\ i' = i + 1
  BY <1>3 DEF Value
<1>5. curve' \in Seq(Int) /\ Len(curve') = i
  <2>1. cash \in Nat /\ pos.size \in Nat /\ 100 * 100 = 10000
    BY <1>2 DEF Account, Holdings
  <2>2. pos.size * data[i].close \in Nat
    BY <1>3, <2>1, Products
  <2>3. cash + pos.size * data[i].close * Scale \in Int
    BY <2>1, <2>2 DEF Scale
  <2>4. curve \in Seq(Int) /\ Len(curve) = i - 1
    BY <1>1, <1>2 DEF Loop
  <2> DEFINE e == cash + pos.size * data[i].close * Scale
  <2>5. curve' = Append(curve, e)
    BY <1>1
  <2> HIDE DEF e
  <2>6. e \in Int
    BY <2>3 DEF e
  <2> QED BY <1>3, <2>4, <2>5, <2>6
<1>6. Loop'
  BY <1>1, <1>2, <1>3, <1>4, <1>5 DEF Loop
<1>7. /\ pos' \in Holdings /\ pos'.size = pos.size /\ pos'.entry = pos.entry /\ pos'.fee = pos.fee
      /\ pos'.bar = pos.bar /\ pos'.stop = pos.stop /\ (~Held => pos' = pos)
  BY <1>1, <1>2, <1>3 DEF Account, Holdings
<1>8. Held' = Held
  BY <1>7 DEF Held
<1>9. Account'
  <2>1. CashAccounted'
    BY <1>1, <1>2, <1>7 DEF Account, CashAccounted
  <2>2. pos'.bar <= i'
    BY <1>2, <1>3, <1>4, <1>7 DEF Account, Holdings
  <2> QED BY <1>1, <1>2, <1>7, <1>8, <2>1, <2>2 DEF Account
<1>10. Booked'
  BY <1>1, <1>2, <1>3, <1>4, <1>8 DEF Booked, FillsWithinBar, Orders
<1>11. Waiting'
  BY <1>1, <1>2, <1>4, <1>8 DEF Waiting
<1>12. TrackingInSync'
  BY <1>4 DEF TrackingInSync
<1>13. track \in Tracks /\ track.bar <= i
  BY <1>2 DEF Tracking
<1>14. track' \in Tracks /\ track'.bar <= i' /\ (track' # NoTrack => Ready(i') /\ track'.bar > 0)
  <2>1. Ready(i) => Ready(i')
    BY <1>3, <1>4, StrategyAssumption DEF Ready
  <2>2. track.bar <= i'
    BY <1>3, <1>4, <1>13 DEF Tracks
  <2> QED BY <1>1, <1>2, <1>13, <2>1, <2>2 DEF Tracking
<1>15. Tracking' /\ Stopping'
  <2>1. CASE i = Len(data) /\ phase' = "analyze" /\ i' = i
    <3>1. ~Going'
      BY <2>1 DEF Going
    <3> QED BY <1>1, <1>2, <1>14, <2>1, <3>1 DEF Tracking, Stopping
  <2>2. CASE i < Len(data) /\ phase' = "exit" /\ i' = i + 1
    <3>1. Going /\ Looked = i /\ Looked' = i' - 1 /\ i' - 1 = i /\ Touched = i /\ Touched' = i' - 1
      BY <1>1, <1>3, <2>2 DEF Going, Looked, Touched
    <3>2. Closes(Looked)' = Closes(i) /\ Lows(Touched)' = Lows(i)
      BY <1>1, <1>7, <3>1 DEF Closes, Lows
    <3>3. Held /\ pending.action # "sell" =>
            /\ track # NoTrack /\ track.stop = pos.stop
            /\ \A j \in Closes(i) : data[j].close > pos.stop
      BY <1>2, <3>1 DEF Tracking
    <3>4. Held /\ intrabar => \A j \in Lows(i) : data[j].low > exits.stop
      BY <1>1, <1>2, <3>1 DEF Stopping
    <3>5. Tracking'
      BY <1>1, <1>2, <1>7, <1>8, <1>14, <3>2, <3>3 DEF Tracking
    <3>6. Stopping'
      BY <1>1, <1>8, <2>2, <3>2, <3>4 DEF Stopping
    <3> QED BY <3>5, <3>6
  <2> QED BY <1>4, <2>1, <2>2
<1> QED BY <1>6, <1>9, <1>10, <1>11, <1>12, <1>15 DEF IInv

LEMMA AnalyzeKeeps ==
    ASSUME IInv, Analyze
    PROVE  IInv'
<1>1. /\ UNCHANGED <<data, initial, intrabar, nextOpen, i, cash, pos, profit, pending, exits, track,
                    curve, orders>>
      /\ phase = "analyze" /\ phase' = "done"
  BY DEF Analyze, args
<1>2. Held' = Held
  BY <1>1 DEF Held
<1>3. Loop' /\ Account' /\ Booked' /\ Waiting'
  BY <1>1, <1>2 DEF IInv, Loop, Account, CashAccounted, Booked, FillsWithinBar, Waiting
<1>4. ~Going' /\ Stopping' /\ TrackingInSync'
  BY <1>1 DEF Going, Stopping, TrackingInSync
<1>5. Tracking'
  BY <1>1, <1>4 DEF IInv, Tracking
<1> QED BY <1>3, <1>4, <1>5 DEF IInv

LEMMA IInvInductive ==
    ASSUME IInv, [Next]_vars
    PROVE  IInv'
<1>1. CASE UNCHANGED vars
  BY <1>1 DEF vars, IInv, Loop, Account, CashAccounted, Booked, FillsWithinBar, Waiting, Tracking,
              Stopping, TrackingInSync, Refused, Held, Going, Looked, Touched, Closes, Lows
<1> QED BY <1>1, CheckExitKeeps, FillPendingKeeps, DecideKeeps, ValueKeeps, AnalyzeKeeps DEF Next

LEMMA Inductive == Spec => []IInv
BY InitIInv, IInvInductive, PTL DEF Spec

-----------------------------------------------------------------------------
(* Folds over sequences: a fold goes through the sets of indices from the  *)
(* greatest down, which is a recursion over the prefixes.                  *)

\* A set that has 0 and goes up by one has all numbers up to n.
LEMMA Climb ==
    ASSUME NEW n \in Nat, NEW G, 0 \in G, \A k \in 1 .. n : k - 1 \in G => k \in G
    PROVE  \A k \in 0 .. n : k \in G
<1> DEFINE Bad == {k \in 0 .. n : k \notin G}
<1>1. ASSUME Bad # {} PROVE FALSE
  <2>0. Bad \in SUBSET Nat
    OBVIOUS
  <2> HIDE DEF Bad
  <2>1. PICK k \in Bad : \A l \in Bad : k <= l
    BY <1>1, <2>0, Least
  <2> USE DEF Bad
  <2>2. k \in 1 .. n /\ k - 1 \in 0 .. n /\ k - 1 \notin Bad
    BY <2>1
  <2> QED BY <2>1, <2>2
<1> QED BY <1>1

\* The index that a fold takes last.
Top(s) == Max(s)

LEMMA TopIs ==
    ASSUME NEW n \in Nat, NEW s \in SUBSET (1 .. n), s # {}
    PROVE  Top(s) \in s /\ \A y \in s : Top(s) >= y
<1> DEFINE G == {k \in 0 .. n : \A t \in SUBSET (1 .. k) :
                    t # {} => \E x \in t : \A y \in t : x >= y}
<1>1. 0 \in G
  <2>1. 1 .. 0 = {} /\ 0 \in 0 .. n
    OBVIOUS
  <2> QED BY <2>1
<1>2. ASSUME NEW k \in 1 .. n, k - 1 \in G PROVE k \in G
  <2> SUFFICES ASSUME NEW t \in SUBSET (1 .. k), t # {}
               PROVE  \E x \in t : \A y \in t : x >= y
    OBVIOUS
  <2>1. CASE k \in t
    <3>1. \A y \in t : k >= y
      OBVIOUS
    <3> QED BY <2>1, <3>1
  <2>2. CASE k \notin t
    <3>1. t \in SUBSET (1 .. k - 1)
      BY <2>2
    <3> QED BY <1>2, <3>1
  <2> QED BY <2>1, <2>2
<1>3. n \in G
  <2> HIDE DEF G
  <2>1. \A k \in 0 .. n : k \in G
    BY <1>1, <1>2, Climb
  <2> QED BY <2>1
<1>4. \E x \in s : \A y \in s : x >= y
  BY <1>3
<1> QED BY <1>4 DEF Top, Max

LEMMA TopOfPrefix ==
    ASSUME NEW k \in Nat \ {0}
    PROVE  Top(1 .. k) = k /\ (1 .. k) \ {Top(1 .. k)} = 1 .. (k - 1) /\ 1 .. k # {}
<1>1. 1 .. k # {} /\ 1 .. k \in SUBSET (1 .. k)
  OBVIOUS
<1>2. Top(1 .. k) \in 1 .. k /\ Top(1 .. k) >= k
  <2>1. Top(1 .. k) \in 1 .. k /\ \A y \in 1 .. k : Top(1 .. k) >= y
    BY <1>1, TopIs
  <2>2. k \in 1 .. k
    OBVIOUS
  <2> QED BY <2>1, <2>2
<1>3. Top(1 .. k) = k
  BY <1>2
<1>4. (1 .. k) \ {k} = 1 .. (k - 1)
  OBVIOUS
<1> QED BY <1>1, <1>3, <1>4

\* A step through A, from base, along n elements.
Stepping(A, base, step, n) ==
    n \in Nat /\ base \in A /\ step \in [A \X (1 .. n) -> A]

\* g folds a step over the sets of indices up to k.
Folding(g, base, step, k) ==
    g = [s \in SUBSET (1 .. k) |-> IF s = {} THEN base ELSE step[<<g[s \ {Top(s)}], Top(s)>>]]

\* A step that stays in A has a fold, and the fold stays in A.
LEMMA FoldExists ==
    ASSUME NEW n, NEW A, NEW base, NEW step, Stepping(A, base, step, n)
    PROVE  \E g \in [SUBSET (1 .. n) -> A] : Folding(g, base, step, n)
<1> n \in Nat /\ base \in A /\ step \in [A \X (1 .. n) -> A]
  BY DEF Stepping
<1> DEFINE G == {k \in 0 .. n : \E g \in [SUBSET (1 .. k) -> A] : Folding(g, base, step, k)}
<1>1. 0 \in G
  <2> DEFINE g == [s \in SUBSET (1 .. 0) |-> base]
  <2>1. \A s \in SUBSET (1 .. 0) : s = {}
    OBVIOUS
  <2>2. g \in [SUBSET (1 .. 0) -> A] /\ Folding(g, base, step, 0)
    BY <2>1 DEF Folding
  <2> QED BY <2>2
<1>2. ASSUME NEW k \in 1 .. n, k - 1 \in G PROVE k \in G
  <2>1. PICK g \in [SUBSET (1 .. k - 1) -> A] : Folding(g, base, step, k - 1)
    BY <1>2
  <2> DEFINE h == [s \in SUBSET (1 .. k) |->
                      IF s = {} THEN base ELSE step[<<g[s \ {Top(s)}], Top(s)>>]]
  <2>2. \A s \in SUBSET (1 .. k) :
           s # {} => Top(s) \in 1 .. k /\ s \ {Top(s)} \in SUBSET (1 .. k - 1)
    <3> SUFFICES ASSUME NEW s \in SUBSET (1 .. k), s # {}
                 PROVE  Top(s) \in 1 .. k /\ s \ {Top(s)} \in SUBSET (1 .. k - 1)
      OBVIOUS
    <3>1. Top(s) \in s /\ \A y \in s : Top(s) >= y
      <4>1. k \in Nat
        OBVIOUS
      <4> QED BY <4>1, TopIs
    <3>2. ASSUME NEW y \in s \ {Top(s)} PROVE y \in 1 .. k - 1
      <4>1. y \in 1 .. k /\ Top(s) \in 1 .. k /\ Top(s) >= y /\ y # Top(s)
        BY <3>1
      <4> HIDE DEF h
      <4> QED BY <4>1
    <3> QED BY <3>1, <3>2
  <2>3. \A s \in SUBSET (1 .. k - 1) : s \in SUBSET (1 .. k) /\ h[s] = g[s]
    <3> TAKE s \in SUBSET (1 .. k - 1)
    <3>1. s \in SUBSET (1 .. k)
      OBVIOUS
    <3>2. g[s] = IF s = {} THEN base ELSE step[<<g[s \ {Top(s)}], Top(s)>>]
      BY <2>1 DEF Folding
    <3> QED BY <3>1, <3>2
  <2>4. h \in [SUBSET (1 .. k) -> A]
    <3> SUFFICES ASSUME NEW s \in SUBSET (1 .. k), s # {}
                 PROVE  step[<<g[s \ {Top(s)}], Top(s)>>] \in A
      OBVIOUS
    <3>1. g[s \ {Top(s)}] \in A /\ Top(s) \in 1 .. n
      BY <2>2
    <3> QED BY <3>1
  <2>5. \A s \in SUBSET (1 .. k) :
           h[s] = IF s = {} THEN base ELSE step[<<h[s \ {Top(s)}], Top(s)>>]
    BY <2>2, <2>3
  <2> HIDE DEF h
  <2>6. Folding(h, base, step, k)
    BY <2>4, <2>5 DEF Folding
  <2> QED BY <2>4, <2>6
<1> HIDE DEF G
<1>3. n \in G
  <2>1. \A k \in 0 .. n : k \in G
    BY <1>1, <1>2, Climb
  <2> QED BY <2>1
<1> QED BY <1>3 DEF G

\* g goes on like the step where it is in A.
Follows(g, A, base, step, n) ==
    /\ g[{}] = base
    /\ \A s \in SUBSET (1 .. n) :
          s # {} /\ g[s \ {Top(s)}] \in A => g[s] = step[<<g[s \ {Top(s)}], Top(s)>>]

\* h runs through A from base by the step.
Running(h, A, base, step, n) ==
    /\ h \in [0 .. n -> A] /\ h[0] = base
    /\ \A k \in 1 .. n : h[k] = step[<<h[k - 1], k>>]

\* Along the prefixes, a fold is a run of the step.
LEMMA FoldRuns ==
    ASSUME NEW n, NEW A, NEW base, NEW step, Stepping(A, base, step, n),
           NEW g, Follows(g, A, base, step, n)
    PROVE  \E h : Running(h, A, base, step, n) /\ h[n] = g[1 .. n]
<1> n \in Nat /\ base \in A /\ step \in [A \X (1 .. n) -> A]
  BY DEF Stepping
<1> DEFINE h == [k \in 0 .. n |-> g[1 .. k]]
<1>1. h[0] = base /\ h[n] = g[1 .. n]
  <2>1. 1 .. 0 = {}
    OBVIOUS
  <2> QED BY <2>1 DEF Follows
<1>2. \A k \in 1 .. n : h[k - 1] \in A => h[k] = step[<<h[k - 1], k>>]
  <2> TAKE k \in 1 .. n
  <2>1. 1 .. k \in SUBSET (1 .. n) /\ k - 1 \in 0 .. n /\ k \in 0 .. n /\ k \in Nat \ {0}
    OBVIOUS
  <2>2. Top(1 .. k) = k /\ (1 .. k) \ {Top(1 .. k)} = 1 .. (k - 1) /\ 1 .. k # {}
    BY <2>1, TopOfPrefix
  <2>3. h[k] = g[1 .. k] /\ h[k - 1] = g[1 .. (k - 1)]
    BY <2>1
  <2> HIDE DEF h
  <2> QED BY <2>1, <2>2, <2>3 DEF Follows
<1> HIDE DEF h
<1> DEFINE G == {k \in 0 .. n : h[k] \in A}
<1>3. \A k \in 0 .. n : k \in G
  <2>1. 0 \in G
    BY <1>1
  <2>2. ASSUME NEW k \in 1 .. n, k - 1 \in G PROVE k \in G
    <3>1. h[k - 1] \in A /\ k \in 0 .. n
      BY <2>2
    <3>2. <<h[k - 1], k>> \in A \X (1 .. n)
      BY <3>1
    <3> QED BY <1>2, <3>1, <3>2
  <2> HIDE DEF G
  <2> QED BY <2>1, <2>2, Climb
<1>4. h \in [0 .. n -> A]
  BY <1>3 DEF h
<1>5. \A k \in 1 .. n : h[k] = step[<<h[k - 1], k>>]
  <2> TAKE k \in 1 .. n
  <2>1. k - 1 \in 0 .. n
    OBVIOUS
  <2> QED BY <1>2, <1>4, <2>1
<1> QED BY <1>1, <1>4, <1>5 DEF Running

-----------------------------------------------------------------------------
(* The folds of the statistics.                                            *)

\* A sum goes from 0 up by one element after the other.
LEMMA SumRuns ==
    ASSUME NEW s \in Seq(Int)
    PROVE  \E h \in [0 .. Len(s) -> Int] :
              /\ h[0] = 0 /\ SumOf(s) = h[Len(s)]
              /\ \A k \in 1 .. Len(s) : h[k] = h[k - 1] + s[k]
<1> DEFINE n == Len(s)
           step == [x \in Int \X (1 .. n) |-> x[1] + s[x[2]]]
           Is(g) == g = [t \in SUBSET (1 .. n) |->
                           IF t = {} THEN 0 ELSE g[t \ {Top(t)}] + s[Top(t)]]
<1>1. n \in Nat /\ DOMAIN s = 1 .. n /\ \A k \in 1 .. n : s[k] \in Int
  OBVIOUS
<1>2. SumOf(s) = (CHOOSE g : Is(g))[1 .. n]
  BY <1>1 DEF SumOf, FoldLeft, MapThenFoldSet, Top
<1>3. step \in [Int \X (1 .. n) -> Int]
  BY <1>1
<1>4. \A x \in Int : \A k \in 1 .. n : step[<<x, k>>] = x + s[k]
  OBVIOUS
<1> HIDE DEF n, step
<1>5. Stepping(Int, 0, step, n)
  BY <1>1, <1>3 DEF Stepping
<1>6. PICK g \in [SUBSET (1 .. n) -> Int] : Folding(g, 0, step, n)
  BY <1>5, FoldExists
<1>7. Is(g)
  <2>1. \A t \in SUBSET (1 .. n) :
           g[t] = IF t = {} THEN 0 ELSE g[t \ {Top(t)}] + s[Top(t)]
    <3> TAKE t \in SUBSET (1 .. n)
    <3>1. g[t] = IF t = {} THEN 0 ELSE step[<<g[t \ {Top(t)}], Top(t)>>]
      BY <1>6 DEF Folding
    <3>2. t # {} => Top(t) \in 1 .. n /\ t \ {Top(t)} \in SUBSET (1 .. n)
      BY <1>1, TopIs
    <3> QED BY <1>4, <3>1, <3>2
  <2> QED BY <2>1
<1> DEFINE c == CHOOSE f : Is(f)
<1>8. Is(c)
  BY <1>7
<1> HIDE DEF c
<1>9. Follows(c, Int, 0, step, n)
  <2>1. \A t \in SUBSET (1 .. n) :
           c[t] = IF t = {} THEN 0 ELSE c[t \ {Top(t)}] + s[Top(t)]
    BY <1>8
  <2>2. ASSUME NEW t \in SUBSET (1 .. n), t # {}, c[t \ {Top(t)}] \in Int
        PROVE  c[t] = step[<<c[t \ {Top(t)}], Top(t)>>]
    <3>1. Top(t) \in 1 .. n
      BY <1>1, <2>2, TopIs
    <3> QED BY <1>4, <2>1, <2>2, <3>1
  <2> QED BY <2>1, <2>2 DEF Follows
<1>10. PICK h : Running(h, Int, 0, step, n) /\ h[n] = c[1 .. n]
  BY <1>5, <1>9, FoldRuns
<1>11. h \in [0 .. n -> Int] /\ h[0] = 0 /\ \A k \in 1 .. n : h[k] = h[k - 1] + s[k]
  <2>1. h \in [0 .. n -> Int] /\ h[0] = 0
    BY <1>10 DEF Running
  <2>2. ASSUME NEW k \in 1 .. n PROVE h[k] = h[k - 1] + s[k]
    <3>1. k - 1 \in 0 .. n
      BY <1>1
    <3>2. h[k] = step[<<h[k - 1], k>>]
      BY <1>10 DEF Running
    <3> QED BY <1>4, <2>1, <3>1, <3>2
  <2> QED BY <2>1, <2>2
<1>12. SumOf(s) = h[n]
  BY <1>2, <1>10 DEF c
<1> QED BY <1>11, <1>12 DEF n

\* What the folds of the statistics do with an element.
Kept(sign, a, p) == IF sign * p > 0 THEN Append(a, p) ELSE a

Streak(sign, a, p) ==
    IF sign * p > 0 THEN [now |-> a.now + 1, max |-> Max({a.max, a.now + 1})]
    ELSE [a EXCEPT !.now = 0]

Loss(a, p) ==
    IF p < 0 THEN [a EXCEPT !.now = @ + 1]
    ELSE [now |-> 0, list |-> IF a.now > 0 THEN Append(a.list, a.now) ELSE a.list]

Counts == [now : Nat, max : Nat]
Walks == [now : Nat, list : Seq(Nat)]

LEMMA KeptStays ==
    ASSUME NEW sign, NEW a \in Seq(Int), NEW p \in Int
    PROVE  Kept(sign, a, p) \in Seq(Int)
BY DEF Kept

LEMMA StreakStays ==
    ASSUME NEW sign, NEW a \in Counts, NEW p \in Int
    PROVE  Streak(sign, a, p) \in Counts
<1>1. Max({a.max, a.now + 1}) \in Nat
  <2>1. a.max \in Nat /\ a.now + 1 \in Nat /\ a.max \in Int /\ a.now + 1 \in Int
    BY DEF Counts
  <2> QED BY <2>1, MaxPair
<1> QED BY <1>1 DEF Streak, Counts

LEMMA LossStays ==
    ASSUME NEW a \in Walks, NEW p \in Int
    PROVE  Loss(a, p) \in Walks
BY DEF Loss, Walks

\* The trades of a sign are kept one after the other.
LEMMA TradesRun ==
    ASSUME closed \in Seq(Int), NEW sign \in {1, -1}
    PROVE  \E h : /\ h \in [0 .. Len(closed) -> Seq(Int)] /\ h[0] = <<>>
                  /\ \A k \in 1 .. Len(closed) : h[k] = Kept(sign, h[k - 1], closed[k])
                  /\ TradesOf(sign) = h[Len(closed)]
<1> DEFINE n == Len(closed)
           step == [x \in Seq(Int) \X (1 .. n) |-> Kept(sign, x[1], closed[x[2]])]
           Is(g) == g = [t \in SUBSET (1 .. n) |->
                           IF t = {} THEN <<>> ELSE Kept(sign, g[t \ {Top(t)}], closed[Top(t)])]
<1>1. n \in Nat /\ DOMAIN closed = 1 .. n /\ \A k \in 1 .. n : closed[k] \in Int
  OBVIOUS
<1>2. TradesOf(sign) = (CHOOSE g : Is(g))[1 .. n]
  BY <1>1 DEF TradesOf, FoldLeft, MapThenFoldSet, Top, Kept
<1>3. step \in [Seq(Int) \X (1 .. n) -> Seq(Int)]
  BY <1>1, KeptStays
<1>4. \A x \in Seq(Int) : \A k \in 1 .. n : step[<<x, k>>] = Kept(sign, x, closed[k])
  OBVIOUS
<1> HIDE DEF n, step
<1>5. Stepping(Seq(Int), <<>>, step, n)
  BY <1>1, <1>3 DEF Stepping
<1>6. PICK g \in [SUBSET (1 .. n) -> Seq(Int)] : Folding(g, <<>>, step, n)
  BY <1>5, FoldExists
<1>7. Is(g)
  <2>1. \A t \in SUBSET (1 .. n) :
           g[t] = IF t = {} THEN <<>> ELSE Kept(sign, g[t \ {Top(t)}], closed[Top(t)])
    <3> TAKE t \in SUBSET (1 .. n)
    <3>1. g[t] = IF t = {} THEN <<>> ELSE step[<<g[t \ {Top(t)}], Top(t)>>]
      BY <1>6 DEF Folding
    <3>2. t # {} => Top(t) \in 1 .. n /\ t \ {Top(t)} \in SUBSET (1 .. n)
      BY <1>1, TopIs
    <3> QED BY <1>4, <3>1, <3>2
  <2> QED BY <2>1
<1> DEFINE c == CHOOSE f : Is(f)
<1>8. Is(c)
  BY <1>7
<1> HIDE DEF c
<1>9. Follows(c, Seq(Int), <<>>, step, n)
  <2>1. \A t \in SUBSET (1 .. n) :
           c[t] = IF t = {} THEN <<>> ELSE Kept(sign, c[t \ {Top(t)}], closed[Top(t)])
    BY <1>8
  <2>2. ASSUME NEW t \in SUBSET (1 .. n), t # {}, c[t \ {Top(t)}] \in Seq(Int)
        PROVE  c[t] = step[<<c[t \ {Top(t)}], Top(t)>>]
    <3>1. Top(t) \in 1 .. n
      BY <1>1, <2>2, TopIs
    <3> QED BY <1>4, <2>1, <2>2, <3>1
  <2> QED BY <2>1, <2>2 DEF Follows
<1>10. PICK h : Running(h, Seq(Int), <<>>, step, n) /\ h[n] = c[1 .. n]
  BY <1>5, <1>9, FoldRuns
<1>11. /\ h \in [0 .. n -> Seq(Int)] /\ h[0] = <<>>
       /\ \A k \in 1 .. n : h[k] = Kept(sign, h[k - 1], closed[k])
  <2>1. h \in [0 .. n -> Seq(Int)] /\ h[0] = <<>>
    BY <1>10 DEF Running
  <2>2. ASSUME NEW k \in 1 .. n PROVE h[k] = Kept(sign, h[k - 1], closed[k])
    <3>1. k - 1 \in 0 .. n
      BY <1>1
    <3>2. h[k] = step[<<h[k - 1], k>>]
      BY <1>10 DEF Running
    <3> QED BY <1>4, <2>1, <3>1, <3>2
  <2> QED BY <2>1, <2>2
<1>12. TradesOf(sign) = h[n]
  BY <1>2, <1>10 DEF c
<1> QED BY <1>11, <1>12 DEF n

\* The streaks of a sign are counted up and reset.
LEMMA StreaksRun ==
    ASSUME closed \in Seq(Int), NEW sign \in {1, -1}
    PROVE  \E h : /\ h \in [0 .. Len(closed) -> Counts] /\ h[0] = [now |-> 0, max |-> 0]
                  /\ \A k \in 1 .. Len(closed) : h[k] = Streak(sign, h[k - 1], closed[k])
                  /\ MaxConsecutive(sign) = h[Len(closed)].max
<1> DEFINE n == Len(closed)
           step == [x \in Counts \X (1 .. n) |-> Streak(sign, x[1], closed[x[2]])]
           Is(g) == g = [t \in SUBSET (1 .. n) |->
                           IF t = {} THEN [now |-> 0, max |-> 0] ELSE Streak(sign, g[t \ {Top(t)}], closed[Top(t)])]
<1>1. n \in Nat /\ DOMAIN closed = 1 .. n /\ \A k \in 1 .. n : closed[k] \in Int
  OBVIOUS
<1>2. MaxConsecutive(sign) = (CHOOSE g : Is(g))[1 .. n].max
  BY <1>1 DEF MaxConsecutive, FoldLeft, MapThenFoldSet, Top, Streak
<1>3. step \in [Counts \X (1 .. n) -> Counts]
  BY <1>1, StreakStays
<1>4. \A x \in Counts : \A k \in 1 .. n : step[<<x, k>>] = Streak(sign, x, closed[k])
  OBVIOUS
<1> HIDE DEF n, step
<1>5. Stepping(Counts, [now |-> 0, max |-> 0], step, n)
  BY <1>1, <1>3 DEF Stepping, Counts
<1>6. PICK g \in [SUBSET (1 .. n) -> Counts] : Folding(g, [now |-> 0, max |-> 0], step, n)
  BY <1>5, FoldExists
<1>7. Is(g)
  <2>1. \A t \in SUBSET (1 .. n) :
           g[t] = IF t = {} THEN [now |-> 0, max |-> 0] ELSE Streak(sign, g[t \ {Top(t)}], closed[Top(t)])
    <3> TAKE t \in SUBSET (1 .. n)
    <3>1. g[t] = IF t = {} THEN [now |-> 0, max |-> 0] ELSE step[<<g[t \ {Top(t)}], Top(t)>>]
      BY <1>6 DEF Folding
    <3>2. t # {} => Top(t) \in 1 .. n /\ t \ {Top(t)} \in SUBSET (1 .. n)
      BY <1>1, TopIs
    <3> QED BY <1>4, <3>1, <3>2
  <2> QED BY <2>1
<1> DEFINE c == CHOOSE f : Is(f)
<1>8. Is(c)
  BY <1>7
<1> HIDE DEF c
<1>9. Follows(c, Counts, [now |-> 0, max |-> 0], step, n)
  <2>1. \A t \in SUBSET (1 .. n) :
           c[t] = IF t = {} THEN [now |-> 0, max |-> 0] ELSE Streak(sign, c[t \ {Top(t)}], closed[Top(t)])
    BY <1>8
  <2>2. ASSUME NEW t \in SUBSET (1 .. n), t # {}, c[t \ {Top(t)}] \in Counts
        PROVE  c[t] = step[<<c[t \ {Top(t)}], Top(t)>>]
    <3>1. Top(t) \in 1 .. n
      BY <1>1, <2>2, TopIs
    <3> QED BY <1>4, <2>1, <2>2, <3>1
  <2> QED BY <2>1, <2>2 DEF Follows
<1>10. PICK h : Running(h, Counts, [now |-> 0, max |-> 0], step, n) /\ h[n] = c[1 .. n]
  BY <1>5, <1>9, FoldRuns
<1>11. /\ h \in [0 .. n -> Counts] /\ h[0] = [now |-> 0, max |-> 0]
       /\ \A k \in 1 .. n : h[k] = Streak(sign, h[k - 1], closed[k])
  <2>1. h \in [0 .. n -> Counts] /\ h[0] = [now |-> 0, max |-> 0]
    BY <1>10 DEF Running
  <2>2. ASSUME NEW k \in 1 .. n PROVE h[k] = Streak(sign, h[k - 1], closed[k])
    <3>1. k - 1 \in 0 .. n
      BY <1>1
    <3>2. h[k] = step[<<h[k - 1], k>>]
      BY <1>10 DEF Running
    <3> QED BY <1>4, <2>1, <3>1, <3>2
  <2> QED BY <2>1, <2>2
<1>12. MaxConsecutive(sign) = h[n].max
  BY <1>2, <1>10 DEF c
<1> QED BY <1>11, <1>12 DEF n

\* The losing streaks are listed as they end.
LEMMA LossesRun ==
    ASSUME closed \in Seq(Int)
    PROVE  \E h : /\ h \in [0 .. Len(closed) -> Walks] /\ h[0] = [now |-> 0, list |-> <<>>]
                  /\ \A k \in 1 .. Len(closed) : h[k] = Loss(h[k - 1], closed[k])
                  /\ LossStreaks = LET w == h[Len(closed)]
                                     IN IF w.now > 0 THEN Append(w.list, w.now) ELSE w.list
<1> DEFINE n == Len(closed)
           step == [x \in Walks \X (1 .. n) |-> Loss(x[1], closed[x[2]])]
           Is(g) == g = [t \in SUBSET (1 .. n) |->
                           IF t = {} THEN [now |-> 0, list |-> <<>>] ELSE Loss(g[t \ {Top(t)}], closed[Top(t)])]
<1>1. n \in Nat /\ DOMAIN closed = 1 .. n /\ \A k \in 1 .. n : closed[k] \in Int
  OBVIOUS
<1>2. LossStreaks = LET w == (CHOOSE g : Is(g))[1 .. n]
                    IN IF w.now > 0 THEN Append(w.list, w.now) ELSE w.list
  BY <1>1 DEF LossStreaks, FoldLeft, MapThenFoldSet, Top, Loss
<1>3. step \in [Walks \X (1 .. n) -> Walks]
  BY <1>1, LossStays
<1>4. \A x \in Walks : \A k \in 1 .. n : step[<<x, k>>] = Loss(x, closed[k])
  OBVIOUS
<1> HIDE DEF n, step
<1>5. Stepping(Walks, [now |-> 0, list |-> <<>>], step, n)
  BY <1>1, <1>3 DEF Stepping, Walks
<1>6. PICK g \in [SUBSET (1 .. n) -> Walks] : Folding(g, [now |-> 0, list |-> <<>>], step, n)
  BY <1>5, FoldExists
<1>7. Is(g)
  <2>1. \A t \in SUBSET (1 .. n) :
           g[t] = IF t = {} THEN [now |-> 0, list |-> <<>>] ELSE Loss(g[t \ {Top(t)}], closed[Top(t)])
    <3> TAKE t \in SUBSET (1 .. n)
    <3>1. g[t] = IF t = {} THEN [now |-> 0, list |-> <<>>] ELSE step[<<g[t \ {Top(t)}], Top(t)>>]
      BY <1>6 DEF Folding
    <3>2. t # {} => Top(t) \in 1 .. n /\ t \ {Top(t)} \in SUBSET (1 .. n)
      BY <1>1, TopIs
    <3> QED BY <1>4, <3>1, <3>2
  <2> QED BY <2>1
<1> DEFINE c == CHOOSE f : Is(f)
<1>8. Is(c)
  BY <1>7
<1> HIDE DEF c
<1>9. Follows(c, Walks, [now |-> 0, list |-> <<>>], step, n)
  <2>1. \A t \in SUBSET (1 .. n) :
           c[t] = IF t = {} THEN [now |-> 0, list |-> <<>>] ELSE Loss(c[t \ {Top(t)}], closed[Top(t)])
    BY <1>8
  <2>2. ASSUME NEW t \in SUBSET (1 .. n), t # {}, c[t \ {Top(t)}] \in Walks
        PROVE  c[t] = step[<<c[t \ {Top(t)}], Top(t)>>]
    <3>1. Top(t) \in 1 .. n
      BY <1>1, <2>2, TopIs
    <3> QED BY <1>4, <2>1, <2>2, <3>1
  <2> QED BY <2>1, <2>2 DEF Follows
<1>10. PICK h : Running(h, Walks, [now |-> 0, list |-> <<>>], step, n) /\ h[n] = c[1 .. n]
  BY <1>5, <1>9, FoldRuns
<1>11. /\ h \in [0 .. n -> Walks] /\ h[0] = [now |-> 0, list |-> <<>>]
       /\ \A k \in 1 .. n : h[k] = Loss(h[k - 1], closed[k])
  <2>1. h \in [0 .. n -> Walks] /\ h[0] = [now |-> 0, list |-> <<>>]
    BY <1>10 DEF Running
  <2>2. ASSUME NEW k \in 1 .. n PROVE h[k] = Loss(h[k - 1], closed[k])
    <3>1. k - 1 \in 0 .. n
      BY <1>1
    <3>2. h[k] = step[<<h[k - 1], k>>]
      BY <1>10 DEF Running
    <3> QED BY <1>4, <2>1, <3>1, <3>2
  <2> QED BY <2>1, <2>2
<1>12. LossStreaks = LET w == h[n]
                     IN IF w.now > 0 THEN Append(w.list, w.now) ELSE w.list
  BY <1>2, <1>10 DEF c
<1> QED BY <1>11, <1>12 DEF n

LEMMA AppendedSet ==
    ASSUME NEW S, NEW s \in Seq(S), NEW x \in S
    PROVE  ToSet(Append(s, x)) = ToSet(s) \cup {x}
<1>1. /\ DOMAIN Append(s, x) = 1 .. Len(s) + 1 /\ DOMAIN s = 1 .. Len(s) /\ Len(s) \in Nat
      /\ \A k \in 1 .. Len(s) : Append(s, x)[k] = s[k]
      /\ Append(s, x)[Len(s) + 1] = x
  OBVIOUS
<1>2. 1 .. Len(s) + 1 = (1 .. Len(s)) \cup {Len(s) + 1}
  BY <1>1
<1> QED BY <1>1, <1>2 DEF ToSet

LEMMA GreatestIs ==
    ASSUME NEW S \in SUBSET Nat, NEW m \in S, \A x \in S : x <= m
    PROVE  Max(S) = m
<1>1. \E x \in S : \A y \in S : x >= y
  OBVIOUS
<1>2. Max(S) \in S /\ \A y \in S : Max(S) >= y
  BY <1>1 DEF Max
<1>3. Max(S) >= m /\ Max(S) <= m /\ Max(S) \in Nat /\ m \in Nat
  BY <1>2
<1> QED BY <1>3

LEMMA SumAppend ==
    ASSUME NEW s \in Seq(Int), NEW x \in Int
    PROVE  SumOf(s) \in Int /\ SumOf(Append(s, x)) = SumOf(s) + x
<1> DEFINE n == Len(s)
           u == Append(s, x)
<1>1. /\ n \in Nat /\ u \in Seq(Int) /\ Len(u) = n + 1 /\ u[n + 1] = x
      /\ \A k \in 1 .. n : u[k] = s[k]
  OBVIOUS
<1> HIDE DEF u
<1>2. PICK h : /\ h \in [0 .. n -> Int] /\ h[0] = 0 /\ SumOf(s) = h[n]
               /\ \A k \in 1 .. n : h[k] = h[k - 1] + s[k]
  BY SumRuns
<1>3. PICK g : /\ g \in [0 .. Len(u) -> Int] /\ g[0] = 0 /\ SumOf(u) = g[Len(u)]
               /\ \A k \in 1 .. Len(u) : g[k] = g[k - 1] + u[k]
  BY <1>1, SumRuns
<1> HIDE DEF n
<1> DEFINE G == {k \in 0 .. n : g[k] = h[k]}
<1>4. 0 \in G
  BY <1>1, <1>2, <1>3
<1>5. ASSUME NEW k \in 1 .. n, k - 1 \in G PROVE k \in G
  <2>1. h[k] = h[k - 1] + s[k] /\ u[k] = s[k]
    BY <1>1, <1>2
  <2>2. k \in 1 .. Len(u)
    BY <1>1
  <2>3. g[k] = g[k - 1] + u[k]
    BY <1>3, <2>2
  <2>4. g[k - 1] = h[k - 1] /\ k \in 0 .. n
    BY <1>1, <1>5
  <2> QED BY <2>1, <2>3, <2>4
<1>6. g[n] = h[n]
  <2> HIDE DEF G
  <2>1. \A k \in 0 .. n : k \in G
    BY <1>1, <1>4, <1>5, Climb
  <2> QED BY <1>1, <2>1 DEF G
<1>7. g[n + 1] = g[n] + u[n + 1] /\ SumOf(u) = g[n + 1]
  <2>1. n + 1 \in 1 .. Len(u) /\ (n + 1) - 1 = n
    BY <1>1
  <2> QED BY <1>1, <1>3, <2>1
<1> QED BY <1>1, <1>2, <1>3, <1>6, <1>7 DEF u

LEMMA SumEmpty == SumOf(<<>>) = 0
<1>1. <<>> \in Seq(Int) /\ Len(<<>>) = 0
  OBVIOUS
<1> QED BY <1>1, SumRuns

\* The gains and the losses add up to the results, and the gains are none.
LEMMA TradesAddUp ==
    ASSUME closed \in Seq(Int)
    PROVE  /\ Won \in Seq(Int) /\ Lost \in Seq(Int)
           /\ SumOf(closed) = SumOf(Won) + SumOf(Lost)
           /\ SumOf(Won) \in Nat /\ SumOf(Lost) \in Int
<1> DEFINE n == Len(closed)
<1>1. n \in Nat /\ \A k \in 1 .. n : closed[k] \in Int
  OBVIOUS
<1>2. PICK h : /\ h \in [0 .. n -> Int] /\ h[0] = 0 /\ SumOf(closed) = h[n]
               /\ \A k \in 1 .. n : h[k] = h[k - 1] + closed[k]
  BY SumRuns
<1>3. PICK w : /\ w \in [0 .. n -> Seq(Int)] /\ w[0] = <<>>
               /\ \A k \in 1 .. n : w[k] = Kept(1, w[k - 1], closed[k])
               /\ TradesOf(1) = w[n]
  BY TradesRun
<1>4. PICK l : /\ l \in [0 .. n -> Seq(Int)] /\ l[0] = <<>>
               /\ \A k \in 1 .. n : l[k] = Kept(-1, l[k - 1], closed[k])
               /\ TradesOf(-1) = l[n]
  BY TradesRun
<1> HIDE DEF n
<1> DEFINE G == {k \in 0 .. n : SumOf(w[k]) \in Nat /\ h[k] = SumOf(w[k]) + SumOf(l[k])}
<1>5. 0 \in G
  <2>1. SumOf(w[0]) = 0 /\ SumOf(l[0]) = 0 /\ 0 \in 0 .. n
    BY <1>1, <1>3, <1>4, SumEmpty
  <2> QED BY <1>2, <2>1
<1>6. ASSUME NEW k \in 1 .. n, k - 1 \in G PROVE k \in G
  <2> DEFINE p == closed[k]
             a == SumOf(w[k - 1])
             b == SumOf(l[k - 1])
  <2>1. /\ k - 1 \in 0 .. n /\ k \in 0 .. n /\ p \in Int
        /\ w[k - 1] \in Seq(Int) /\ l[k - 1] \in Seq(Int)
        /\ h[k] = h[k - 1] + p /\ h[k - 1] = a + b /\ a \in Nat
        /\ w[k] = Kept(1, w[k - 1], p) /\ l[k] = Kept(-1, l[k - 1], p)
    <3>1. k - 1 \in 0 .. n /\ k \in 0 .. n /\ p \in Int
      BY <1>1
    <3>2. h[k] = h[k - 1] + p
      BY <1>2
    <3>3. w[k - 1] \in Seq(Int) /\ w[k] = Kept(1, w[k - 1], p)
      BY <1>3, <3>1
    <3>4. l[k - 1] \in Seq(Int) /\ l[k] = Kept(-1, l[k - 1], p)
      BY <1>4, <3>1
    <3>5. h[k - 1] = a + b /\ a \in Nat
      BY <1>6
    <3> QED BY <3>1, <3>2, <3>3, <3>4, <3>5
  <2>0. 1 * p = p /\ (-1 * p > 0 <=> p < 0)
    BY <2>1
  <2>2. SumOf(w[k]) = IF p > 0 THEN a + p ELSE a
    <3>1. w[k] = IF p > 0 THEN Append(w[k - 1], p) ELSE w[k - 1]
      BY <2>0, <2>1 DEF Kept
    <3> QED BY <2>1, <3>1, SumAppend
  <2>3. SumOf(l[k]) = IF p < 0 THEN b + p ELSE b
    <3>1. l[k] = IF p < 0 THEN Append(l[k - 1], p) ELSE l[k - 1]
      BY <2>0, <2>1 DEF Kept
    <3> QED BY <2>1, <3>1, SumAppend
  <2>4. b \in Int
    BY <2>1, SumAppend
  <2> HIDE DEF p, a, b
  <2>5. SumOf(w[k]) \in Nat /\ h[k] = SumOf(w[k]) + SumOf(l[k])
    BY <2>1, <2>2, <2>3, <2>4
  <2> QED BY <2>1, <2>5
<1> HIDE DEF G
<1>7. n \in G
  <2>1. \A k \in 0 .. n : k \in G
    BY <1>1, <1>5, <1>6, Climb
  <2> QED BY <1>1, <2>1
<1>8. Won = w[n] /\ Lost = l[n] /\ w[n] \in Seq(Int) /\ l[n] \in Seq(Int)
  BY <1>1, <1>3, <1>4 DEF Won, Lost
<1>9. SumOf(l[n]) \in Int
  BY <1>8, SumAppend
<1> QED BY <1>2, <1>7, <1>8, <1>9 DEF G

\* No streak is longer than the list of its trades.
LEMMA StreakBelow ==
    ASSUME closed \in Seq(Int), NEW sign \in {1, -1}
    PROVE  MaxConsecutive(sign) <= Len(TradesOf(sign))
<1> DEFINE n == Len(closed)
<1>1. n \in Nat /\ \A k \in 1 .. n : closed[k] \in Int
  OBVIOUS
<1>2. PICK m : /\ m \in [0 .. n -> Counts] /\ m[0] = [now |-> 0, max |-> 0]
               /\ \A k \in 1 .. n : m[k] = Streak(sign, m[k - 1], closed[k])
               /\ MaxConsecutive(sign) = m[n].max
  BY StreaksRun
<1>3. PICK w : /\ w \in [0 .. n -> Seq(Int)] /\ w[0] = <<>>
               /\ \A k \in 1 .. n : w[k] = Kept(sign, w[k - 1], closed[k])
               /\ TradesOf(sign) = w[n]
  BY TradesRun
<1> HIDE DEF n
<1> DEFINE G == {k \in 0 .. n : m[k].max <= Len(w[k]) /\ m[k].now <= Len(w[k])}
<1>4. 0 \in G
  BY <1>1, <1>2, <1>3
<1>5. ASSUME NEW k \in 1 .. n, k - 1 \in G PROVE k \in G
  <2> DEFINE a == m[k - 1]
             v == w[k - 1]
  <2>1. /\ k - 1 \in 0 .. n /\ k \in 0 .. n /\ a \in Counts /\ v \in Seq(Int)
        /\ a.max <= Len(v) /\ a.now <= Len(v)
        /\ m[k] = Streak(sign, a, closed[k]) /\ w[k] = Kept(sign, v, closed[k])
    BY <1>1, <1>2, <1>3, <1>5
  <2> HIDE DEF a, v
  <2>2. a.max \in Nat /\ a.now \in Nat /\ Len(v) \in Nat
    BY <2>1 DEF Counts
  <2>3. CASE sign * closed[k] > 0
    <3>1. m[k].now = a.now + 1 /\ m[k].max = Max({a.max, a.now + 1})
      BY <2>1, <2>3 DEF Streak
    <3>2. Len(w[k]) = Len(v) + 1
      BY <1>1, <2>1, <2>3 DEF Kept
    <3>3. Max({a.max, a.now + 1}) \in {a.max, a.now + 1}
      <4>1. a.max \in Int /\ a.now + 1 \in Int
        BY <2>2
      <4> QED BY <4>1, MaxPair
    <3>4. m[k].max <= Len(w[k]) /\ m[k].now <= Len(w[k])
      BY <2>1, <2>2, <3>1, <3>2, <3>3
    <3> QED BY <2>1, <3>4
  <2>4. CASE ~(sign * closed[k] > 0)
    <3>1. m[k].now = 0 /\ m[k].max = a.max /\ w[k] = v
      BY <2>1, <2>4 DEF Streak, Kept, Counts
    <3> QED BY <2>1, <2>2, <3>1
  <2> QED BY <2>3, <2>4
<1> HIDE DEF G
<1>6. n \in G
  <2>1. \A k \in 0 .. n : k \in G
    BY <1>1, <1>4, <1>5, Climb
  <2> QED BY <1>1, <2>1
<1> QED BY <1>2, <1>3, <1>6 DEF G

\* The two ways to count losing streaks find the same longest one.
LEMMA StreaksAgree ==
    ASSUME closed \in Seq(Int)
    PROVE  MaxConsecutive(-1) = Max(ToSet(LossStreaks) \cup {0})
<1> DEFINE n == Len(closed)
<1>1. n \in Nat /\ \A k \in 1 .. n : closed[k] \in Int
  OBVIOUS
<1>2. PICK m : /\ m \in [0 .. n -> Counts] /\ m[0] = [now |-> 0, max |-> 0]
               /\ \A k \in 1 .. n : m[k] = Streak(-1, m[k - 1], closed[k])
               /\ MaxConsecutive(-1) = m[n].max
  BY StreaksRun
<1>3. PICK l : /\ l \in [0 .. n -> Walks] /\ l[0] = [now |-> 0, list |-> <<>>]
               /\ \A k \in 1 .. n : l[k] = Loss(l[k - 1], closed[k])
               /\ LossStreaks = LET w == l[n]
                                IN IF w.now > 0 THEN Append(w.list, w.now) ELSE w.list
  BY LossesRun
<1> HIDE DEF n
<1> DEFINE Found(k) == ToSet(l[k].list) \cup {0, l[k].now}
           G == {k \in 0 .. n : /\ m[k].now = l[k].now /\ m[k].max \in Found(k)
                                /\ \A x \in Found(k) : x <= m[k].max}
<1>4. 0 \in G
  <2>1. ToSet(<<>>) = {}
    BY DEF ToSet
  <2>2. Found(0) = {0} /\ 0 \in 0 .. n
    BY <1>1, <1>3, <2>1
  <2> HIDE DEF Found
  <2> QED BY <1>2, <1>3, <2>2
<1>5. ASSUME NEW k \in 1 .. n, k - 1 \in G PROVE k \in G
  <2> DEFINE a == m[k - 1]
             b == l[k - 1]
             p == closed[k]
  <2>1. /\ k - 1 \in 0 .. n /\ k \in 0 .. n /\ a \in Counts /\ b \in Walks /\ p \in Int
        /\ m[k] = Streak(-1, a, p) /\ l[k] = Loss(b, p)
        /\ a.now = b.now /\ a.max \in ToSet(b.list) \cup {0, b.now}
        /\ \A x \in ToSet(b.list) \cup {0, b.now} : x <= a.max
    BY <1>1, <1>2, <1>3, <1>5
  <2> HIDE DEF a, b, p
  <2>2. a.max \in Nat /\ a.now \in Nat /\ b.list \in Seq(Nat) /\ b.now \in Nat
    BY <2>1 DEF Counts, Walks
  <2>3. ToSet(b.list) \in SUBSET Nat
    BY <2>2 DEF ToSet
  <2>4. CASE p < 0
    <3>1. -1 * p > 0
      BY <2>1, <2>4
    <3>2. m[k].now = a.now + 1 /\ m[k].max = Max({a.max, a.now + 1})
      BY <2>1, <3>1 DEF Streak
    <3>3. l[k].now = b.now + 1 /\ l[k].list = b.list
      BY <2>1, <2>4 DEF Loss, Walks
    <3>4. /\ Max({a.max, a.now + 1}) \in {a.max, a.now + 1}
          /\ Max({a.max, a.now + 1}) >= a.max /\ Max({a.max, a.now + 1}) >= a.now + 1
      <4>1. a.max \in Int /\ a.now + 1 \in Int
        BY <2>2
      <4> QED BY <4>1, MaxPair
    <3>5. Found(k) = ToSet(b.list) \cup {0, b.now + 1}
      BY <3>3
    <3>7. a.max = b.now => a.max < a.now + 1
      BY <2>1, <2>2
    <3>8. m[k].max \in Found(k)
      <4>1. CASE m[k].max = a.now + 1
        BY <2>1, <3>5, <4>1
      <4>2. CASE m[k].max # a.now + 1
        <5>1. m[k].max = a.max /\ a.max # b.now
          BY <2>1, <2>2, <3>2, <3>4, <3>7, <4>2
        <5> QED BY <2>1, <3>5, <5>1
      <4> QED BY <4>1, <4>2
    <3>9. \A x \in Found(k) : x <= m[k].max
      <4> SUFFICES ASSUME NEW x \in ToSet(b.list) \cup {0, b.now + 1} PROVE x <= m[k].max
        BY <3>5
      <4>1. CASE x = b.now + 1
        BY <2>1, <2>2, <3>2, <3>4, <4>1
      <4>2. CASE x # b.now + 1
        <5>1. x <= a.max /\ x \in Nat
          BY <2>1, <2>3, <4>2
        <5>2. m[k].max \in Nat /\ m[k].max >= a.max
          BY <2>2, <3>2, <3>4
        <5> QED BY <2>2, <5>1, <5>2
      <4> QED BY <4>1, <4>2
    <3>10. m[k].now = l[k].now
      BY <2>1, <3>2, <3>3
    <3> HIDE DEF Found
    <3> QED BY <2>1, <3>8, <3>9, <3>10
  <2>5. CASE ~(p < 0)
    <3>1. ~(-1 * p > 0)
      BY <2>1, <2>5
    <3>2. m[k].now = 0 /\ m[k].max = a.max
      BY <2>1, <3>1 DEF Streak, Counts
    <3>3. l[k].now = 0 /\ l[k].list = IF b.now > 0 THEN Append(b.list, b.now) ELSE b.list
      BY <2>1, <2>5 DEF Loss
    <3>4. ToSet(l[k].list) \cup {0} = ToSet(b.list) \cup {0, b.now}
      <4>1. ToSet(Append(b.list, b.now)) = ToSet(b.list) \cup {b.now}
        BY <2>2, AppendedSet
      <4>2. CASE b.now > 0
        BY <3>3, <4>1, <4>2
      <4>3. CASE ~(b.now > 0)
        <5>1. b.now = 0
          BY <2>2, <4>3
        <5> QED BY <3>3, <4>3, <5>1
      <4> QED BY <4>2, <4>3
    <3>5. Found(k) = ToSet(b.list) \cup {0, b.now}
      BY <3>3, <3>4
    <3>6. m[k].max \in Found(k) /\ \A x \in Found(k) : x <= m[k].max
      BY <2>1, <3>2, <3>5
    <3> HIDE DEF Found
    <3> QED BY <2>1, <3>2, <3>3, <3>6
  <2> QED BY <2>4, <2>5
<1> HIDE DEF G
<1>6. n \in G
  <2>1. \A k \in 0 .. n : k \in G
    BY <1>1, <1>4, <1>5, Climb
  <2> QED BY <1>1, <2>1
<1>7. m[n].max \in Found(n) /\ \A x \in Found(n) : x <= m[n].max
  BY <1>6 DEF G
<1>8. l[n] \in Walks /\ m[n] \in Counts
  BY <1>1, <1>2, <1>3
<1>9. ToSet(LossStreaks) \cup {0} = Found(n)
  <2>1. l[n].list \in Seq(Nat) /\ l[n].now \in Nat
    BY <1>8 DEF Walks
  <2>2. ToSet(Append(l[n].list, l[n].now)) = ToSet(l[n].list) \cup {l[n].now}
    BY <2>1, AppendedSet
  <2>3. CASE l[n].now > 0
    BY <1>3, <2>2, <2>3
  <2>4. CASE ~(l[n].now > 0)
    <3>1. l[n].now = 0
      BY <2>1, <2>4
    <3> QED BY <1>3, <2>4, <3>1
  <2> QED BY <2>3, <2>4
<1>10. Found(n) \in SUBSET Nat /\ m[n].max \in Nat
  BY <1>8 DEF Walks, Counts, ToSet
<1> HIDE DEF Found
<1>11. Max(Found(n)) = m[n].max
  BY <1>7, <1>10, GreatestIs
<1> QED BY <1>2, <1>9, <1>11

-----------------------------------------------------------------------------
(* The report.                                                             *)

\* The results of the trades are on the list.
Reckoned == closed \in Seq(Int) /\ profit = SumOf(closed)

\* The curve ends with the cash of a run that ends without a position, and the report is
\* made once.
Ended ==
    /\ phase \in {"analyze", "done"} => Len(curve) > 0 /\ (~Held => Last(curve) = cash)
    /\ metrics.done => phase = "done"

LEMMA ReportInit ==
    ASSUME Init
    PROVE  Reckoned /\ Ended /\ ReportConsistent
<1>1. Reckoned
  BY SumEmpty DEF Init, Reckoned
<1>2. Ended /\ ReportConsistent
  BY DEF Init, Ended, NoMetrics, ReportConsistent
<1> QED BY <1>1, <1>2

LEMMA CloseReckoned ==
    ASSUME Account, Reckoned, NEW price \in Nat, NEW slip \in 0 .. 99,
           ClosePosition(price, slip)
    PROVE  Reckoned'
<1> DEFINE net == Proceeds(pos.size, price * (100 - slip))
           spent == pos.size * pos.entry * 100 + pos.fee
<1>1. net \in Nat
  <2> DEFINE paid == price * (100 - slip)
  <2>1. paid \in Nat
    <3>1. 100 - slip \in Nat
      OBVIOUS
    <3> QED BY <3>1, Products
  <2>2. pos.size \in Nat
    BY DEF Account, Holdings
  <2> HIDE DEF paid
  <2>3. pos.size * paid \in Nat
    BY <2>1, <2>2, Products
  <2>4. Proceeds(pos.size, paid) \in Nat
    BY <2>3, Rates, Products DEF Proceeds
  <2> QED BY <2>4 DEF paid
<1>2. spent \in Nat
  BY DEF Account, Holdings
<1>3. closed' = Append(closed, net - spent) /\ profit' = profit + net - spent
  BY DEF ClosePosition
<1> HIDE DEF net, spent
<1>4. net - spent \in Int /\ closed \in Seq(Int) /\ profit = SumOf(closed)
  BY <1>1, <1>2 DEF Reckoned
<1>5. SumOf(closed) \in Int /\ SumOf(closed') = SumOf(closed) + (net - spent)
  BY <1>3, <1>4, SumAppend
<1>6. profit' = SumOf(closed')
  BY <1>1, <1>2, <1>3, <1>4, <1>5
<1> QED BY <1>3, <1>4, <1>6 DEF Reckoned

LEMMA ReckonedStep ==
    ASSUME IInv, Reckoned, [Next]_vars
    PROVE  Reckoned'
<1>1. Loop /\ Account
  BY DEF IInv
<1>2. CASE UNCHANGED <<closed, profit>>
  BY <1>2 DEF Reckoned
<1>3. ASSUME NEW price \in Nat, NEW s, Execute(s, price) PROVE Reckoned'
  <2>1. UNCHANGED <<closed, profit>> \/ ClosePosition(price, Slip)
    BY <1>3 DEF Execute
  <2> QED BY <1>1, <1>2, <2>1, CloseReckoned, Rates
<1>4. data[i].open \in Nat /\ data[i].close \in Nat
  BY <1>1, Here
<1>5. CASE CheckExit
  <2>1. CASE intrabar /\ Held /\ exits.set /\ (StopHit \/ TakeHit)
    <3>1. ClosePosition(ExitPrice, 0)
      BY <1>5, <2>1 DEF CheckExit
    <3>2. ExitPrice \in Nat
      BY <1>1, <2>1, ExitPriceTraded DEF Account, Traded
    <3> QED BY <1>1, <3>1, <3>2, CloseReckoned
  <2>2. CASE ~(intrabar /\ Held /\ exits.set /\ (StopHit \/ TakeHit))
    BY <1>2, <1>5, <2>2 DEF CheckExit
  <2> QED BY <2>1, <2>2
<1>6. CASE FillPending
  <2>1. UNCHANGED <<closed, profit>> \/ Execute(pending, data[i].open)
    BY <1>6 DEF FillPending, Bar
  <2> QED BY <1>2, <1>3, <1>4, <2>1
<1>7. CASE Decide
  <2>1. UNCHANGED <<closed, profit>> \/ Execute(Signal, data[i].close)
    BY <1>7 DEF Decide, Bar
  <2> QED BY <1>2, <1>3, <1>4, <2>1
<1>8. CASE Value \/ Analyze \/ UNCHANGED vars
  BY <1>2, <1>8 DEF Value, Analyze, vars
<1> QED BY <1>5, <1>6, <1>7, <1>8 DEF Next

LEMMA EndedStep ==
    ASSUME IInv, Ended, [Next]_vars
    PROVE  Ended'
<1>1. Loop /\ Account
  BY DEF IInv
<1>2. CASE CheckExit \/ FillPending \/ Decide
  <2>1. phase \in {"exit", "fill", "signal"} /\ phase' \in {"fill", "signal", "value"}
        /\ metrics' = metrics
    BY <1>2 DEF CheckExit, FillPending, Decide
  <2> QED BY <2>1 DEF Ended
<1>3. CASE Value
  <2>1. /\ phase = "value" /\ phase' \in {"analyze", "exit"} /\ metrics' = metrics
        /\ cash' = cash /\ pos' = (IF Held THEN [pos EXCEPT !.price = data[i].close] ELSE pos)
        /\ curve' = Append(curve, cash + pos.size * data[i].close * Scale)
    BY <1>3 DEF Value, Bar
  <2>2. pos \in Holdings /\ cash \in Nat /\ data[i].close \in Nat /\ curve \in Seq(Int)
    BY <1>1, Here DEF Account, Loop
  <2>3. ~metrics'.done
    BY <2>1 DEF Ended
  <2>4. Held' = Held
    BY <2>1, <2>2 DEF Held, Holdings
  <2> DEFINE e == cash + pos.size * data[i].close * Scale
  <2>5. e \in Int
    <3>1. pos.size \in Nat
      BY <2>2 DEF Holdings
    <3>2. pos.size * data[i].close \in Nat
      BY <2>2, <3>1, Products
    <3> QED BY <2>2, <3>2 DEF Scale
  <2>6. ~Held => e = cash
    <3> SUFFICES ASSUME ~Held PROVE e = cash
      OBVIOUS
    <3>1. pos.size = 0
      BY <2>2 DEF Held, Holdings
    <3> QED BY <2>2, <3>1 DEF Scale
  <2>7. curve' = Append(curve, e)
    BY <2>1
  <2> HIDE DEF e
  <2>8. Len(curve') > 0 /\ Last(curve') = e
    BY <2>2, <2>5, <2>7 DEF Last
  <2> QED BY <2>1, <2>3, <2>4, <2>6, <2>8 DEF Ended
<1>4. CASE Analyze
  <2>1. phase = "analyze" /\ phase' = "done" /\ UNCHANGED <<cash, pos, curve>>
    BY <1>4 DEF Analyze
  <2> QED BY <2>1 DEF Ended, Held
<1>5. CASE UNCHANGED vars
  BY <1>5 DEF vars, Ended, Held
<1> QED BY <1>2, <1>3, <1>4, <1>5 DEF Next

\* What the statistics say of the trades.
LEMMA Analyzed ==
    ASSUME IInv, Reckoned, Ended, phase = "analyze"
    PROVE  /\ ~Held => Last(curve) - initial * Scale = SumOf(Won) + SumOf(Lost)
           /\ MaxConsecutive(-1) = Max(ToSet(LossStreaks) \cup {0})
           /\ MaxConsecutive(1) <= Len(Won) /\ MaxConsecutive(-1) <= Len(Lost)
           /\ Lost = <<>> /\ ~Held => Last(curve) - initial * Scale >= 0
<1>1. /\ closed \in Seq(Int) /\ profit = SumOf(closed)
      /\ SumOf(closed) = SumOf(Won) + SumOf(Lost) /\ SumOf(Won) \in Nat /\ SumOf(Lost) \in Int
  BY TradesAddUp DEF Reckoned
<1>2. ASSUME ~Held
      PROVE  Last(curve) - initial * Scale = SumOf(Won) + SumOf(Lost)
  <2>1. Last(curve) = cash
    BY <1>2 DEF Ended
  <2>2. cash \in Nat /\ cash = initial * Scale + profit - 0
    BY <1>2 DEF IInv, Account, CashAccounted, NoPosition
  <2>3. initial * Scale \in Nat
    <3>1. initial \in Nat
      BY Rates DEF IInv, Loop
    <3> QED BY <3>1 DEF Scale
  <2> QED BY <1>1, <2>1, <2>2, <2>3
<1>3. Lost = <<>> => SumOf(Lost) = 0
  BY SumEmpty
<1>4. MaxConsecutive(1) <= Len(Won) /\ MaxConsecutive(-1) <= Len(Lost)
  BY <1>1, StreakBelow DEF Won, Lost
<1> QED BY <1>1, <1>2, <1>3, <1>4, StreaksAgree

LEMMA ReportStep ==
    ASSUME IInv, Reckoned, Ended, ReportConsistent, [Next]_vars
    PROVE  ReportConsistent'
<1>1. CASE CheckExit \/ FillPending \/ Decide \/ Value
  <2>1. metrics' = metrics /\ phase # "done"
    BY <1>1 DEF CheckExit, FillPending, Decide, Value
  <2> QED BY <2>1 DEF Ended, ReportConsistent
<1>2. CASE Analyze
  <2> DEFINE gain == Last(curve) - initial * Scale
             won == SumOf(Won)
             lost == SumOf(Lost)
             wins == Len(Won)
             losses == Len(Lost)
             unbeaten == Lost = <<>>
             winStreak == MaxConsecutive(1)
             lossStreak == MaxConsecutive(-1)
             worst == Max(ToSet(LossStreaks) \cup {0})
  <2>1. /\ ~Held => gain = won + lost
        /\ lossStreak = worst /\ winStreak <= wins /\ lossStreak <= losses
        /\ unbeaten /\ ~Held => gain >= 0
    BY <1>2, Analyzed DEF Analyze
  <2>2. /\ metrics'.gain = gain /\ metrics'.won = won /\ metrics'.lost = lost
        /\ metrics'.wins = wins /\ metrics'.losses = losses /\ metrics'.unbeaten = unbeaten
        /\ metrics'.winStreak = winStreak /\ metrics'.lossStreak = lossStreak
        /\ metrics'.worstStreak = worst
    BY <1>2 DEF Analyze
  <2>3. Held' = Held
    BY <1>2 DEF Analyze, Held
  <2> HIDE DEF gain, won, lost, wins, losses, unbeaten, winStreak, lossStreak, worst
  <2> QED BY <2>1, <2>2, <2>3 DEF ReportConsistent
<1>3. CASE UNCHANGED vars
  BY <1>3 DEF vars, ReportConsistent, Held
<1> QED BY <1>1, <1>2, <1>3 DEF Next

-----------------------------------------------------------------------------
(* The theorems.                                                           *)

\* The state has its types: above all, the cash never goes below zero.
\* (Portfolio.open_position.)
THEOREM BacktestTypeCorrect == Spec => []TypeOK
<1>1. IInv => TypeOK
  <2> SUFFICES ASSUME IInv PROVE TypeOK
    OBVIOUS
  <2>1. Loop /\ Account /\ Waiting /\ Tracking /\ i \in Nat
    BY Here DEF IInv
  <2>2. pos.bar \in 0 .. i /\ {pos.size, pos.entry, pos.fee, pos.price} \subseteq Nat
    BY <2>1 DEF Account, Holdings
  <2>3. track.bar \in 0 .. i
    BY <2>1 DEF Tracking, Tracks
  <2>4. pending.action \in {"none", "buy", "sell"}
    BY <2>1 DEF Waiting, Signals
  <2> QED BY <2>1, <2>2, <2>3, <2>4 DEF TypeOK, Loop, Account
<1> QED BY <1>1, Inductive, PTL

\* No purchase, sale, refused order or exit loses money from the books.
\* (Portfolio.open_position, close_position.)
THEOREM CashAccountedHolds == Spec => []CashAccounted
<1>1. IInv => CashAccounted
  BY DEF IInv, Account
<1> QED BY <1>1, Inductive, PTL

\* Every order fills at a price its bar has traded at, orders alternate, and no position
\* outlives its stop.  (_execute_order, _check_intrabar_exit, generate_signal.)
THEOREM ExecutionHonestHolds == Spec => []ExecutionHonest
<1>1. IInv => FillsWithinBar
  BY DEF IInv, Booked
<1>2. IInv => StopHonoured
  <2> SUFFICES ASSUME IInv, Held, phase \in {"signal", "value"}
               PROVE  /\ \A j \in Closes(i - 1) : data[j].close > pos.stop
                      /\ intrabar => \A j \in Lows(i) : data[j].low > exits.stop
    BY DEF StopHonoured, Closes, Lows
  <2>1. Touched = i /\ Stopping
    BY DEF IInv, Touched
  <2> QED BY <2>1 DEF Stopping
<1> QED BY <1>1, <1>2, Inductive, PTL DEF ExecutionHonest

\* What the strategy tracks is what the portfolio holds or is about to buy.
\* (generate_signal, run.)
THEOREM TrackingInSyncHolds == Spec => []TrackingInSync
<1>1. IInv => TrackingInSync
  BY DEF IInv
<1> QED BY <1>1, Inductive, PTL

\* Indicators that are computed once, of the whole history, decide nothing that the
\* history up to the bar would not have decided.  (prepare_indicators, generate_signal.)
THEOREM NoLookAheadHolds == Spec => []NoLookAhead
<1>1. IInv => NoLookAhead
  <2> SUFFICES ASSUME IInv PROVE BuySignal(data, i) = BuySignal(SubSeq(data, 1, i), i)
    BY DEF NoLookAhead
  <2>1. Loop
    BY DEF IInv
  <2>2. data \in Seq(Bars) /\ i \in 1 .. Len(data) /\ i \in Nat \ {0}
    BY <2>1, Here, BarType DEF Loop
  <2>3. Agree(data, SubSeq(data, 1, i), i)
    BY <2>2 DEF Agree
  <2> QED BY <2>2, <2>3, BuySignalLocal
<1> QED BY <1>1, Inductive, PTL

\* The report of a run that ends without a position explains its whole gain by its
\* trades, and both ways to count losing streaks find the same longest one.
\* (calculate_metrics, _analyze_worst_loss_trades.)
THEOREM ReportConsistentHolds == Spec => []ReportConsistent
<1>1. IInv /\ IInv' /\ Reckoned /\ Ended /\ ReportConsistent /\ [Next]_vars
        => Reckoned' /\ Ended' /\ ReportConsistent'
  BY ReckonedStep, EndedStep, ReportStep
<1>2. Init => Reckoned /\ Ended /\ ReportConsistent
  BY ReportInit
<1> QED BY <1>1, <1>2, Inductive, PTL DEF Spec
=============================================================================
