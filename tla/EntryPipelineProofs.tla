------------------------ MODULE EntryPipelineProofs -------------------------
(***************************************************************************)
(* Proofs about EntryPipeline: for any number of coins and overlapping     *)
(* cycles, any limits, any account, any prices and any bounds.             *)
(***************************************************************************)
EXTENDS EntryPipeline, FiniteSetTheorems, WellFoundedInduction, TLAPS

-----------------------------------------------------------------------------
(* Type correctness.                                                        *)

LEMMA TypeInit == Init => TypeOK
<1> SUFFICES ASSUME Init PROVE TypeOK
  OBVIOUS
<1> USE PipelineAssumption DEF Init
<1>1. cash \in Nat /\ {buys, sells, rises, falls, faults} \subseteq Nat
  OBVIOUS
<1>2. value \in [Tickers -> Nat] /\ cost \in [Tickers -> Nat]
  OBVIOUS
<1>3. stage \in [Cycles -> Stage] /\ amount \in [Cycles -> Nat]
  BY DEF Stage
<1>4. seen \in [Cycles -> SUBSET Tickers] /\ target \in [Cycles -> Tickers]
  OBVIOUS
<1>5. lossy \in BOOLEAN
  OBVIOUS
<1> QED
  BY <1>1, <1>2, <1>3, <1>4, <1>5 DEF TypeOK

LEMMA TypeStep == TypeOK /\ [Next]_vars => TypeOK'
<1> SUFFICES ASSUME TypeOK, [Next]_vars PROVE TypeOK'
  OBVIOUS
<1> USE PipelineAssumption DEF TypeOK, Stage, GoTo, Positions, account, cycle, market
<1>1. ASSUME NEW c \in Cycles, Assess(c) PROVE TypeOK'
  BY <1>1 DEF Assess
<1>2. ASSUME NEW c \in Cycles, Scan(c) PROVE TypeOK'
  BY <1>2 DEF Scan
<1>3. ASSUME NEW c \in Cycles, ReadCash(c) PROVE TypeOK'
  <2>1. (95 * cash) \div 100 \in Nat
    OBVIOUS
  <2> QED
    BY <1>3, <2>1 DEF ReadCash
<1>4. ASSUME NEW c \in Cycles, Buy(c) PROVE TypeOK'
  BY <1>4 DEF Buy
<1>5. ASSUME NEW c \in Cycles, Sell(c) PROVE TypeOK'
  BY <1>5 DEF Sell
<1>6. ASSUME NEW c \in Cycles, Stop(c) PROVE TypeOK'
  BY <1>6 DEF Stop
<1>7. ASSUME NEW t \in Tickers, Rise(t) PROVE TypeOK'
  <2>1. value[t] * Swing \in Nat
    OBVIOUS
  <2> QED
    BY <1>7, <2>1 DEF Rise
<1>8. ASSUME NEW t \in Tickers, Fall(t) PROVE TypeOK'
  <2>1. value[t] \div Swing \in Nat
    OBVIOUS
  <2> QED
    BY <1>8, <2>1 DEF Fall
<1>9. CASE UNCHANGED vars
  BY <1>9 DEF vars
<1> QED
  BY <1>1, <1>2, <1>3, <1>4, <1>5, <1>6, <1>7, <1>8, <1>9 DEF Next, CycleStep

(* Every step of a cycle or of the market keeps the types; the cash never   *)
(* goes below zero, however many cycles order from it.                      *)
THEOREM TypeCorrect == Spec => []TypeOK
  BY TypeInit, TypeStep, PTL DEF Spec

-----------------------------------------------------------------------------
(* The limit on positions.  A cycle that has found room may use it up at    *)
(* any later time, so the invariant counts it as a position already.        *)

InFlight == {c \in Cycles : stage[c] # "idle"}

Limit == MaxPositions + (Cardinality(Cycles) - 1) + rises + faults

RoomPromised == Cardinality(Positions) + Cardinality(InFlight) <= Limit

IInv == TypeOK /\ RoomPromised

LEMMA SetsFinite ==
  /\ IsFiniteSet(Positions) /\ Cardinality(Positions) \in Nat
  /\ IsFiniteSet(InFlight) /\ Cardinality(InFlight) \in Nat
  /\ Cardinality(InFlight) <= Cardinality(Cycles)
  /\ Cardinality(Cycles) \in Nat \ {0}
<1>1. Positions \in SUBSET Tickers /\ InFlight \in SUBSET Cycles
  BY DEF Positions, InFlight
<1>2. IsFiniteSet(Positions) /\ IsFiniteSet(InFlight)
  BY <1>1, FS_Subset, PipelineAssumption
<1>3. Cardinality(InFlight) <= Cardinality(Cycles)
  BY <1>1, FS_Subset, PipelineAssumption
<1> QED
  BY <1>2, <1>3, FS_CardinalityType, FS_EmptySet, PipelineAssumption

LEMMA SetsFiniteNext ==
  /\ IsFiniteSet(Positions') /\ Cardinality(Positions') \in Nat
  /\ IsFiniteSet(InFlight') /\ Cardinality(InFlight') \in Nat
  /\ Cardinality(InFlight') <= Cardinality(Cycles)
<1>1. Positions' \in SUBSET Tickers /\ InFlight' \in SUBSET Cycles
  BY DEF Positions, InFlight
<1>2. IsFiniteSet(Positions') /\ IsFiniteSet(InFlight')
  BY <1>1, FS_Subset, PipelineAssumption
<1>3. Cardinality(InFlight') <= Cardinality(Cycles)
  BY <1>1, FS_Subset, PipelineAssumption
<1> QED
  BY <1>2, <1>3, FS_CardinalityType, PipelineAssumption

\* Whatever a set gains from one element is at most one.
LEMMA AtMostOneMore ==
  ASSUME NEW S, IsFiniteSet(S), NEW x, NEW T \in SUBSET (S \cup {x})
  PROVE  Cardinality(T) <= Cardinality(S) + 1
<1>1. /\ IsFiniteSet(S \cup {x})
      /\ Cardinality(S \cup {x}) = IF x \in S THEN Cardinality(S) ELSE Cardinality(S) + 1
  BY FS_AddElement
<1>2. Cardinality(T) <= Cardinality(S \cup {x}) /\ IsFiniteSet(T)
  BY <1>1, FS_Subset
<1>3. Cardinality(S) \in Nat /\ Cardinality(T) \in Nat
  BY <1>2, FS_CardinalityType
<1> QED
  BY <1>1, <1>2, <1>3

LEMMA RoomInit == Init => RoomPromised
<1> SUFFICES ASSUME Init PROVE RoomPromised
  OBVIOUS
<1>1. InFlight = {}
  BY DEF Init, InFlight
<1>2. Cardinality(InFlight) = 0
  BY <1>1, FS_EmptySet
<1> QED
  BY <1>2, SetsFinite, PipelineAssumption DEF Init, RoomPromised, Limit

LEMMA RoomStep == IInv /\ [Next]_vars => RoomPromised'
<1> SUFFICES ASSUME TypeOK, RoomPromised, [Next]_vars PROVE RoomPromised'
  BY DEF IInv
<1> USE SetsFinite, SetsFiniteNext, PipelineAssumption DEF Limit, RoomPromised
<1>a. rises \in Nat /\ faults \in Nat
  BY DEF TypeOK
<1>1. ASSUME NEW c \in Cycles, Assess(c) PROVE RoomPromised'
  <2>1. PICK known \in SUBSET Positions :
          /\ \/ known = Positions /\ UNCHANGED faults
             \/ known # Positions /\ faults < MaxFaults /\ faults' = faults + 1
          /\ Cardinality(known) < MaxPositions
          /\ GoTo(c, "idle", "scan")
          /\ UNCHANGED <<value, rises>>
    BY <1>1 DEF Assess, MayOpen, account, market
  <2>2. Positions' = Positions
    BY <2>1 DEF Positions
  <2>3. CASE known = Positions /\ UNCHANGED faults
    \* The cycle has seen all positions: there are fewer than MaxPositions.
    BY <1>a, <2>1, <2>2, <2>3
  <2>4. CASE faults' = faults + 1
    \* One more cycle is in flight, and one more fault is on the account.
    <3>1. InFlight' = InFlight \cup {c}
      BY <2>1 DEF InFlight, GoTo, TypeOK
    <3>2. Cardinality(InFlight') <= Cardinality(InFlight) + 1
      BY <3>1, FS_AddElement
    <3> QED
      BY <1>a, <2>1, <2>2, <2>4, <3>2
  <2> QED
    BY <2>1, <2>3, <2>4
<1>2. ASSUME NEW c \in Cycles, Scan(c) \/ ReadCash(c) PROVE RoomPromised'
  <2>1. Positions' = Positions
    BY <1>2 DEF Scan, ReadCash, Positions, account
  <2>2. InFlight' = InFlight
    BY <1>2 DEF Scan, ReadCash, InFlight, GoTo, TypeOK
  <2> QED
    BY <1>2, <2>1, <2>2 DEF Scan, ReadCash, market
<1>3. ASSUME NEW c \in Cycles, Buy(c) PROVE RoomPromised'
  \* The order turns the cycle in flight into at most one position.
  <2>1. Positions' \in SUBSET (Positions \cup {target[c]})
    BY <1>3 DEF Buy, Positions, TypeOK
  <2>2. Cardinality(Positions') <= Cardinality(Positions) + 1
    BY <2>1, AtMostOneMore
  <2>3. c \in InFlight /\ InFlight' = InFlight \ {c}
    BY <1>3 DEF Buy, InFlight, GoTo, TypeOK
  <2>4. Cardinality(InFlight') = Cardinality(InFlight) - 1
    BY <2>3, FS_RemoveElement
  <2> QED
    BY <1>3, <1>a, <2>2, <2>4 DEF Buy, market
<1>4. ASSUME NEW c \in Cycles, Sell(c) \/ Stop(c) PROVE RoomPromised'
  <2>1. Positions' \in SUBSET Positions
    BY <1>4 DEF Sell, Stop, Positions, TypeOK, account
  <2>2. InFlight' \in SUBSET InFlight
    BY <1>4 DEF Sell, Stop, InFlight, GoTo, TypeOK
  <2>3. /\ Cardinality(Positions') <= Cardinality(Positions)
        /\ Cardinality(InFlight') <= Cardinality(InFlight)
    BY <2>1, <2>2, FS_Subset
  <2> QED
    BY <1>4, <1>a, <2>3 DEF Sell, Stop, market
<1>5. ASSUME NEW t \in Tickers, Rise(t) PROVE RoomPromised'
  <2>1. Positions' \in SUBSET (Positions \cup {t})
    BY <1>5 DEF Rise, Positions, TypeOK
  <2>2. Cardinality(Positions') <= Cardinality(Positions) + 1
    BY <2>1, AtMostOneMore
  <2>3. InFlight' = InFlight
    BY <1>5 DEF Rise, InFlight, cycle
  <2> QED
    BY <1>5, <1>a, <2>2, <2>3 DEF Rise
<1>6. ASSUME NEW t \in Tickers, Fall(t) PROVE RoomPromised'
  <2>1. value[t] \div Swing <= value[t]
    BY DEF TypeOK
  <2>2. Positions' \in SUBSET Positions
    BY <1>6, <2>1 DEF Fall, Positions, TypeOK
  <2>3. Cardinality(Positions') <= Cardinality(Positions)
    BY <2>2, FS_Subset
  <2>4. InFlight' = InFlight
    BY <1>6 DEF Fall, InFlight, cycle
  <2> QED
    BY <1>6, <1>a, <2>3, <2>4 DEF Fall
<1>7. CASE UNCHANGED vars
  BY <1>7 DEF vars, account, cycle, market, Positions, InFlight
<1> QED
  BY <1>1, <1>2, <1>3, <1>4, <1>5, <1>6, <1>7 DEF Next, CycleStep

LEMMA IInvHolds == Spec => []IInv
<1>1. Init => IInv
  BY TypeInit, RoomInit DEF IInv
<1>2. IInv /\ [Next]_vars => IInv'
  BY TypeStep, RoomStep DEF IInv
<1> QED
  BY <1>1, <1>2, PTL DEF Spec

(* The positions exceed MAX_POSITIONS by no more than the cycles that       *)
(* overlap, the failed reads and the coins whose price rose.                *)
THEOREM PositionsBoundedHolds == Spec => []PositionsBounded
<1>1. IInv => PositionsBounded
  BY SetsFinite, PipelineAssumption
  DEF IInv, RoomPromised, Limit, PositionsBounded, TypeOK
<1> QED
  BY <1>1, IInvHolds, PTL

-----------------------------------------------------------------------------
(* Sums over the sets of coins.  A least counterexample takes the place of  *)
(* an induction over the number of coins.                                   *)

LEMMA Least ==
  ASSUME NEW S \in SUBSET Nat, S # {}
  PROVE  \E m \in S : \A n \in S : m <= n
<1> DEFINE LessThan == {p \in Nat \X Nat : p[1] < p[2]}
<1>1. IsWellFoundedOn(LessThan, Nat)
  BY NatLessThanWellFounded DEF OpToRel
<1>2. \A u, v \in Nat : <<u, v>> \in LessThan <=> u < v
  OBVIOUS
<1> HIDE DEF LessThan
<1>3. PICK m \in S : \A d \in S : <<d, m>> \notin LessThan
  BY <1>1, WFMin
<1>4. ASSUME NEW d \in S PROVE m <= d
  <2>1. d \in Nat /\ m \in Nat /\ <<d, m>> \notin LessThan
    BY <1>3
  <2> QED BY <1>2, <2>1
<1> QED BY <1>4

\* The element that a sum takes first.
One(s) == CHOOSE x \in s : TRUE

\* g sums f over the sets of D.
Sums(g, f, D) == g = [s \in D |-> IF s = {} THEN 0 ELSE f[One(s)] + g[s \ {One(s)}]]

LEMMA SumIs ==
  ASSUME NEW f, NEW S
  PROVE  SumFunctionOnSet(f, S) = (CHOOSE g : Sums(g, f, SUBSET S))[S]
BY DEF SumFunctionOnSet, FoldFunctionOnSet, MapThenFoldSet, Sums, One

LEMMA SmallerSet ==
  ASSUME NEW S, IsFiniteSet(S), NEW s \in SUBSET S, NEW x \in s
  PROVE  /\ s \ {x} \in SUBSET S /\ IsFiniteSet(s) /\ IsFiniteSet(s \ {x})
         /\ Cardinality(s) \in Nat /\ Cardinality(s) > 0
         /\ Cardinality(s \ {x}) \in Nat /\ Cardinality(s \ {x}) = Cardinality(s) - 1
<1>1. IsFiniteSet(s) /\ Cardinality(s) \in Nat
  BY FS_Subset, FS_CardinalityType
<1>2. IsFiniteSet(s \ {x}) /\ Cardinality(s \ {x}) = Cardinality(s) - 1
  BY <1>1, FS_RemoveElement
<1>3. Cardinality(s \ {x}) \in Nat
  BY <1>2, FS_CardinalityType
<1> QED BY <1>1, <1>2, <1>3

LEMMA OneIn ==
  ASSUME NEW s, s # {}
  PROVE  One(s) \in s
BY DEF One

\* What holds of a set when it holds of all smaller ones holds of every finite set.
LEMMA LeastSet ==
  ASSUME NEW S, IsFiniteSet(S), NEW Bad \in SUBSET SUBSET S, Bad # {}
  PROVE  \E s \in Bad : \A x \in s : s \ {x} \notin Bad
<1> DEFINE Sizes == {n \in Nat : \E s \in Bad : Cardinality(s) = n}
<1>1. \A s \in Bad : Cardinality(s) \in Nat
  BY FS_Subset, FS_CardinalityType
<1>2. Sizes \in SUBSET Nat /\ Sizes # {}
  BY <1>1
<1>3. PICK n \in Sizes : \A k \in Sizes : n <= k
  BY <1>2, Least
<1>4. PICK s \in Bad : Cardinality(s) = n
  BY <1>3
<1>5. ASSUME NEW x \in s, s \ {x} \in Bad PROVE FALSE
  <2>1. Cardinality(s \ {x}) = n - 1 /\ Cardinality(s \ {x}) \in Nat /\ n \in Nat
    BY <1>4, <1>3, SmallerSet
  <2>2. n - 1 \in Sizes
    BY <1>5, <2>1
  <2>3. n <= n - 1
    BY <1>3, <2>2
  <2> QED BY <2>1, <2>3
<1> QED BY <1>4, <1>5

Upto(S, n) == {s \in SUBSET S : Cardinality(s) <= n}

\* Sums over the sets of at most n elements exist, for every n.
LEMMA SumsExist ==
  ASSUME NEW f, NEW S, IsFiniteSet(S)
  PROVE  \A n \in Nat : \E g : Sums(g, f, Upto(S, n))
<1> DEFINE Bad == {n \in Nat : ~ \E g : Sums(g, f, Upto(S, n))}
<1> SUFFICES ASSUME Bad # {} PROVE FALSE
  OBVIOUS
<1>1. PICK n \in Bad : \A k \in Bad : n <= k
  BY Least
<1>2. \A s \in SUBSET S : Cardinality(s) \in Nat /\ (Cardinality(s) = 0 <=> s = {})
  BY FS_Subset, FS_CardinalityType, FS_EmptySet
<1>3. CASE n = 0
  <2> DEFINE g == [s \in Upto(S, 0) |-> 0]
  <2>1. \A s \in Upto(S, 0) : s = {}
    BY <1>2 DEF Upto
  <2>2. Sums(g, f, Upto(S, 0))
    BY <2>1 DEF Sums
  <2> QED BY <1>3, <2>2
<1>4. CASE n # 0
  <2>1. n - 1 \in Nat /\ n - 1 \notin Bad
    BY <1>1, <1>4
  <2>2. PICK g : Sums(g, f, Upto(S, n - 1))
    BY <2>1
  <2> DEFINE h == [s \in Upto(S, n) |-> IF s = {} THEN 0 ELSE f[One(s)] + g[s \ {One(s)}]]
  <2>3. ASSUME NEW s \in Upto(S, n), s # {}
        PROVE  s \ {One(s)} \in Upto(S, n - 1) /\ s \ {One(s)} \in Upto(S, n)
    <3>1. s \in SUBSET S /\ Cardinality(s) <= n /\ n \in Nat
      BY DEF Upto
    <3>2. One(s) \in s
      BY <2>3, OneIn
    <3>3. /\ s \ {One(s)} \in SUBSET S /\ Cardinality(s) \in Nat
          /\ Cardinality(s \ {One(s)}) = Cardinality(s) - 1
      BY <3>1, <3>2, SmallerSet
    <3> QED BY <3>1, <3>3 DEF Upto
  <2>4. \A s \in Upto(S, n - 1) : s \in Upto(S, n) /\ g[s] = h[s]
    <3> TAKE s \in Upto(S, n - 1)
    <3>1. s \in Upto(S, n)
      BY <1>2, <2>1 DEF Upto
    <3>2. g[s] = IF s = {} THEN 0 ELSE f[One(s)] + g[s \ {One(s)}]
      BY <2>2 DEF Sums
    <3> QED BY <3>1, <3>2
  <2>5. \A s \in Upto(S, n) : h[s] = IF s = {} THEN 0 ELSE f[One(s)] + h[s \ {One(s)}]
    BY <2>3, <2>4
  <2>6. h = [s \in Upto(S, n) |-> IF s = {} THEN 0 ELSE f[One(s)] + h[s \ {One(s)}]]
    <3>1. h = [s \in Upto(S, n) |-> h[s]]
      OBVIOUS
    <3> HIDE DEF h
    <3> QED BY <2>5, <3>1
  <2> HIDE DEF h
  <2>7. Sums(h, f, Upto(S, n))
    BY <2>6 DEF Sums
  <2> QED BY <2>7
<1> QED BY <1>3, <1>4

LEMMA SumExists ==
  ASSUME NEW f, NEW S, IsFiniteSet(S)
  PROVE  \E g : Sums(g, f, SUBSET S) /\ SumFunctionOnSet(f, S) = g[S]
<1> DEFINE g == CHOOSE g : Sums(g, f, SUBSET S)
<1>1. Upto(S, Cardinality(S)) = SUBSET S
  <2>1. \A s \in SUBSET S : Cardinality(s) <= Cardinality(S)
    BY FS_Subset
  <2> QED BY <2>1 DEF Upto
<1>2. Cardinality(S) \in Nat
  BY FS_CardinalityType
<1>3. \E h : Sums(h, f, SUBSET S)
  <2>1. \E h : Sums(h, f, Upto(S, Cardinality(S)))
    BY <1>2, SumsExist
  <2> QED BY <1>1, <2>1
<1>4. Sums(g, f, SUBSET S)
  BY <1>3
<1>5. SumFunctionOnSet(f, S) = g[S]
  BY SumIs
<1> HIDE DEF g
<1> QED BY <1>4, <1>5

\* Functions that agree on a set have one sum over it, whatever else they are summed over.
LEMMA SumsAgree ==
  ASSUME NEW T, IsFiniteSet(T), NEW f, NEW h, \A t \in T : f[t] = h[t],
         NEW S, T \in SUBSET S, NEW a, NEW b, Sums(a, f, SUBSET S), Sums(b, h, SUBSET T)
  PROVE  a[T] = b[T]
<1> DEFINE Bad == {s \in SUBSET T : a[s] # b[s]}
<1> SUFFICES ASSUME Bad # {} PROVE FALSE
  <2> T \in SUBSET T
    OBVIOUS
  <2> QED OBVIOUS
<1>1. PICK s \in Bad : \A x \in s : s \ {x} \notin Bad
  BY LeastSet
<1>2. /\ s \in SUBSET T /\ s \in SUBSET S
      /\ a[s] = IF s = {} THEN 0 ELSE f[One(s)] + a[s \ {One(s)}]
      /\ b[s] = IF s = {} THEN 0 ELSE h[One(s)] + b[s \ {One(s)}]
  BY DEF Sums
<1>3. s # {}
  BY <1>1, <1>2
<1>4. One(s) \in s /\ f[One(s)] = h[One(s)]
  BY <1>2, <1>3, OneIn
<1>5. s \ {One(s)} \in SUBSET T /\ s \ {One(s)} \notin Bad
  BY <1>1, <1>2, <1>4
<1>6. a[s \ {One(s)}] = b[s \ {One(s)}]
  BY <1>5
<1> QED BY <1>1, <1>2, <1>4, <1>6

LEMMA SumAgrees ==
  ASSUME NEW S, IsFiniteSet(S), NEW f, NEW h, \A t \in S : f[t] = h[t]
  PROVE  SumFunctionOnSet(f, S) = SumFunctionOnSet(h, S)
<1>1. PICK a : Sums(a, f, SUBSET S) /\ SumFunctionOnSet(f, S) = a[S]
  BY SumExists
<1>2. PICK b : Sums(b, h, SUBSET S) /\ SumFunctionOnSet(h, S) = b[S]
  BY SumExists
<1>3. S \in SUBSET S
  OBVIOUS
<1>4. a[S] = b[S]
  BY <1>1, <1>2, <1>3, SumsAgree
<1> QED BY <1>1, <1>2, <1>4

\* The recursion of a sum.
LEMMA SumRec ==
  ASSUME NEW S, IsFiniteSet(S), NEW f
  PROVE  SumFunctionOnSet(f, S) =
           IF S = {} THEN 0 ELSE f[One(S)] + SumFunctionOnSet(f, S \ {One(S)})
<1>1. PICK a : Sums(a, f, SUBSET S) /\ SumFunctionOnSet(f, S) = a[S]
  BY SumExists
<1>2. a[S] = IF S = {} THEN 0 ELSE f[One(S)] + a[S \ {One(S)}]
  BY <1>1 DEF Sums
<1>3. ASSUME S # {} PROVE a[S \ {One(S)}] = SumFunctionOnSet(f, S \ {One(S)})
  <2> DEFINE T == S \ {One(S)}
  <2>1. T \in SUBSET S /\ IsFiniteSet(T)
    BY <1>3, OneIn, SmallerSet
  <2> HIDE DEF T
  <2>2. PICK b : Sums(b, f, SUBSET T) /\ SumFunctionOnSet(f, T) = b[T]
    BY <2>1, SumExists
  <2>3. \A t \in T : f[t] = f[t]
    OBVIOUS
  <2>4. a[T] = SumFunctionOnSet(f, T)
    BY <1>1, <2>1, <2>2, <2>3, SumsAgree
  <2> QED BY <2>4 DEF T
<1> QED BY <1>1, <1>2, <1>3

LEMMA SumNat ==
  ASSUME NEW S, IsFiniteSet(S), NEW f, \A t \in S : f[t] \in Nat
  PROVE  SumFunctionOnSet(f, S) \in Nat
<1> DEFINE Bad == {s \in SUBSET S : SumFunctionOnSet(f, s) \notin Nat}
<1>1. ASSUME Bad # {} PROVE FALSE
  <2>1. PICK s \in Bad : \A x \in s : s \ {x} \notin Bad
    BY <1>1, LeastSet
  <2>2. s \in SUBSET S /\ IsFiniteSet(s)
    BY <2>1, FS_Subset
  <2>3. SumFunctionOnSet(f, s) = IF s = {} THEN 0 ELSE f[One(s)] + SumFunctionOnSet(f, s \ {One(s)})
    BY <2>2, SumRec
  <2>4. s # {}
    BY <2>1, <2>3
  <2>5. One(s) \in s /\ f[One(s)] \in Nat
    BY <2>2, <2>4, OneIn
  <2>6. SumFunctionOnSet(f, s \ {One(s)}) \in Nat
    BY <2>1, <2>2, <2>5
  <2> QED BY <2>1, <2>3, <2>4, <2>5, <2>6
<1> QED BY <1>1

\* Any element may be taken first.
LEMMA SumTake ==
  ASSUME NEW S, IsFiniteSet(S), NEW f, \A t \in S : f[t] \in Nat, NEW x \in S
  PROVE  SumFunctionOnSet(f, S) = f[x] + SumFunctionOnSet(f, S \ {x})
<1> DEFINE sum(s) == SumFunctionOnSet(f, s)
           Bad == {s \in SUBSET S : \E z \in s : sum(s) # f[z] + sum(s \ {z})}
<1>0. \A s \in SUBSET S : sum(s) \in Nat
  BY FS_Subset, SumNat
<1>1. \A s \in SUBSET S : s # {} => sum(s) = f[One(s)] + sum(s \ {One(s)})
  BY FS_Subset, SumRec
<1> HIDE DEF sum
<1>2. ASSUME Bad # {} PROVE FALSE
  <2>1. PICK s \in Bad : \A y \in s : s \ {y} \notin Bad
    BY <1>2, LeastSet
  <2>2. PICK z \in s : sum(s) # f[z] + sum(s \ {z})
    BY <2>1
  <2> DEFINE y == One(s)
  <2>3. s \in SUBSET S /\ y \in s /\ sum(s) = f[y] + sum(s \ {y})
    BY <1>1, <2>1, <2>2, OneIn
  <2> HIDE DEF y
  <2>4. y # z
    BY <2>2, <2>3
  <2>5. sum(s \ {y}) = f[z] + sum((s \ {y}) \ {z})
    BY <2>1, <2>2, <2>3, <2>4
  <2>6. sum(s \ {z}) = f[y] + sum((s \ {z}) \ {y})
    BY <2>1, <2>2, <2>3, <2>4
  <2>7. (s \ {y}) \ {z} = (s \ {z}) \ {y}
    OBVIOUS
  <2>8. f[y] \in Nat /\ f[z] \in Nat /\ sum((s \ {y}) \ {z}) \in Nat
    BY <1>0, <2>2, <2>3
  <2> QED BY <2>2, <2>3, <2>5, <2>6, <2>7, <2>8
<1>3. S \in SUBSET S /\ S \notin Bad
  BY <1>2
<1>4. sum(S) = f[x] + sum(S \ {x})
  BY <1>3
<1> QED BY <1>4 DEF sum

-----------------------------------------------------------------------------
(* The capital.  While nothing changes it, cash only gets less and what the *)
(* snapshot shows only more, so once an order has taken 95% of the cash no  *)
(* cycle finds a minimum position any more.  An order of an amount that was *)
(* read before a change may leave more: the cycles in flight at a change    *)
(* are counted to the change.                                               *)

Changes == sells + rises + falls + faults

\* Cash over the reserve, in tenths of a unit.
Left == 10 * cash - Capital(Positions)

\* No cycle that sees all positions may open one.
Spent == Left < 10 * MinPosition

\* After the order of c the capital is spent, whether its coin counts as a position or not.
Spends(c) ==
  /\ Left - 10 * amount[c] < 10 * MinPosition
  /\ amount[c] < MinPosition => Left - 9 * amount[c] < 10 * MinPosition

Outdated == {c \in Cycles : stage[c] = "order" /\ ~Spends(c)}

Committed ==
  \/ Spent /\ buys + Cardinality(InFlight) <= Cardinality(Cycles) * (1 + Changes)
  \/ buys + Cardinality(Outdated) <= Cardinality(Cycles) * Changes

\* The capital is at least the cash.
LEMMA CapitalType ==
  ASSUME TypeOK, NEW known \in SUBSET Tickers
  PROVE  Capital(known) \in Nat /\ Capital(known) >= cash
<1>1. IsFiniteSet(known)
  BY FS_Subset, PipelineAssumption
<1>2. \A t \in known : value[t] \in Nat
  BY DEF TypeOK
<1>3. SumFunctionOnSet(value, known) \in Nat
  BY <1>1, <1>2, SumNat
<1> QED BY <1>3 DEF Capital, TypeOK

\* An order turns cash into a coin: that coin counts, or the order was less than a position.
LEMMA BuyLeaves ==
  ASSUME TypeOK, NEW c \in Cycles, Buy(c)
  PROVE  /\ Left \in Int /\ Left' \in Int
         /\ \/ Left' <= Left - 10 * amount[c]
            \/ Left' = Left - 9 * amount[c] /\ amount[c] < MinPosition
<1> DEFINE t == target[c]
           a == amount[c]
           P == Positions
           Q == Positions'
           v == value
           w == value'
           sumP == SumFunctionOnSet(v, P)
           sumQ == SumFunctionOnSet(w, Q)
<1>1. /\ t \in Tickers /\ a \in Nat /\ cash \in Nat /\ a <= cash /\ cash' = cash - a
      /\ MinPosition \in Nat \ {0}
      /\ w = [v EXCEPT ![t] = v[t] + a] /\ v \in [Tickers -> Nat]
  BY PipelineAssumption DEF Buy, TypeOK
<1>2. /\ P = {x \in Tickers : v[x] >= MinPosition} /\ Q = {x \in Tickers : w[x] >= MinPosition}
  BY DEF Positions
<1>3. /\ Capital(P) = cash + sumP /\ (Capital(Positions))' = (cash - a) + sumQ
  BY <1>1 DEF Capital
<1> HIDE DEF t, a, P, Q, v, w
<1>4. /\ w \in [Tickers -> Nat] /\ w[t] = v[t] + a /\ \A x \in Tickers : x # t => w[x] = v[x]
  BY <1>1
<1>5. P \in SUBSET Tickers /\ Q \in SUBSET Tickers /\ IsFiniteSet(P) /\ IsFiniteSet(Q)
  BY <1>2, FS_Subset, PipelineAssumption
<1>6. sumP \in Nat /\ sumQ \in Nat
  BY <1>1, <1>4, <1>5, SumNat
<1> DEFINE R == P \ {t}
           rest == SumFunctionOnSet(v, R)
<1>7. /\ IsFiniteSet(R) /\ R \in SUBSET Tickers
      /\ \A x \in R : v[x] = w[x] /\ v[x] \in Nat
  BY <1>1, <1>4, <1>5, FS_Subset
<1>8. rest \in Nat
  BY <1>7, SumNat
<1>9. rest = SumFunctionOnSet(w, R)
  BY <1>7, SumAgrees
<1>10. Q \ {t} = R
  BY <1>2, <1>4
<1>11. sumP = IF t \in P THEN v[t] + rest ELSE rest
  <2>1. CASE t \in P
    <3>1. \A x \in P : v[x] \in Nat
      BY <1>1, <1>5
    <3> QED BY <1>5, <2>1, <3>1, SumTake
  <2>2. CASE t \notin P
    <3>1. R = P
      BY <2>2
    <3> QED BY <2>2, <3>1
  <2> QED BY <2>1, <2>2
<1>12. sumQ = IF t \in Q THEN w[t] + rest ELSE rest
  <2>1. CASE t \in Q
    <3>1. \A x \in Q : w[x] \in Nat
      BY <1>4, <1>5
    <3>2. sumQ = w[t] + SumFunctionOnSet(w, Q \ {t})
      BY <1>5, <2>1, <3>1, SumTake
    <3> QED BY <1>9, <1>10, <2>1, <3>2
  <2>2. CASE t \notin Q
    <3>1. Q = R
      BY <1>10, <2>2
    <3> QED BY <1>9, <2>2, <3>1
  <2> QED BY <2>1, <2>2
<1> HIDE DEF sumP, sumQ, R, rest
<1>13. Left = 10 * cash - (cash + sumP) /\ Left' = 10 * (cash - a) - ((cash - a) + sumQ)
  BY <1>1, <1>3 DEF Left, P
<1>14. v[t] \in Nat
  BY <1>1
<1>15. CASE t \in Q
  <2>1. sumQ = v[t] + a + rest /\ sumP <= v[t] + rest
    BY <1>1, <1>4, <1>8, <1>11, <1>12, <1>14, <1>15
  <2> QED BY <1>1, <1>6, <1>8, <1>13, <1>14, <2>1 DEF a
<1>16. CASE t \notin Q
  <2>1. v[t] + a < MinPosition /\ t \notin P
    BY <1>1, <1>2, <1>4, <1>14, <1>16
  <2>2. sumQ = sumP
    BY <1>11, <1>12, <1>16, <2>1
  <2> QED BY <1>1, <1>6, <1>13, <1>14, <2>1, <2>2 DEF a
<1> QED BY <1>15, <1>16

\* The amount that ReadCash asks for spends the capital.
LEMMA ReadSpends ==
  ASSUME NEW k \in Nat, NEW capital \in Nat, capital >= k, NEW least \in Nat \ {0},
         NEW a \in Nat \ {0}, a = (95 * k) \div 100
  PROVE  /\ 10 * k - capital - 10 * a < 10 * least
         /\ a < least => 10 * k - capital - 9 * a < 10 * least
<1>1. 95 * k <= 100 * a + 99
  OBVIOUS
<1> QED BY <1>1

LEMMA CyclesFinite ==
  /\ Cardinality(InFlight) \in Nat /\ Cardinality(InFlight) <= Cardinality(Cycles)
  /\ Cardinality(InFlight') \in Nat /\ Cardinality(InFlight') <= Cardinality(Cycles)
  /\ Cardinality(Outdated) \in Nat /\ Cardinality(Outdated) <= Cardinality(Cycles)
  /\ Cardinality(Outdated') \in Nat /\ Cardinality(Outdated') <= Cardinality(Cycles)
  /\ IsFiniteSet(Outdated) /\ IsFiniteSet(InFlight)
  /\ Cardinality(Cycles) \in Nat
<1>1. Outdated \in SUBSET Cycles /\ Outdated' \in SUBSET Cycles
  BY DEF Outdated
<1>2. /\ IsFiniteSet(Outdated) /\ Cardinality(Outdated) <= Cardinality(Cycles)
      /\ IsFiniteSet(Outdated') /\ Cardinality(Outdated') <= Cardinality(Cycles)
  BY <1>1, FS_Subset, PipelineAssumption
<1> QED BY <1>2, SetsFinite, SetsFiniteNext, FS_CardinalityType, PipelineAssumption

LEMMA ChangesType ==
  ASSUME TypeOK
  PROVE  /\ Changes \in Nat
         /\ Cardinality(Cycles) * Changes \in Nat
         /\ Cardinality(Cycles) * (1 + Changes)
              = Cardinality(Cycles) * Changes + Cardinality(Cycles)
<1>1. Changes \in Nat
  BY DEF TypeOK, Changes
<1> HIDE DEF Changes
<1> DEFINE N == Cardinality(Cycles)
<1>2. N \in Nat
  BY CyclesFinite
<1> HIDE DEF N
<1>3. N * Changes \in Nat /\ N * (1 + Changes) = N * Changes + N
  BY <1>1, <1>2
<1> QED BY <1>1, <1>3 DEF N

\* A step that commits nothing and starts no cycle.
LEMMA Quiet ==
  ASSUME TypeOK, Committed, buys' = buys, Changes' = Changes, Left' = Left,
         InFlight' \in SUBSET InFlight, Outdated' \in SUBSET Outdated
  PROVE  Committed'
<1>1. /\ Cardinality(InFlight') <= Cardinality(InFlight)
      /\ Cardinality(Outdated') <= Cardinality(Outdated)
  BY CyclesFinite, FS_Subset
<1>2. Spent' = Spent
  BY DEF Spent
<1>3. buys \in Nat /\ Cardinality(Cycles) * Changes \in Nat
      /\ Cardinality(Cycles) * (1 + Changes)
           = Cardinality(Cycles) * Changes + Cardinality(Cycles)
  BY ChangesType DEF TypeOK
<1>4. /\ Cardinality(Cycles) * Changes' = Cardinality(Cycles) * Changes
      /\ Cardinality(Cycles) * (1 + Changes') = Cardinality(Cycles) * (1 + Changes)
  OBVIOUS
<1> HIDE DEF Changes, Spent, Outdated, InFlight
<1> QED BY <1>1, <1>2, <1>3, <1>4, CyclesFinite DEF Committed

\* A change: the cycles that are about to order may order once more.
LEMMA Disturbed ==
  ASSUME TypeOK, TypeOK', Committed, buys' = buys, Changes' = Changes + 1,
         Outdated' \in SUBSET InFlight
  PROVE  Committed'
<1>1. Cardinality(Outdated') <= Cardinality(InFlight)
  BY CyclesFinite, FS_Subset
<1>2. /\ buys \in Nat /\ Cardinality(Cycles) * Changes \in Nat
      /\ Cardinality(Cycles) * (1 + Changes)
           = Cardinality(Cycles) * Changes + Cardinality(Cycles)
      /\ Changes \in Nat
  BY ChangesType DEF TypeOK
<1>3. Cardinality(Cycles) * Changes' = Cardinality(Cycles) * (1 + Changes)
  BY <1>2
<1>4. buys' + Cardinality(Outdated') <= Cardinality(Cycles) * Changes'
  BY <1>1, <1>2, <1>3, CyclesFinite DEF Committed
<1> QED BY <1>4 DEF Committed

LEMMA CommitInit == Init => Committed
<1> SUFFICES ASSUME Init PROVE Committed
  OBVIOUS
<1>1. Outdated = {} /\ TypeOK /\ buys = 0
  BY TypeInit DEF Init, Outdated
<1>2. Cardinality(Outdated) = 0
  BY <1>1, FS_EmptySet
<1> QED BY <1>1, <1>2, ChangesType DEF Committed

LEMMA CommitStep == TypeOK /\ TypeOK' /\ Committed /\ [Next]_vars => Committed'
<1> SUFFICES ASSUME TypeOK, TypeOK', Committed, [Next]_vars PROVE Committed'
  OBVIOUS
<1>1. ASSUME NEW c \in Cycles, Assess(c) PROVE Committed'
  <2>1. /\ stage[c] = "idle" /\ stage' = [stage EXCEPT ![c] = "scan"]
        /\ UNCHANGED <<cash, value, buys, sells, rises, falls, amount>>
    BY <1>1 DEF Assess, GoTo, account, market
  <2>2. Capital(Positions)' = Capital(Positions) /\ Left' = Left
    BY <2>1 DEF Left, Capital, Positions
  <2>3. \A d \in Cycles : stage'[d] = "order" => stage[d] = "order"
    BY <2>1 DEF TypeOK
  <2>4. CASE faults' = faults + 1
    <3>1. Outdated' \in SUBSET InFlight
      BY <2>3 DEF Outdated, InFlight
    <3>2. Changes' = Changes + 1
      BY <2>1, <2>4 DEF Changes, TypeOK
    <3> QED BY <2>1, <3>1, <3>2, Disturbed
  <2>5. CASE faults' = faults /\ AvailableTenths(Positions) >= 10 * MinPosition
    \* The cycle saw the whole account: the capital was not spent.
    <3>1. Capital(Positions) \in Nat
      BY CapitalType DEF Positions
    <3>2. ~Spent
      BY <2>5, <3>1, PipelineAssumption DEF Spent, Left, AvailableTenths, TypeOK
    <3>3. Changes' = Changes
      BY <2>1, <2>5 DEF Changes
    <3>4. Outdated' = Outdated
      BY <2>1, <2>2, <2>3 DEF Outdated, Spends, TypeOK
    <3>5. buys' + Cardinality(Outdated') <= Cardinality(Cycles) * Changes'
      BY <2>1, <3>2, <3>3, <3>4 DEF Committed
    <3> QED BY <3>5 DEF Committed
  <2> QED BY <1>1, <2>4, <2>5 DEF Assess
<1>2. ASSUME NEW c \in Cycles, Scan(c) PROVE Committed'
  <2>1. /\ stage[c] = "scan" /\ stage' = [stage EXCEPT ![c] = "decide"]
        /\ UNCHANGED <<cash, value, buys, sells, rises, falls, faults, amount>>
    BY <1>2 DEF Scan, GoTo, account, market
  <2>2. Left' = Left /\ Changes' = Changes
    BY <2>1 DEF Left, Capital, Positions, Changes
  <2>3. InFlight' \in SUBSET InFlight /\ Outdated' \in SUBSET Outdated
    BY <2>1, <2>2 DEF InFlight, Outdated, Spends, TypeOK
  <2> QED BY <2>1, <2>2, <2>3, Quiet
<1>3. ASSUME NEW c \in Cycles, ReadCash(c) PROVE Committed'
  <2> DEFINE a == (95 * cash) \div 100
  <2>1. /\ stage[c] = "decide" /\ stage' = [stage EXCEPT ![c] = "order"]
        /\ amount' = [amount EXCEPT ![c] = a] /\ a >= MinOrder
        /\ UNCHANGED <<cash, value, buys, sells, rises, falls, faults>>
    BY <1>3 DEF ReadCash, GoTo, account, market
  <2>2. Left' = Left /\ Changes' = Changes
    BY <2>1 DEF Left, Capital, Positions, Changes
  <2>3. /\ cash \in Nat /\ a \in Nat \ {0} /\ MinPosition \in Nat \ {0}
        /\ Capital(Positions) \in Nat /\ Capital(Positions) >= cash
    <3>1. cash \in Nat /\ MinPosition \in Nat \ {0} /\ MinOrder \in Nat \ {0}
      BY PipelineAssumption DEF TypeOK
    <3>2. a \in Nat \ {0}
      BY <2>1, <3>1
    <3>3. Positions \in SUBSET Tickers
      BY DEF Positions
    <3> QED BY <3>1, <3>2, <3>3, CapitalType
  <2>4. /\ Left - 10 * a < 10 * MinPosition
        /\ a < MinPosition => Left - 9 * a < 10 * MinPosition
    <3>1. a = (95 * cash) \div 100
      OBVIOUS
    <3> HIDE DEF a
    <3> QED BY <2>3, <3>1, ReadSpends DEF Left
  <2> HIDE DEF a
  <2>5. amount'[c] = a /\ \A d \in Cycles : d # c => amount'[d] = amount[d] /\ stage'[d] = stage[d]
    BY <2>1 DEF TypeOK
  <2>6. Spends(c)'
    BY <2>2, <2>4, <2>5 DEF Spends
  <2>7. \A d \in Cycles : d # c => (Spends(d) => Spends(d)')
    BY <2>2, <2>5 DEF Spends
  <2>8. Outdated' \in SUBSET Outdated
    BY <2>5, <2>6, <2>7 DEF Outdated
  <2>9. InFlight' \in SUBSET InFlight
    BY <2>1 DEF InFlight, TypeOK
  <2> QED BY <2>1, <2>2, <2>8, <2>9, Quiet
<1>4. ASSUME NEW c \in Cycles, Buy(c) PROVE Committed'
  <2>1. /\ stage[c] = "order" /\ stage' = [stage EXCEPT ![c] = "idle"]
        /\ buys' = buys + 1
        /\ UNCHANGED <<sells, rises, falls, faults, amount>>
    BY <1>4 DEF Buy, GoTo, market
  <2>2. amount[c] \in Nat /\ MinPosition \in Nat \ {0} /\ amount \in [Cycles -> Nat]
    BY PipelineAssumption DEF TypeOK
  <2>3. /\ Left \in Int /\ Left' \in Int
        /\ \/ Left' <= Left - 10 * amount[c]
           \/ Left' = Left - 9 * amount[c] /\ amount[c] < MinPosition
    BY <1>4, BuyLeaves
  <2> HIDE DEF Left
  <2>4. Left' <= Left
    BY <2>2, <2>3
  <2>5. Changes' = Changes
    BY <2>1 DEF Changes
  <2>6. stage'[c] # "order" /\ \A d \in Cycles : d # c => stage'[d] = stage[d]
    BY <2>1 DEF TypeOK
  <2>7. \A d \in Cycles : Spends(d) => Spends(d)'
    <3> SUFFICES ASSUME NEW d \in Cycles, Spends(d) PROVE Spends(d)'
      OBVIOUS
    <3>1. amount'[d] = amount[d] /\ amount[d] \in Nat
      BY <2>1, <2>2
    <3> QED BY <2>2, <2>3, <2>4, <3>1 DEF Spends
  <2>8. Outdated' \in SUBSET (Outdated \ {c})
    BY <2>6, <2>7 DEF Outdated
  <2>9. c \in InFlight /\ InFlight' = InFlight \ {c}
    BY <2>1 DEF InFlight, TypeOK
  <2>10. Cardinality(InFlight') = Cardinality(InFlight) - 1
    BY <2>9, CyclesFinite, FS_RemoveElement
  <2>11. /\ buys \in Nat /\ Cardinality(Cycles) * Changes \in Nat
         /\ Cardinality(Cycles) * (1 + Changes)
              = Cardinality(Cycles) * Changes + Cardinality(Cycles)
    BY ChangesType DEF TypeOK
  <2> DEFINE O == Cardinality(Outdated)
             OO == Cardinality(Outdated')
             F == Cardinality(InFlight)
             FF == Cardinality(InFlight')
             N == Cardinality(Cycles)
             ND == Cardinality(Cycles) * Changes
  <2>12. /\ O \in Nat /\ OO \in Nat /\ F \in Nat /\ FF \in Nat /\ N \in Nat /\ ND \in Nat
         /\ FF = F - 1 /\ F <= N /\ FF <= N
    BY <2>10, <2>11, CyclesFinite
  <2>13. /\ Committed = (\/ Spent /\ buys + F <= ND + N
                         \/ buys + O <= ND)
         /\ Committed' = (\/ Spent' /\ (buys + 1) + FF <= ND + N
                          \/ (buys + 1) + OO <= ND)
    BY <2>1, <2>5, <2>11 DEF Committed
  <2>15. c \in Outdated => OO <= O - 1
    <3> SUFFICES ASSUME c \in Outdated PROVE OO <= O - 1
      OBVIOUS
    <3>1. IsFiniteSet(Outdated \ {c}) /\ Cardinality(Outdated \ {c}) = O - 1
      BY CyclesFinite, FS_RemoveElement
    <3> QED BY <2>8, <3>1, FS_Subset
  <2>16. Spent => Spent'
    BY <2>2, <2>3, <2>4, PipelineAssumption DEF Spent
  <2>17. c \notin Outdated => Spent'
    <3> SUFFICES ASSUME Spends(c) PROVE Spent'
      BY <2>1 DEF Outdated
    <3> QED BY <2>2, <2>3, PipelineAssumption DEF Spends, Spent
  <2> HIDE DEF O, OO, F, FF, N, ND
  <2>18. buys \in Nat
    BY <2>11
  <2>19. CASE Spent /\ buys + F <= ND + N
    <3>1. (buys + 1) + FF <= ND + N
      BY <2>12, <2>18, <2>19
    <3> QED BY <2>13, <2>16, <2>19, <3>1
  <2>20. CASE buys + O <= ND /\ c \in Outdated
    <3>1. (buys + 1) + OO <= ND
      BY <2>12, <2>15, <2>18, <2>20
    <3> QED BY <2>13, <3>1
  <2>21. CASE buys + O <= ND /\ c \notin Outdated
    \* The capital is spent now, and the other cycles may each order once.
    <3>1. (buys + 1) + FF <= ND + N
      BY <2>12, <2>18, <2>21
    <3> QED BY <2>13, <2>17, <2>21, <3>1
  <2> QED BY <2>13, <2>19, <2>20, <2>21
<1>5. ASSUME NEW c \in Cycles, Sell(c) PROVE Committed'
  <2>1. /\ stage[c] = "decide" /\ stage' = [stage EXCEPT ![c] = "idle"]
        /\ sells' = sells + 1
        /\ UNCHANGED <<buys, rises, falls, faults>>
    BY <1>5 DEF Sell, GoTo, market
  <2>2. Changes' = Changes + 1
    BY <2>1 DEF Changes, TypeOK
  <2>3. Outdated' \in SUBSET InFlight
    BY <2>1 DEF Outdated, InFlight, TypeOK
  <2> QED BY <2>1, <2>2, <2>3, Disturbed
<1>6. ASSUME NEW c \in Cycles, Stop(c) PROVE Committed'
  <2>1. /\ stage' = [stage EXCEPT ![c] = "idle"]
        /\ UNCHANGED <<cash, value, buys, sells, rises, falls, faults, amount>>
    BY <1>6 DEF Stop, account, market
  <2>2. Left' = Left /\ Changes' = Changes
    BY <2>1 DEF Left, Capital, Positions, Changes
  <2>3. InFlight' \in SUBSET InFlight /\ Outdated' \in SUBSET Outdated
    BY <2>1, <2>2 DEF InFlight, Outdated, Spends, TypeOK
  <2> QED BY <2>1, <2>2, <2>3, Quiet
<1>7. ASSUME NEW t \in Tickers, Rise(t) \/ Fall(t) PROVE Committed'
  <2>1. UNCHANGED <<buys, sells, stage, faults>>
    BY <1>7 DEF Rise, Fall, cycle
  <2>2. Changes' = Changes + 1
    BY <1>7, <2>1 DEF Rise, Fall, Changes, TypeOK
  <2>3. Outdated' \in SUBSET InFlight
    BY <2>1 DEF Outdated, InFlight
  <2> QED BY <2>1, <2>2, <2>3, Disturbed
<1>8. CASE UNCHANGED vars
  <2>1. UNCHANGED <<cash, value, buys, sells, rises, falls, faults, amount, stage>>
    BY <1>8 DEF vars, account, cycle, market
  <2>2. Left' = Left /\ Changes' = Changes
    BY <2>1 DEF Left, Capital, Positions, Changes
  <2>3. InFlight' \in SUBSET InFlight /\ Outdated' \in SUBSET Outdated
    BY <2>1, <2>2 DEF InFlight, Outdated, Spends
  <2> QED BY <2>1, <2>2, <2>3, Quiet
<1> QED
  BY <1>1, <1>2, <1>3, <1>4, <1>5, <1>6, <1>7, <1>8 DEF Next, CycleStep

(* One entry commits the capital: _calculate_available_capital keeps 10% of *)
(* it back, an order takes 95% of the cash, and HybridRiskCheckStage lets   *)
(* no later cycle pass, however many cycles overlap, until a sale, a price  *)
(* move or a failed read changes what the snapshot shows; each such change  *)
(* lets each cycle order once more.                                         *)
THEOREM CapitalCommittedOnceHolds == Spec => []CapitalCommittedOnce
<1>1. Init => TypeOK /\ Committed
  BY TypeInit, CommitInit
<1>2. TypeOK /\ Committed /\ [Next]_vars => (TypeOK /\ Committed)'
  BY TypeStep, CommitStep
<1>3. TypeOK /\ Committed => CapitalCommittedOnce
  <2> SUFFICES ASSUME TypeOK, Committed PROVE CapitalCommittedOnce
    OBVIOUS
  <2>1. /\ buys \in Nat /\ Cardinality(Cycles) * Changes \in Nat
        /\ Cardinality(Cycles) * (1 + Changes)
             = Cardinality(Cycles) * Changes + Cardinality(Cycles)
    BY ChangesType DEF TypeOK
  <2>2. 1 + Changes = 1 + sells + rises + falls + faults
    BY DEF Changes, TypeOK
  <2>3. buys <= Cardinality(Cycles) * (1 + Changes)
    BY <2>1, CyclesFinite DEF Committed
  <2> QED BY <2>2, <2>3 DEF CapitalCommittedOnce
<1> QED
  BY <1>1, <1>2, <1>3, PTL DEF Spec
=============================================================================
